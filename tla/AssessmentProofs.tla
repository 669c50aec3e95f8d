--------------------------- MODULE AssessmentProofs ---------------------------
(****************************************************************************)
(* Theorems about Assessment, for any number of attempts, results and       *)
(* overlapping requests.                                                    *)
(****************************************************************************)
EXTENDS Assessment, TLAPS

-----------------------------------------------------------------------------
(* The type invariant                                                       *)

(* Rows have columns unless they are missing.                               *)
LEMMA RowShape ==
  /\ \A x \in AttemptRow :
       x.state # Missing => x \in [state : {"LIVE", "DELETED"}, is : Columns]
  /\ \A x \in ResultRow :
       x.state # Missing =>
         x \in [state : {"LIVE", "DELETED"}, is : ResultStatus]
  /\ \A c \in Columns, s \in {"LIVE", "DELETED"} :
       [state |-> s, is |-> c] \in AttemptRow
  /\ \A c \in ResultStatus, s \in {"LIVE", "DELETED"} :
       [state |-> s, is |-> c] \in ResultRow
  BY DEF AttemptRow, ResultRow, Missing

ResultRequest ==
  [pc : {"CountOpen", "WriteResult"}, row : Result, prev : ResultStatus,
   new : ResultStatus, to : Registration \cup {Kept}, at : Registration]

(* A request is the record that its pc says.                                *)
LEMMA RequestShape ==
  ASSUME NEW x \in RequestState
  PROVE  /\ x.pc = "Idle" => x = Idle
         /\ x.pc = "WriteAttempt" =>
              x \in [pc : {"WriteAttempt"}, row : Attempt, prev : Columns,
                     body : Columns, to : Registration \cup {Kept}]
         /\ x.pc = "Release" => x \in [pc : {"Release"}, row : Attempt]
         /\ x.pc \in {"CountOpen", "WriteResult"} =>
              x \in ResultRequest
         /\ x.pc = "Ratify" => x \in [pc : {"Ratify"}, row : Result]
  BY DEF RequestState, ResultRequest, Idle

LEMMA RequestsOf ==
  /\ Idle \in RequestState
  /\ \A a \in Attempt, p, b \in Columns, t \in Registration \cup {Kept} :
       [pc |-> "WriteAttempt", row |-> a, prev |-> p, to |-> t, body |-> b]
         \in RequestState
  /\ \A a \in Attempt : [pc |-> "Release", row |-> a] \in RequestState
  /\ \A m \in Result, p, n \in ResultStatus, c \in {"CountOpen", "WriteResult"},
        t \in Registration \cup {Kept}, g \in Registration :
       [pc |-> c, row |-> m, prev |-> p, new |-> n, to |-> t, at |-> g]
         \in RequestState
  /\ \A m \in Result : [pc |-> "Ratify", row |-> m] \in RequestState
  BY DEF RequestState, Idle

LEMMA LandsSomewhere ==
  \A to \in Registration \cup {Kept}, old \in Registration :
    Lands(to, old) \in Registration
  BY DEF Lands

LEMMA MergeIsColumns ==
  \A old, body \in Columns : Merge(old, body) \in Columns
  BY DEF Merge, Columns

(* A request that is about to write has read a row, and no row goes away.    *)
Exists ==
  \A r \in Request :
    /\ req[r].pc = "WriteAttempt" => attempt[req[r].row].state # Missing
    /\ req[r].pc \in {"CountOpen", "WriteResult"} =>
         result[req[r].row].state # Missing

Typed == TypeOK /\ Exists

LEMMA NotesLateTypeOK ==
  NotesLate => late' \in [Request -> SUBSET Attempt]
  BY DEF NotesLate

(* What POST and PATCH on /marks do, once zod has filled the columns in.     *)
Creates(a, c) ==
  /\ attempt[a].state = Missing
  /\ attempt' = [attempt EXCEPT ![a] = [state |-> "LIVE", is |-> c]]
  /\ bornComplete' = bornComplete \cup {b \in {a} : Complete(c)}
  /\ UNCHANGED <<result, home, req, released, ratified, stale, lost>>
  /\ NotesLate

Reads(r, a, c, t) ==
  /\ req[r].pc = "Idle"
  /\ attempt[a].state = "LIVE"
  /\ ValidAttemptMove(attempt[a].is.status, c.status)
  /\ req' = [req EXCEPT ![r] =
               [pc |-> "WriteAttempt", row |-> a, prev |-> attempt[a].is,
                to |-> t, body |-> c]]
  /\ UNCHANGED <<attempt, result, home, released, ratified, stale,
                 bornComplete, lost, late>>

Destination == Registration \cup {Kept}

MarkingStep ==
  \/ \E a \in Attempt, c \in Columns : Creates(a, c)
  \/ \E r \in Request, a \in Attempt, c \in Columns, t \in Destination :
       Reads(r, a, c, t)
  \/ \E r \in Request : WriteAttempt(r) \/ Release(r)
  \/ \E a \in Attempt : RemoveAttempt(a)

LEMMA FilledIsColumns ==
  \A b \in AttemptBodies : \A c \in Filled(b) :
    c \in Columns /\ c.status = b.status /\ b.to \in Destination
<1> SUFFICES ASSUME NEW b \in AttemptBodies, NEW c \in Filled(b)
             PROVE  c \in Columns /\ c.status = b.status /\ b.to \in Destination
  OBVIOUS
<1>1. b \in AttemptBody
  BY BodiesAssumption
<1>2. GradeFor(b.mark, b.grade) \subseteq BOOLEAN
  BY <1>1 DEF GradeFor, AttemptBody
<1>3. PICK g \in BOOLEAN :
        c = [status |-> b.status, mark |-> b.mark, grade |-> g]
  BY <1>2 DEF Filled
<1> QED BY <1>1, <1>3 DEF AttemptBody, Columns, Destination

LEMMA MarkingSteps == TypeOK /\ Marking => MarkingStep
<1> SUFFICES ASSUME TypeOK, Marking PROVE MarkingStep
  OBVIOUS
<1>1. ASSUME NEW a \in Attempt, NEW b \in AttemptBodies, CreateAttempt(a, b)
      PROVE  \E c \in Columns : Creates(a, c)
  <2>1. PICK c \in Filled(b) :
          /\ attempt' = [attempt EXCEPT ![a] = [state |-> "LIVE", is |-> c]]
          /\ bornComplete' = bornComplete \cup {d \in {a} : Complete(c)}
    BY <1>1 DEF CreateAttempt
  <2>2. Creates(a, c)
    BY <1>1, <2>1 DEF CreateAttempt, Creates, events
  <2> QED BY <2>2, FilledIsColumns
<1>2. ASSUME NEW r \in Request, NEW a \in Attempt, NEW b \in AttemptBodies,
             PatchAttempt(r, a, b)
      PROVE  \E c \in Columns, t \in Destination : Reads(r, a, c, t)
  <2>1. PICK c \in Filled(b) :
          req' = [req EXCEPT ![r] =
             [pc |-> "WriteAttempt", row |-> a, prev |-> attempt[a].is,
              to |-> b.to, body |-> c]]
    BY <1>2 DEF PatchAttempt
  <2>2. c \in Columns /\ c.status = b.status /\ b.to \in Destination
    BY FilledIsColumns
  <2>3. Reads(r, a, c, b.to)
    BY <1>2, <2>1, <2>2 DEF PatchAttempt, Reads, events, history
  <2> QED BY <2>2, <2>3
<1> QED BY <1>1, <1>2 DEF Marking, MarkingStep

LEMMA MarkingTyped == Typed /\ Marking => Typed'
<1> SUFFICES ASSUME TypeOK, Exists, MarkingStep PROVE TypeOK' /\ Exists'
  BY MarkingSteps DEF Typed
<1> USE DEF events, history
<1>1. ASSUME NEW a \in Attempt, NEW c \in Columns, Creates(a, c)
      PROVE  TypeOK' /\ Exists'
  <2>1. [state |-> "LIVE", is |-> c] \in AttemptRow
    BY RowShape
  <2>2. attempt' \in [Attempt -> AttemptRow]
    BY <1>1, <2>1 DEF Creates, TypeOK
  <2>3. TypeOK'
    BY <1>1, <2>2, NotesLateTypeOK DEF Creates, TypeOK
  <2>4. Exists'
    BY <1>1, RequestShape DEF Creates, Exists, TypeOK, Missing
  <2> QED BY <2>3, <2>4
<1>2. ASSUME NEW r \in Request, NEW a \in Attempt, NEW c \in Columns,
             NEW t \in Destination, Reads(r, a, c, t)
      PROVE  TypeOK' /\ Exists'
  <2>1. attempt[a].is \in Columns
    BY <1>2, RowShape DEF Reads, TypeOK, Missing
  <2>2. req' \in [Request -> RequestState]
    BY <1>2, <2>1, RequestsOf DEF Reads, TypeOK, Destination
  <2>3. Exists'
    BY <1>2 DEF Reads, Exists, TypeOK, Missing
  <2> QED BY <1>2, <2>2, <2>3 DEF Reads, TypeOK
<1>3. ASSUME NEW r \in Request, WriteAttempt(r) PROVE TypeOK' /\ Exists'
  <2> DEFINE w == req[r]
             new == Merge(attempt[w.row].is, w.body)
  <2>1. w.row \in Attempt /\ w.body \in Columns /\ w.to \in Destination
    BY <1>3, RequestShape DEF WriteAttempt, TypeOK, Destination
  <2>h. home' \in [Attempt \cup Result -> Registration]
    BY <1>3, <2>1, LandsSomewhere DEF WriteAttempt, TypeOK, Destination
  <2>2. attempt[w.row] \in [state : {"LIVE", "DELETED"}, is : Columns]
    BY <1>3, <2>1, RowShape DEF WriteAttempt, Exists, TypeOK
  <2>3. new \in Columns
    BY <2>1, <2>2, MergeIsColumns
  <2>4. attempt' = [attempt EXCEPT ![w.row].is = new]
    BY <1>3 DEF WriteAttempt
  <2> HIDE DEF new
  <2>5. [attempt[w.row] EXCEPT !.is = new]
          \in [state : {"LIVE", "DELETED"}, is : Columns]
    BY <2>2, <2>3
  <2>6. /\ attempt' \in [Attempt -> AttemptRow]
        /\ attempt'[w.row].state # Missing
        /\ \A b \in Attempt : b # w.row => attempt'[b] = attempt[b]
    BY <2>1, <2>4, <2>5, RowShape DEF TypeOK, AttemptRow, Missing
  <2>7. req'[r] = Idle \/ req'[r] = [pc |-> "Release", row |-> w.row]
    BY <1>3 DEF WriteAttempt, TypeOK
  <2>8. /\ req' \in [Request -> RequestState]
        /\ \A q \in Request : q # r => req'[q] = req[q]
    BY <1>3, <2>1, RequestsOf DEF WriteAttempt, TypeOK
  <2>9. TypeOK'
    BY <1>3, <2>1, <2>6, <2>8, <2>h, NotesLateTypeOK DEF WriteAttempt, TypeOK
  <2>10. req'[r].pc \in {"Idle", "Release"}
    BY <2>7 DEF Idle
  <2>11. Exists'
    BY <1>3, <2>6, <2>8, <2>10 DEF WriteAttempt, Exists
  <2> QED BY <2>9, <2>11
<1>4. ASSUME NEW r \in Request, Release(r) PROVE TypeOK' /\ Exists'
  <2>1. req[r].row \in Attempt
    BY <1>4, RequestShape DEF Release, TypeOK
  <2>2. released' \in [Attempt -> 0..2]
    BY <1>4, <2>1 DEF Release, OneMore, TypeOK
  <2>3. TypeOK'
    BY <1>4, <2>2, RequestsOf DEF Release, TypeOK
  <2>4. Exists'
    BY <1>4 DEF Release, Exists, TypeOK, Idle
  <2> QED BY <2>3, <2>4
<1>5. ASSUME NEW a \in Attempt, RemoveAttempt(a) PROVE TypeOK' /\ Exists'
  <2>1. attempt[a] \in [state : {"LIVE", "DELETED"}, is : Columns]
    BY <1>5, RowShape DEF RemoveAttempt, TypeOK, Missing
  <2>2. [attempt[a] EXCEPT !.state = "DELETED"]
          \in [state : {"LIVE", "DELETED"}, is : Columns]
    BY <2>1
  <2>3. /\ attempt' \in [Attempt -> AttemptRow]
        /\ \A b \in Attempt : attempt[b].state # Missing =>
                                attempt'[b].state # Missing
    BY <1>5, <2>2 DEF RemoveAttempt, TypeOK, AttemptRow, Missing
  <2>4. Exists'
    BY <1>5, <2>3, RequestShape DEF RemoveAttempt, Exists, TypeOK
  <2> QED BY <1>5, <2>3, <2>4 DEF RemoveAttempt, TypeOK
<1> QED BY <1>1, <1>2, <1>3, <1>4, <1>5 DEF MarkingStep

LEMMA RatificationTyped == Typed /\ Ratification => Typed'
<1> SUFFICES ASSUME TypeOK, Exists, Ratification PROVE TypeOK' /\ Exists'
  BY DEF Typed
<1> USE DEF events, history
<1>1. ASSUME NEW m \in Result, NEW s \in ResultBodies, CreateResult(m, s)
      PROVE  TypeOK' /\ Exists'
  <2>1. [state |-> "LIVE", is |-> s] \in ResultRow
    BY RowShape, BodiesAssumption
  <2>2. Exists'
    BY <1>1, RequestShape DEF CreateResult, Exists, TypeOK, Missing
  <2> QED BY <1>1, <2>1, <2>2 DEF CreateResult, TypeOK
<1>2. ASSUME NEW r \in Request, NEW m \in Result, NEW s \in ResultBodies,
             NEW t \in Destination, PatchResult(r, m, s, t)
      PROVE  TypeOK' /\ Exists'
  <2>1. result[m].is \in ResultStatus /\ s \in ResultStatus
    BY <1>2, RowShape, BodiesAssumption DEF PatchResult, TypeOK, Missing
  <2>h. home[m] \in Registration
    BY DEF TypeOK
  <2>2. PICK c \in {"CountOpen", "WriteResult"} :
          req' = [req EXCEPT ![r] = [pc |-> c, row |-> m,
                                     prev |-> result[m].is, new |-> s,
                                     to |-> t, at |-> home[m]]]
    BY <1>2 DEF PatchResult
  <2>3. req' \in [Request -> RequestState]
    BY <2>1, <2>2, <2>h, RequestsOf DEF TypeOK, Destination
  <2>4. Exists'
    BY <1>2, <2>2 DEF PatchResult, Exists, TypeOK, Missing
  <2> QED BY <1>2, <2>3, <2>4 DEF PatchResult, TypeOK
<1>3. ASSUME NEW r \in Request, CountOpen(r) PROVE TypeOK' /\ Exists'
  <2>1. req[r] \in ResultRequest
    BY <1>3, RequestShape DEF CountOpen, TypeOK
  <2>2. [req[r] EXCEPT !.pc = "WriteResult"]
          \in ResultRequest
    BY <2>1 DEF ResultRequest
  <2>3. /\ req' \in [Request -> RequestState]
        /\ \A q \in Request : q # r => req'[q] = req[q]
        /\ \/ req'[r] = Idle
           \/ req'[r] = [req[r] EXCEPT !.pc = "WriteResult"]
    BY <1>3, <2>2, RequestsOf
       DEF CountOpen, TypeOK, RequestState, ResultRequest
  <2>4. late' \in [Request -> SUBSET Attempt]
    BY <1>3 DEF CountOpen, TypeOK
  <2>5. req'[r].pc = "Idle" \/ (req'[r].pc = "WriteResult" /\ req'[r].row = req[r].row)
    BY <2>1, <2>3 DEF Idle, ResultRequest
  <2>6. Exists'
    BY <1>3, <2>3, <2>5 DEF CountOpen, Exists
  <2> QED BY <1>3, <2>3, <2>4, <2>6 DEF CountOpen, TypeOK
<1>4. ASSUME NEW r \in Request, WriteResult(r) PROVE TypeOK' /\ Exists'
  <2> DEFINE w == req[r]
  <2>1. /\ w.row \in Result /\ w.new \in ResultStatus
        /\ w.to \in Destination
    BY <1>4, RequestShape
       DEF WriteResult, TypeOK, Destination, ResultRequest
  <2>h. home' \in [Attempt \cup Result -> Registration]
    BY <1>4, <2>1, LandsSomewhere DEF WriteResult, TypeOK, Destination
  <2>2. result[w.row] \in [state : {"LIVE", "DELETED"}, is : ResultStatus]
    BY <1>4, <2>1, RowShape DEF WriteResult, Exists, TypeOK
  <2>3. [result[w.row] EXCEPT !.is = w.new]
          \in [state : {"LIVE", "DELETED"}, is : ResultStatus]
    BY <2>1, <2>2
  <2>4. result' = [result EXCEPT ![w.row].is = w.new]
    BY <1>4 DEF WriteResult
  <2>5. /\ result' \in [Result -> ResultRow]
        /\ result'[w.row].state # Missing
        /\ \A b \in Result : b # w.row => result'[b] = result[b]
    BY <2>1, <2>3, <2>4 DEF TypeOK, ResultRow, Missing
  <2>6. req'[r] = Idle \/ req'[r] = [pc |-> "Ratify", row |-> w.row]
    BY <1>4 DEF WriteResult, TypeOK
  <2>7. /\ req' \in [Request -> RequestState]
        /\ \A q \in Request : q # r => req'[q] = req[q]
    BY <1>4, <2>1, RequestsOf DEF WriteResult, TypeOK
  <2>8. late' \in [Request -> SUBSET Attempt]
    BY <1>4 DEF WriteResult, TypeOK
  <2>9. req'[r].pc \in {"Idle", "Ratify"}
    BY <2>6 DEF Idle
  <2>10. Exists'
    BY <1>4, <2>5, <2>7, <2>9 DEF WriteResult, Exists
  <2> QED BY <1>4, <2>1, <2>5, <2>7, <2>8, <2>10, <2>h
         DEF WriteResult, TypeOK
<1>5. ASSUME NEW r \in Request, Ratify(r) PROVE TypeOK' /\ Exists'
  <2>1. req[r].row \in Result
    BY <1>5, RequestShape DEF Ratify, TypeOK
  <2>2. ratified' \in [Result -> 0..2]
    BY <1>5, <2>1 DEF Ratify, OneMore, TypeOK
  <2>3. TypeOK'
    BY <1>5, <2>2, RequestsOf DEF Ratify, TypeOK
  <2>4. Exists'
    BY <1>5 DEF Ratify, Exists, TypeOK, Idle
  <2> QED BY <2>3, <2>4
<1>6. ASSUME NEW m \in Result, RemoveResult(m) PROVE TypeOK' /\ Exists'
  <2>1. result[m] \in [state : {"LIVE", "DELETED"}, is : ResultStatus]
    BY <1>6, RowShape DEF RemoveResult, TypeOK, Missing
  <2>2. [result[m] EXCEPT !.state = "DELETED"]
          \in [state : {"LIVE", "DELETED"}, is : ResultStatus]
    BY <2>1
  <2>3. /\ result' \in [Result -> ResultRow]
        /\ \A b \in Result : result[b].state # Missing =>
                               result'[b].state # Missing
    BY <1>6, <2>2 DEF RemoveResult, TypeOK, ResultRow, Missing
  <2>4. Exists'
    BY <1>6, <2>3, RequestShape DEF RemoveResult, Exists, TypeOK
  <2> QED BY <1>6, <2>3, <2>4 DEF RemoveResult, TypeOK
<1> QED BY <1>1, <1>2, <1>3, <1>4, <1>5, <1>6 DEF Ratification, Destination

LEMMA AbortTyped ==
  ASSUME Typed, NEW r \in Request, AbortRequest(r) PROVE Typed'
<1>1. req' \in [Request -> RequestState]
  BY RequestsOf DEF AbortRequest, Typed, TypeOK
<1>2. TypeOK'
  BY <1>1 DEF AbortRequest, Typed, TypeOK, events
<1>3. Exists'
  BY DEF AbortRequest, Typed, TypeOK, Exists, Idle
<1> QED BY <1>2, <1>3 DEF Typed

LEMMA TypedInvariant == Spec => []Typed
<1>1. Init => Typed
  BY DEF Init, Typed, TypeOK, Exists, AttemptRow, ResultRow, RequestState, Idle
<1>2. Typed /\ [Next]_vars => Typed'
  <2>1. Typed /\ UNCHANGED vars => Typed'
    BY DEF vars, events, history, Typed, TypeOK, Exists
  <2> QED BY <2>1, MarkingTyped, RatificationTyped, AbortTyped DEF Next
<1> QED BY <1>1, <1>2, PTL DEF Spec

(* Every variable keeps its type and no request writes a row that does not   *)
(* exist, although it reads and writes in steps of their own.                *)
THEOREM TypeCorrect == Spec => []TypeOK
<1>1. Typed => TypeOK
  BY DEF Typed
<1> QED BY <1>1, TypedInvariant, PTL

-----------------------------------------------------------------------------
(* What a write of a row does, for the theorems that follow                  *)

LEMMA WriteAttemptEffect ==
  ASSUME Typed, NEW r \in Request, WriteAttempt(r)
  PROVE  LET w == req[r]
             old == attempt[w.row].is
             new == Merge(old, w.body)
         IN  /\ w.row \in Attempt /\ w.prev \in Columns /\ w.body \in Columns
             /\ old \in Columns /\ new \in Columns
             /\ attempt[w.row].state # Missing
             /\ attempt'[w.row].is = new
             /\ attempt'[w.row].state = attempt[w.row].state
             /\ \A a \in Attempt : a # w.row => attempt'[a] = attempt[a]
             /\ \A q \in Request : q # r => req'[q] = req[q]
             /\ req'[r] = IF Releases(w.prev, new)
                            THEN [pc |-> "Release", row |-> w.row] ELSE Idle
             /\ stale \subseteq stale'
             /\ w.row \notin stale' => old = w.prev
             /\ UNCHANGED <<result, released, ratified, bornComplete, lost>>
<1> DEFINE w == req[r]
           new == Merge(attempt[w.row].is, w.body)
<1>1. /\ w.row \in Attempt /\ w.prev \in Columns /\ w.body \in Columns
      /\ w.pc = "WriteAttempt"
  BY RequestShape DEF WriteAttempt, Typed, TypeOK
<1>2. /\ attempt[w.row] \in [state : {"LIVE", "DELETED"}, is : Columns]
      /\ attempt[w.row].state # Missing
  BY <1>1, RowShape DEF Typed, Exists, TypeOK
<1>3. new \in Columns
  BY <1>1, <1>2, MergeIsColumns
<1> HIDE DEF new
<1>4. attempt' = [attempt EXCEPT ![w.row].is = new]
  BY DEF WriteAttempt, new
<1>5. /\ attempt'[w.row].is = new
      /\ attempt'[w.row].state = attempt[w.row].state
      /\ \A a \in Attempt : a # w.row => attempt'[a] = attempt[a]
  BY <1>1, <1>2, <1>4 DEF Typed, TypeOK
<1>6. /\ \A q \in Request : q # r => req'[q] = req[q]
      /\ req'[r] = IF Releases(w.prev, new)
                     THEN [pc |-> "Release", row |-> w.row] ELSE Idle
  BY DEF WriteAttempt, Typed, TypeOK, new
<1>7. /\ stale \subseteq stale'
      /\ w.row \notin stale' => attempt[w.row].is = w.prev
      /\ UNCHANGED <<result, released, ratified, bornComplete, lost>>
  BY DEF WriteAttempt, events
<1> QED BY <1>1, <1>2, <1>3, <1>5, <1>6, <1>7 DEF new

LEMMA WriteResultEffect ==
  ASSUME Typed, NEW r \in Request, WriteResult(r)
  PROVE  LET w == req[r]
             old == result[w.row].is
         IN  /\ w.row \in Result /\ w.prev \in ResultStatus
             /\ w.new \in ResultStatus /\ old \in ResultStatus
             /\ result[w.row].state # Missing
             /\ result'[w.row].is = w.new
             /\ \A m \in Result : m # w.row => result'[m] = result[m]
             /\ \A q \in Request : q # r => req'[q] = req[q]
             /\ req'[r] = IF Ratifies(w.prev, w.new)
                            THEN [pc |-> "Ratify", row |-> w.row] ELSE Idle
             /\ stale \subseteq stale'
             /\ w.row \notin stale' => old = w.prev
             /\ UNCHANGED <<attempt, released, ratified, bornComplete, lost>>
<1> DEFINE w == req[r]
<1>1. /\ w.row \in Result /\ w.prev \in ResultStatus
      /\ w.new \in ResultStatus /\ w.pc = "WriteResult"
  BY RequestShape DEF WriteResult, Typed, TypeOK, ResultRequest
<1>2. /\ result[w.row] \in [state : {"LIVE", "DELETED"}, is : ResultStatus]
      /\ result[w.row].state # Missing
  BY <1>1, RowShape DEF Typed, Exists, TypeOK
<1>3. result' = [result EXCEPT ![w.row].is = w.new]
  BY DEF WriteResult
<1>4. /\ result'[w.row].is = w.new
      /\ \A m \in Result : m # w.row => result'[m] = result[m]
  BY <1>1, <1>2, <1>3 DEF Typed, TypeOK
<1>5. /\ \A q \in Request : q # r => req'[q] = req[q]
      /\ req'[r] = IF Ratifies(w.prev, w.new)
                     THEN [pc |-> "Ratify", row |-> w.row] ELSE Idle
  BY DEF WriteResult, Typed, TypeOK
<1>6. /\ stale \subseteq stale'
      /\ w.row \notin stale' => result[w.row].is = w.prev
      /\ UNCHANGED <<attempt, released, ratified, bornComplete, lost>>
  BY DEF WriteResult, events
<1> QED BY <1>1, <1>2, <1>4, <1>5, <1>6

-----------------------------------------------------------------------------
(* Ratification                                                              *)

\* What the check of r found, and what has been opened or moved there since,
\* is all that is open at the registration it counted.
CountIsGood(r) == Open(attempt, home, req[r].at) \subseteq late[r]

Ratifiable ==
  \A r \in Request :
    (/\ req[r].pc = "WriteResult"
     /\ req[r].new = "CONFIRMED" /\ req[r].prev # "CONFIRMED")
    => CountIsGood(r)

(* A step that notes what it opens adds nothing else to the open attempts.   *)
LEMMA LateIsNoted ==
  ASSUME TypeOK, NotesLate, NEW r \in Request, req[r].pc = "WriteResult",
         req'[r] = req[r], CountIsGood(r)
  PROVE  CountIsGood(r)'
<1> DEFINE at == req[r].at
<1>1. Open(attempt', home', at) \subseteq Attempt
  BY DEF Open
<1>2. late'[r] =
        {a \in Attempt :
           \/ a \in late[r]
           \/ a \in Open(attempt', home', at) \ Open(attempt, home, at)}
  BY DEF NotesLate
<1>3. Open(attempt', home', at) \subseteq late'[r]
  BY <1>1, <1>2 DEF CountIsGood
<1> QED BY <1>3 DEF CountIsGood

(* A step that opens nothing leaves a good count good.                       *)
LEMMA NothingOpened ==
  ASSUME NEW r \in Request, CountIsGood(r), req'[r] = req[r],
         late'[r] = late[r],
         Open(attempt', home', req[r].at) \subseteq Open(attempt, home, req[r].at)
  PROVE  CountIsGood(r)'
  BY DEF CountIsGood

(* Only the columns and the registration of an attempt make it open.         *)
LEMMA SameOpen ==
  ASSUME NEW at, attempt' = attempt,
         \A a \in Attempt : home'[a] = home[a]
  PROVE  Open(attempt', home', at) \subseteq Open(attempt, home, at)
  BY DEF Open

LEMMA RatifiableInvariant == Spec => []Ratifiable
<1> DEFINE I == Ratifiable
<1>1. Init => I
  BY DEF Init, Ratifiable, Idle
<1>2. Typed /\ I /\ [Next]_vars => I'
  <2> SUFFICES ASSUME Typed, I, [Next]_vars PROVE I'
    OBVIOUS
  <2> USE DEF events, history
  <2>a. TypeOK
    BY DEF Typed
  <2>b. ASSUME UNCHANGED <<attempt, home>>,
               \A q \in Request :
                 \/ req'[q].pc # "WriteResult"
                 \/ /\ req'[q].pc = "WriteResult"
                    /\ ~(req'[q].new = "CONFIRMED" /\ req'[q].prev # "CONFIRMED")
                 \/ req'[q] = req[q] /\ late'[q] = late[q]
        PROVE  I'
    BY <2>b, SameOpen, NothingOpened DEF Ratifiable
  <2>1. CASE Marking
    <3>1. ASSUME NEW a \in Attempt, NEW c \in Columns, Creates(a, c) PROVE I'
      BY <2>a, <3>1, LateIsNoted DEF Creates, Ratifiable
    <3>2. ASSUME NEW r \in Request, NEW a \in Attempt, NEW c \in Columns,
                 NEW t \in Destination, Reads(r, a, c, t)
          PROVE  I'
      BY <2>a, <2>b, <3>2 DEF Reads, TypeOK
    <3>3. ASSUME NEW r \in Request, WriteAttempt(r) PROVE I'
      <4>1. /\ req'[r].pc # "WriteResult"
            /\ \A q \in Request : q # r => req'[q] = req[q]
        BY <2>a, <3>3 DEF WriteAttempt, TypeOK, Idle
      <4>2. NotesLate
        BY <3>3 DEF WriteAttempt
      <4> QED BY <2>a, <4>1, <4>2, LateIsNoted DEF Ratifiable
    <3>4. ASSUME NEW r \in Request, Release(r) PROVE I'
      BY <2>a, <2>b, <3>4 DEF Release, TypeOK, Idle
    <3>5. ASSUME NEW a \in Attempt, RemoveAttempt(a) PROVE I'
      <4>1. attempt[a] \in [state : {"LIVE", "DELETED"}, is : Columns]
        BY <2>a, <3>5, RowShape DEF RemoveAttempt, TypeOK, Missing
      <4>2. attempt'[a].state = "DELETED"
        BY <2>a, <3>5, <4>1 DEF RemoveAttempt, TypeOK
      <4>3. \A r \in Request : Open(attempt', home', req[r].at)
                                \subseteq Open(attempt, home, req[r].at)
        BY <2>a, <3>5, <4>2 DEF RemoveAttempt, TypeOK, Open
      <4> QED BY <3>5, <4>3, NothingOpened DEF RemoveAttempt, Ratifiable
    <3> QED BY <2>a, <2>1, <3>1, <3>2, <3>3, <3>4, <3>5, MarkingSteps
         DEF MarkingStep
  <2>2. CASE Ratification
    <3>1. ASSUME NEW m \in Result, RemoveResult(m) PROVE I'
      BY <2>b, <3>1 DEF RemoveResult
    <3>2. ASSUME NEW m \in Result, NEW s \in ResultBodies, CreateResult(m, s)
          PROVE  I'
      BY <2>b, <3>2 DEF CreateResult
    <3>3. ASSUME NEW r \in Request, NEW m \in Result, NEW s \in ResultBodies,
                 NEW t \in Destination, PatchResult(r, m, s, t)
          PROVE  I'
      <4>1. /\ \A q \in Request : q # r => req'[q] = req[q]
            /\ \/ req'[r].pc = "CountOpen"
               \/ ~(req'[r].new = "CONFIRMED" /\ req'[r].prev # "CONFIRMED")
            /\ req'[r].pc \in {"CountOpen", "WriteResult"}
            /\ UNCHANGED <<attempt, home, late>>
        BY <2>a, <3>3 DEF PatchResult, GuardedMove, TypeOK
      <4> QED BY <2>b, <4>1
    <3>4. ASSUME NEW r \in Request, CountOpen(r) PROVE I'
      <4>1. req[r] \in ResultRequest
        BY <2>a, <3>4, RequestShape DEF CountOpen, TypeOK
      <4>2. [req[r] EXCEPT !.pc = "WriteResult"].at = req[r].at
        BY <4>1 DEF ResultRequest
      <4>3. /\ \A q \in Request : q # r => req'[q] = req[q] /\ late'[q] = late[q]
            /\ UNCHANGED <<attempt, home>>
            /\ req'[r].pc = "WriteResult" =>
                 /\ req'[r].at = req[r].at
                 /\ Open(attempt, home, req[r].at) = {}
        BY <2>a, <3>4, <4>2 DEF CountOpen, Counted, TypeOK, Idle
      <4>4. req'[r].pc = "WriteResult" => CountIsGood(r)'
        BY <4>3 DEF CountIsGood
      <4>5. \A q \in Request : q # r /\ CountIsGood(q) => CountIsGood(q)'
        BY <4>3, SameOpen, NothingOpened
      <4> QED BY <4>3, <4>4, <4>5 DEF Ratifiable
    <3>5. ASSUME NEW r \in Request, WriteResult(r) PROVE I'
      <4>1. /\ req'[r].pc # "WriteResult"
            /\ \A q \in Request : q # r => req'[q] = req[q]
            /\ attempt' = attempt
        BY <2>a, <3>5 DEF WriteResult, TypeOK, Idle
      <4>2. \A q \in Request : q # r => late'[q] = late[q]
        BY <2>a, <3>5 DEF WriteResult, TypeOK
      <4>3. req[r].row \in Result
        BY <2>a, <3>5, RequestShape DEF WriteResult, TypeOK, ResultRequest
      <4>4. \A a \in Attempt : home'[a] = home[a]
        BY <2>a, <3>5, <4>3, RowsAssumption DEF WriteResult, TypeOK
      <4>5. \A q \in Request : q # r /\ CountIsGood(q) => CountIsGood(q)'
        BY <4>1, <4>2, <4>4, SameOpen, NothingOpened
      <4> QED BY <4>1, <4>5 DEF Ratifiable
    <3>6. ASSUME NEW r \in Request, Ratify(r) PROVE I'
      BY <2>a, <2>b, <3>6 DEF Ratify, TypeOK, Idle
    <3> QED BY <2>2, <3>1, <3>2, <3>3, <3>4, <3>5, <3>6
         DEF Ratification, Destination
  <2>3. ASSUME NEW r \in Request, AbortRequest(r) PROVE I'
    BY <2>a, <2>b, <2>3 DEF AbortRequest, TypeOK, Idle
  <2>4. CASE UNCHANGED vars
    BY <2>b, <2>4 DEF vars
  <2> QED BY <2>1, <2>2, <2>3, <2>4 DEF Next
<1> QED BY <1>1, <1>2, TypedInvariant, PTL DEF Spec

(* Between the count of the open attempts and the write nobody holds the     *)
(* attempts (module-results.service.ts:127-134), but what the count saw is   *)
(* all that it can have missed, as long as the result still belongs to the   *)
(* registration that was counted when it is written.                         *)
THEOREM RatificationSafe == Spec => []RatifiedHadNoOpenAttempt
<1>1. Ratifiable => RatifiedHadNoOpenAttempt
  <2> SUFFICES ASSUME Ratifiable, NEW r \in Request,
                      req[r].pc = "WriteResult",
                      req[r].new = "CONFIRMED", req[r].prev # "CONFIRMED",
                      Lands(req[r].to, home[req[r].row]) = req[r].at
               PROVE  Open(attempt, home, Lands(req[r].to, home[req[r].row]))
                        \subseteq late[r]
    BY DEF RatifiedHadNoOpenAttempt
  <2> QED BY DEF Ratifiable, CountIsGood
<1> QED BY <1>1, RatifiableInvariant, PTL

-----------------------------------------------------------------------------
(* Release                                                                   *)

(* A request may hold an older version of a row, but a mark or a grade that  *)
(* it has seen is still there: no body takes one away.                       *)
ReadsOld ==
  \A r \in Request : req[r].pc = "WriteAttempt" =>
    /\ req[r].prev.mark => attempt[req[r].row].is.mark
    /\ req[r].prev.grade => attempt[req[r].row].is.grade

ReleaseInv == ReadsOld /\ CompletedIsReleased

(* A step that leaves the attempts and everybody else's requests alone.      *)
LEMMA ElsewhereReleases ==
  ASSUME Typed, ReleaseInv,
         UNCHANGED <<attempt, released, bornComplete, lost>>,
         \A q \in Request : \/ req'[q] = req[q]
                            \/ /\ req[q].pc \notin {"WriteAttempt", "Release"}
                               /\ req'[q].pc \notin {"WriteAttempt", "Release"}
  PROVE  ReleaseInv'
  BY DEF ReleaseInv, ReadsOld, CompletedIsReleased

LEMMA RatificationElsewhere ==
  ASSUME Typed, Ratification
  PROVE  /\ UNCHANGED <<attempt, released, bornComplete, lost>>
         /\ \A q \in Request : \/ req'[q] = req[q]
                                \/ /\ req[q].pc \notin {"WriteAttempt", "Release"}
                                   /\ req'[q].pc \notin {"WriteAttempt", "Release"}
<1> USE DEF events, history
<1>1. UNCHANGED <<attempt, released, bornComplete, lost>>
  BY DEF Ratification, CreateResult, PatchResult, CountOpen, WriteResult,
     Ratify, RemoveResult
<1>2. CASE UNCHANGED req
  BY <1>1, <1>2
<1>3. ASSUME NEW r \in Request, NEW m \in Result, NEW s \in ResultBodies,
             NEW t \in Destination, PatchResult(r, m, s, t)
      PROVE  \A q \in Request :
               \/ req'[q] = req[q]
               \/ /\ req[q].pc \notin {"WriteAttempt", "Release"}
                  /\ req'[q].pc \notin {"WriteAttempt", "Release"}
  BY <1>3 DEF PatchResult, Typed, TypeOK
<1>4. ASSUME NEW r \in Request, CountOpen(r) \/ WriteResult(r) \/ Ratify(r)
      PROVE  \A q \in Request :
               \/ req'[q] = req[q]
               \/ /\ req[q].pc \notin {"WriteAttempt", "Release"}
                  /\ req'[q].pc \notin {"WriteAttempt", "Release"}
  <2>1. CASE CountOpen(r)
    <3>1. [req[r] EXCEPT !.pc = "WriteResult"].pc = "WriteResult"
      BY <2>1, RequestShape DEF CountOpen, Typed, TypeOK
    <3> QED BY <2>1, <3>1 DEF CountOpen, Typed, TypeOK, Idle
  <2>2. CASE WriteResult(r)
    BY <2>2 DEF WriteResult, Typed, TypeOK, Idle
  <2>3. CASE Ratify(r)
    BY <2>3 DEF Ratify, Typed, TypeOK, Idle
  <2> QED BY <1>4, <2>1, <2>2, <2>3
<1> QED BY <1>1, <1>2, <1>3, <1>4
     DEF Ratification, CreateResult, RemoveResult, Destination

(* Whichever of two requests brings the second half of a mark sees that it   *)
(* was incomplete when it read it, for the row only ever gains columns.      *)
LEMMA MarkingReleases == Typed /\ ReleaseInv /\ Marking => ReleaseInv'
<1> SUFFICES ASSUME Typed, ReleaseInv, Marking PROVE ReleaseInv'
  OBVIOUS
<1> USE DEF events, history
<1>a. TypeOK
  BY DEF Typed
<1>1. ASSUME NEW a \in Attempt, NEW c \in Columns, Creates(a, c)
      PROVE  ReleaseInv'
  <2>1. /\ attempt'[a].is = c
        /\ \A b \in Attempt : b # a => attempt'[b] = attempt[b]
    BY <1>a, <1>1 DEF Creates, TypeOK
  <2>2. \A r \in Request : req[r].pc = "WriteAttempt" =>
                            req[r].row \in Attempt /\ req[r].row # a
    BY <1>a, <1>1, RequestShape DEF Creates, Typed, Exists, TypeOK
  <2>3. ReadsOld'
    BY <1>1, <2>1, <2>2 DEF Creates, ReleaseInv, ReadsOld
  <2>4. CompletedIsReleased'
    BY <1>1, <2>1 DEF Creates, ReleaseInv, CompletedIsReleased
  <2> QED BY <2>3, <2>4 DEF ReleaseInv
<1>2. ASSUME NEW r \in Request, NEW a \in Attempt, NEW c \in Columns,
             NEW t \in Destination, Reads(r, a, c, t)
      PROVE  ReleaseInv'
  <2>1. /\ req'[r] = [pc |-> "WriteAttempt", row |-> a,
                      prev |-> attempt[a].is, to |-> t, body |-> c]
        /\ \A q \in Request : q # r => req'[q] = req[q]
        /\ UNCHANGED <<attempt, released, bornComplete, lost>>
        /\ req[r].pc = "Idle"
    BY <1>a, <1>2 DEF Reads, TypeOK
  <2>2. ReadsOld'
    BY <2>1 DEF ReleaseInv, ReadsOld
  <2>3. CompletedIsReleased'
    BY <2>1 DEF ReleaseInv, CompletedIsReleased
  <2> QED BY <2>2, <2>3 DEF ReleaseInv
<1>3. ASSUME NEW r \in Request, WriteAttempt(r) PROVE ReleaseInv'
  <2> DEFINE w == req[r]
             old == attempt[w.row].is
             new == Merge(old, w.body)
  <2>1. /\ w.pc = "WriteAttempt" /\ w.row \in Attempt
        /\ w.prev \in Columns /\ old \in Columns /\ new \in Columns
        /\ attempt[w.row].state # Missing
        /\ attempt'[w.row].is = new
        /\ \A a \in Attempt : a # w.row => attempt'[a] = attempt[a]
        /\ \A q \in Request : q # r => req'[q] = req[q]
        /\ req'[r] = IF Releases(w.prev, new)
                       THEN [pc |-> "Release", row |-> w.row] ELSE Idle
        /\ UNCHANGED <<released, bornComplete, lost>>
    BY <1>3, WriteAttemptEffect DEF WriteAttempt
  <2>2. (old.mark => new.mark) /\ (old.grade => new.grade)
    BY DEF Merge
  <2>3. (w.prev.mark => old.mark) /\ (w.prev.grade => old.grade)
    BY <2>1 DEF ReleaseInv, ReadsOld
  <2> HIDE DEF new, old, w
  <2>4. ReadsOld'
    <3> SUFFICES ASSUME NEW q \in Request, req'[q].pc = "WriteAttempt"
                 PROVE  /\ req'[q].prev.mark => attempt'[req'[q].row].is.mark
                        /\ req'[q].prev.grade => attempt'[req'[q].row].is.grade
      BY DEF ReadsOld
    <3>1. q # r
      BY <2>1 DEF Idle
    <3>2. req'[q] = req[q] /\ req[q].row \in Attempt
      BY <1>a, <2>1, <3>1, RequestShape DEF TypeOK
    <3>3. /\ req[q].prev.mark => attempt[req[q].row].is.mark
          /\ req[q].prev.grade => attempt[req[q].row].is.grade
      BY <3>2 DEF ReleaseInv, ReadsOld
    <3> QED BY <2>1, <2>2, <3>2, <3>3 DEF old
  <2>5. CompletedIsReleased'
    <3> SUFFICES ASSUME NEW a \in Attempt, a \notin bornComplete' \cup lost',
                        attempt'[a].state # Missing, Complete(attempt'[a].is)
                 PROVE  \/ released'[a] > 0
                        \/ \E q \in Request :
                              req'[q] = [pc |-> "Release", row |-> a]
      BY DEF CompletedIsReleased
    <3>1. CASE a # w.row
      <4>1. attempt'[a] = attempt[a]
        BY <2>1, <3>1
      <4>2. \/ released[a] > 0
            \/ \E q \in Request : req[q] = [pc |-> "Release", row |-> a]
        BY <2>1, <4>1 DEF ReleaseInv, CompletedIsReleased
      <4> QED BY <2>1, <4>2 DEF w
    <3>2. CASE a = w.row /\ Complete(old)
      <4>1. \/ released[a] > 0
            \/ \E q \in Request : req[q] = [pc |-> "Release", row |-> a]
        BY <2>1, <3>2 DEF ReleaseInv, CompletedIsReleased, old
      <4> QED BY <2>1, <4>1 DEF w
    <3>3. CASE a = w.row /\ ~Complete(old)
      <4>1. Releases(w.prev, new)
        BY <2>1, <2>3, <3>3 DEF Releases, Complete
      <4> QED BY <2>1, <3>3, <4>1
    <3> QED BY <3>1, <3>2, <3>3
  <2> QED BY <2>4, <2>5 DEF ReleaseInv
<1>4. ASSUME NEW r \in Request, Release(r) PROVE ReleaseInv'
  <2>1. req[r] \in [pc : {"Release"}, row : Attempt]
    BY <1>a, <1>4, RequestShape DEF Release, TypeOK
  <2>2. /\ req'[r] = Idle
        /\ \A q \in Request : q # r => req'[q] = req[q]
        /\ released'[req[r].row] > 0
        /\ \A a \in Attempt : a # req[r].row => released'[a] = released[a]
        /\ UNCHANGED <<attempt, bornComplete, lost>>
    BY <1>a, <1>4, <2>1 DEF Release, OneMore, TypeOK
  <2>3. ReadsOld'
    BY <2>2 DEF ReleaseInv, ReadsOld, Idle
  <2>4. CompletedIsReleased'
    BY <2>2 DEF ReleaseInv, CompletedIsReleased
  <2> QED BY <2>3, <2>4 DEF ReleaseInv
<1>5. ASSUME NEW a \in Attempt, RemoveAttempt(a) PROVE ReleaseInv'
  <2>1. attempt[a] \in [state : {"LIVE", "DELETED"}, is : Columns]
    BY <1>a, <1>5, RowShape DEF RemoveAttempt, TypeOK, Missing
  <2>2. /\ attempt[a].state # Missing
        /\ attempt'[a].is = attempt[a].is
        /\ \A b \in Attempt : b # a => attempt'[b] = attempt[b]
        /\ UNCHANGED <<req, released, bornComplete, lost>>
    BY <1>a, <1>5, <2>1 DEF RemoveAttempt, TypeOK, Missing
  <2>3. ReadsOld'
    <3>1. \A r \in Request : req[r].pc = "WriteAttempt" => req[r].row \in Attempt
      BY <1>a, RequestShape DEF TypeOK
    <3> QED BY <2>2, <3>1 DEF ReleaseInv, ReadsOld
  <2>4. CompletedIsReleased'
    BY <2>2 DEF ReleaseInv, CompletedIsReleased
  <2> QED BY <2>3, <2>4 DEF ReleaseInv
<1> QED BY <1>a, <1>1, <1>2, <1>3, <1>4, <1>5, MarkingSteps DEF MarkingStep

(* A request that ends loses the release that it owed, and nothing else.     *)
LEMMA AbortReleases ==
  ASSUME Typed, ReleaseInv, NEW r \in Request, AbortRequest(r)
  PROVE  ReleaseInv'
<1>1. /\ req'[r] = Idle
      /\ \A q \in Request : q # r => req'[q] = req[q]
      /\ UNCHANGED <<attempt, released, bornComplete>>
      /\ lost' = lost \cup {a \in Attempt :
                             req[r] = [pc |-> "Release", row |-> a]}
  BY DEF AbortRequest, Typed, TypeOK, events
<1>2. ReadsOld'
  BY <1>1 DEF ReleaseInv, ReadsOld, Idle
<1>3. CompletedIsReleased'
  BY <1>1 DEF ReleaseInv, CompletedIsReleased
<1> QED BY <1>2, <1>3 DEF ReleaseInv

(* A mark that PATCHes complete is announced, however many of them race,     *)
(* unless the request that owes the announcement ends before it              *)
(* (marks.service.ts:178-227).  That the columns of a row only ever fill up  *)
(* is what the comparison of the service rests on.                           *)
THEOREM Completion == Spec => []CompletedIsReleased
<1>1. Init => ReleaseInv
  BY DEF Init, ReleaseInv, ReadsOld, CompletedIsReleased, Idle
<1>2. Typed /\ ReleaseInv /\ [Next]_vars => ReleaseInv'
  <2>1. Typed /\ ReleaseInv /\ Ratification => ReleaseInv'
    BY ElsewhereReleases, RatificationElsewhere
  <2>2. ReleaseInv /\ UNCHANGED vars => ReleaseInv'
    BY DEF vars, events, history, ReleaseInv, ReadsOld, CompletedIsReleased
  <2> QED BY <2>1, <2>2, MarkingReleases, AbortReleases DEF Next
<1>3. ReleaseInv => CompletedIsReleased
  BY DEF ReleaseInv
<1> QED BY <1>1, <1>2, <1>3, TypedInvariant, PTL DEF Spec

-----------------------------------------------------------------------------
(* Moves along the graphs                                                    *)

(* What a request is about to write has passed the transition check, against *)
(* the version of the row that it read.                                      *)
Passed ==
  \A r \in Request :
    /\ req[r].pc = "WriteAttempt" =>
         ValidAttemptMove(req[r].prev.status, req[r].body.status)
    /\ req[r].pc \in {"CountOpen", "WriteResult"} =>
         ValidResultMove(req[r].prev, req[r].new)

LEMMA PassedInvariant == Spec => []Passed
<1>1. Init => Passed
  BY DEF Init, Passed, Idle
<1>2. Typed /\ Passed /\ [Next]_vars => Passed'
  <2> SUFFICES ASSUME Typed, Passed, [Next]_vars PROVE Passed'
    OBVIOUS
  <2> USE DEF events, history
  <2>a. TypeOK
    BY DEF Typed
  <2>1. CASE UNCHANGED req
    BY <2>1 DEF Passed
  <2>2. ASSUME NEW r \in Request, NEW a \in Attempt, NEW c \in Columns,
               NEW t \in Destination, Reads(r, a, c, t)
        PROVE  Passed'
    BY <2>a, <2>2 DEF Reads, Passed, TypeOK, Idle
  <2>3. ASSUME NEW r \in Request, NEW m \in Result, NEW s \in ResultBodies,
               NEW t \in Destination, PatchResult(r, m, s, t)
        PROVE  Passed'
    BY <2>a, <2>3 DEF PatchResult, Passed, TypeOK
  <2>4. ASSUME NEW r \in Request, CountOpen(r) PROVE Passed'
    <3>1. req[r] \in ResultRequest
      BY <2>a, <2>4, RequestShape DEF CountOpen, TypeOK
    <3>2. /\ \A q \in Request : q # r => req'[q] = req[q]
          /\ \/ req'[r] = Idle
             \/ req'[r] = [req[r] EXCEPT !.pc = "WriteResult"]
      BY <2>a, <2>4 DEF CountOpen, TypeOK
    <3>3. \/ req'[r].pc = "Idle"
          \/ /\ req'[r].pc = "WriteResult" /\ req[r].pc = "CountOpen"
             /\ req'[r].prev = req[r].prev /\ req'[r].new = req[r].new
      BY <2>4, <3>1, <3>2 DEF CountOpen, Idle, ResultRequest
    <3> QED BY <3>2, <3>3 DEF Passed
  <2>5. ASSUME NEW r \in Request,
               \/ WriteAttempt(r) \/ Release(r) \/ WriteResult(r)
               \/ Ratify(r) \/ AbortRequest(r)
        PROVE  Passed'
    <3>1. /\ \A q \in Request : q # r => req'[q] = req[q]
          /\ req'[r].pc \in {"Idle", "Release", "Ratify"}
      BY <2>a, <2>5 DEF WriteAttempt, Release, WriteResult, Ratify,
         AbortRequest, TypeOK, Idle
    <3> QED BY <3>1 DEF Passed
  <2>6. CASE Marking
    BY <2>a, <2>6, <2>1, <2>2, <2>5, MarkingSteps
       DEF MarkingStep, Creates, RemoveAttempt
  <2>7. CASE Ratification
    BY <2>7, <2>1, <2>3, <2>4, <2>5
       DEF Ratification, CreateResult, RemoveResult, Destination
  <2> QED BY <2>1, <2>5, <2>6, <2>7 DEF Next, vars
<1> QED BY <1>1, <1>2, TypedInvariant, PTL DEF Spec

FollowsGraph ==
  /\ \A a \in Attempt \ stale' :
       attempt[a].state # Missing =>
         attempt'[a].is.status \in {attempt[a].is.status}
           \cup AttemptTransitions[attempt[a].is.status]
  /\ \A m \in Result \ stale' :
       result[m].state # Missing =>
         result'[m].is \in {result[m].is} \cup ResultTransitions[result[m].is]

(* Only a write that overwrites what its request has not seen can leave the  *)
(* graphs: what was checked was the version read, and it is the version      *)
(* overwritten unless the row is stale (marks.service.ts:145-177).           *)
THEOREM Moves == Spec => MovesFollowGraph
<1>1. Typed /\ Passed /\ [Next]_vars => FollowsGraph
  <2> SUFFICES ASSUME Typed, Passed, [Next]_vars PROVE FollowsGraph
    OBVIOUS
  <2> USE DEF events, history
  <2>a. TypeOK
    BY DEF Typed
  <2>1. CASE UNCHANGED <<attempt, result>>
    BY <2>1 DEF FollowsGraph
  <2>2. ASSUME NEW a \in Attempt, NEW c \in Columns, Creates(a, c)
        PROVE  FollowsGraph
    BY <2>a, <2>2 DEF Creates, FollowsGraph, TypeOK
  <2>3. ASSUME NEW r \in Request, WriteAttempt(r) PROVE FollowsGraph
    <3> DEFINE w == req[r]
               old == attempt[w.row].is
    <3>1. /\ attempt'[w.row].is = Merge(old, w.body)
          /\ \A a \in Attempt : a # w.row => attempt'[a] = attempt[a]
          /\ w.row \notin stale' => old = w.prev
          /\ result' = result
      BY <2>3, WriteAttemptEffect
    <3>2. ValidAttemptMove(w.prev.status, w.body.status)
      BY <2>3 DEF WriteAttempt, Passed
    <3>3. Merge(old, w.body).status = w.body.status
      BY DEF Merge
    <3> QED BY <3>1, <3>2, <3>3 DEF FollowsGraph, ValidAttemptMove
  <2>4. ASSUME NEW a \in Attempt, RemoveAttempt(a) PROVE FollowsGraph
    <3>1. attempt[a] \in [state : {"LIVE", "DELETED"}, is : Columns]
      BY <2>a, <2>4, RowShape DEF RemoveAttempt, TypeOK, Missing
    <3>2. /\ attempt'[a].is = attempt[a].is
          /\ \A b \in Attempt : b # a => attempt'[b] = attempt[b]
      BY <2>a, <2>4, <3>1 DEF RemoveAttempt, TypeOK
    <3> QED BY <2>4, <3>2 DEF RemoveAttempt, FollowsGraph
  <2>5. ASSUME NEW m \in Result, NEW s \in ResultBodies, CreateResult(m, s)
        PROVE  FollowsGraph
    BY <2>a, <2>5 DEF CreateResult, FollowsGraph, TypeOK
  <2>6. ASSUME NEW r \in Request, WriteResult(r) PROVE FollowsGraph
    <3> DEFINE w == req[r]
    <3>1. /\ result'[w.row].is = w.new
          /\ \A m \in Result : m # w.row => result'[m] = result[m]
          /\ w.row \notin stale' => result[w.row].is = w.prev
          /\ attempt' = attempt
      BY <2>6, WriteResultEffect
    <3>2. ValidResultMove(w.prev, w.new)
      BY <2>6 DEF WriteResult, Passed
    <3> QED BY <3>1, <3>2 DEF FollowsGraph, ValidResultMove
  <2>7. ASSUME NEW m \in Result, RemoveResult(m) PROVE FollowsGraph
    <3>1. result[m] \in [state : {"LIVE", "DELETED"}, is : ResultStatus]
      BY <2>a, <2>7, RowShape DEF RemoveResult, TypeOK, Missing
    <3>2. /\ result'[m].is = result[m].is
          /\ \A b \in Result : b # m => result'[b] = result[b]
      BY <2>a, <2>7, <3>1 DEF RemoveResult, TypeOK
    <3> QED BY <2>7, <3>2 DEF RemoveResult, FollowsGraph
  <2>8. CASE Marking
    BY <2>a, <2>8, <2>1, <2>2, <2>3, <2>4, MarkingSteps
       DEF MarkingStep, Reads, Release
  <2>9. CASE Ratification
    BY <2>9, <2>1, <2>5, <2>6, <2>7
       DEF Ratification, PatchResult, CountOpen, Ratify
  <2>10. ASSUME NEW r \in Request, AbortRequest(r) PROVE FollowsGraph
    BY <2>1, <2>10 DEF AbortRequest
  <2> QED BY <2>1, <2>8, <2>9, <2>10 DEF Next, vars
<1>2. Typed /\ Passed /\ [Next]_vars => [FollowsGraph]_vars
  BY <1>1
<1> QED BY <1>2, TypedInvariant, PassedInvariant, PTL
     DEF Spec, MovesFollowGraph, FollowsGraph

-----------------------------------------------------------------------------
(* Marks and results implement Lifecycle                                     *)

\* The state of a row as Lifecycle knows it; that of a removed row is the one
\* it was removed in.
MarkStates(E) ==
  [a \in E |-> IF attempt[a].state = Missing THEN Missing
               ELSE attempt[a].is.status]
ResultStates(E) ==
  [m \in E |-> IF result[m].state = Missing THEN Missing ELSE result[m].is]

Marks(E) == INSTANCE Lifecycle WITH
              Entity <- E, Initial <- {b.status : b \in AttemptBodies},
              Graph <- AttemptTransitions, state <- MarkStates(E)
Results(E) == INSTANCE Lifecycle WITH
                Entity <- E, Initial <- ResultBodies,
                Graph <- ResultTransitions, state <- ResultStates(E)

(* A row that is there is not missing, and its status says so.               *)
LEMMA StatesOfRows ==
  ASSUME Typed
  PROVE  /\ \A a \in Attempt :
              attempt[a].state # Missing =>
                /\ attempt[a].is.status \in AttemptStatus
                /\ attempt[a].is.status # Missing
         /\ \A m \in Result :
              result[m].state # Missing =>
                result[m].is \in ResultStatus /\ result[m].is # Missing
<1>1. ASSUME NEW a \in Attempt, attempt[a].state # Missing
      PROVE  attempt[a] \in [state : {"LIVE", "DELETED"}, is : Columns]
  BY <1>1, RowShape DEF Typed, TypeOK
<1>2. ASSUME NEW m \in Result, result[m].state # Missing
      PROVE  result[m] \in [state : {"LIVE", "DELETED"}, is : ResultStatus]
  BY <1>2, RowShape DEF Typed, TypeOK
<1> QED
  BY <1>1, <1>2 DEF Columns, AttemptStatus, ResultStatus, Missing

(* One attempt at most is written, along the graph: a step of Lifecycle, or  *)
(* of none of the rows it is about.                                          *)
LEMMA OneMarkMoves ==
  ASSUME NEW E, E \subseteq Attempt, Typed, NEW a \in Attempt,
         \A b \in Attempt : b # a => attempt'[b] = attempt[b],
         attempt[a].state # Missing, attempt'[a].state # Missing,
         a \in E => attempt'[a].is.status \in {attempt[a].is.status}
                      \cup AttemptTransitions[attempt[a].is.status]
  PROVE  [Marks(E)!Next]_(MarkStates(E))
<1>1. \A b \in E : b # a => MarkStates(E)'[b] = MarkStates(E)[b]
  BY DEF MarkStates
<1>2. CASE a \notin E
  BY <1>1, <1>2 DEF MarkStates
<1>3. CASE a \in E
  <2> DEFINE new == attempt'[a].is.status
  <2>1. /\ MarkStates(E)[a] = attempt[a].is.status
        /\ MarkStates(E)'[a] = new
        /\ MarkStates(E)[a] # Missing
    BY <1>3, StatesOfRows DEF MarkStates
  <2>2. MarkStates(E)' = [MarkStates(E) EXCEPT ![a] = new]
    BY <1>1, <1>3, <2>1 DEF MarkStates
  <2>3. CASE new = attempt[a].is.status
    BY <1>1, <2>1, <2>3 DEF MarkStates
  <2>4. CASE new \in AttemptTransitions[attempt[a].is.status]
    <3>1. Marks(E)!Move(a)
      BY <2>1, <2>2, <2>4 DEF Marks!Move
    <3> QED
      BY <1>3, <3>1 DEF Marks!Next
  <2> QED
    BY <1>3, <2>3, <2>4
<1> QED
  BY <1>2, <1>3

LEMMA MarksStep ==
  ASSUME NEW E, E \subseteq Attempt, Typed, Passed, stale' \cap E = {},
         [Next]_vars
  PROVE  [Marks(E)!Next]_(MarkStates(E))
<1> USE DEF events, history
<1>0. TypeOK
  BY DEF Typed
<1>1. CASE UNCHANGED attempt
  BY <1>1 DEF MarkStates
<1>2. ASSUME NEW a \in Attempt, NEW b \in AttemptBodies, CreateAttempt(a, b)
      PROVE  [Marks(E)!Next]_(MarkStates(E))
  <2> DEFINE s == b.status
  <2>1. PICK c \in Filled(b) :
          attempt' = [attempt EXCEPT ![a] = [state |-> "LIVE", is |-> c]]
    BY <1>2 DEF CreateAttempt
  <2>2. /\ attempt[a].state = Missing
        /\ attempt'[a].state # Missing /\ attempt'[a].is.status = s
        /\ \A d \in Attempt : d # a => attempt'[d] = attempt[d]
    BY <1>0, <1>2, <2>1, FilledIsColumns DEF CreateAttempt, TypeOK, Missing
  <2>3. CASE a \notin E
    BY <2>2, <2>3 DEF MarkStates
  <2>4. CASE a \in E
    <3>1. /\ MarkStates(E)[a] = Missing
          /\ MarkStates(E)' = [MarkStates(E) EXCEPT ![a] = s]
      BY <2>2, <2>4 DEF MarkStates
    <3>2. Marks(E)!Create(a)
      BY <3>1 DEF Marks!Create
    <3> QED
      BY <2>4, <3>2 DEF Marks!Next
  <2> QED
    BY <2>3, <2>4
<1>3. ASSUME NEW r \in Request, WriteAttempt(r)
      PROVE  [Marks(E)!Next]_(MarkStates(E))
  <2> DEFINE w == req[r]
             old == attempt[w.row].is
  <2>1. /\ w.row \in Attempt
        /\ attempt[w.row].state # Missing
        /\ attempt'[w.row].state # Missing
        /\ attempt'[w.row].is = Merge(old, w.body)
        /\ \A b \in Attempt : b # w.row => attempt'[b] = attempt[b]
        /\ w.row \notin stale' => old = w.prev
    BY <1>3, WriteAttemptEffect
  <2>2. ValidAttemptMove(w.prev.status, w.body.status)
    BY <1>3 DEF WriteAttempt, Passed
  <2>3. attempt'[w.row].is.status = w.body.status
    BY <2>1 DEF Merge
  <2>4. w.row \in E =>
          attempt'[w.row].is.status \in {old.status}
            \cup AttemptTransitions[old.status]
    BY <2>1, <2>2, <2>3 DEF ValidAttemptMove
  <2> QED
    BY <2>1, <2>4, OneMarkMoves
<1>4. ASSUME NEW a \in Attempt, RemoveAttempt(a)
      PROVE  [Marks(E)!Next]_(MarkStates(E))
  <2>1. attempt[a] \in [state : {"LIVE", "DELETED"}, is : Columns]
    BY <1>0, <1>4, RowShape DEF RemoveAttempt, TypeOK, Missing
  <2>2. /\ attempt[a].state # Missing /\ attempt'[a].state # Missing
        /\ attempt'[a].is = attempt[a].is
        /\ \A b \in Attempt : b # a => attempt'[b] = attempt[b]
    BY <1>0, <1>4, <2>1 DEF RemoveAttempt, TypeOK, Missing
  <2> QED
    BY <2>2, OneMarkMoves
<1>5. CASE Marking
  BY <1>1, <1>2, <1>3, <1>4, <1>5 DEF Marking, PatchAttempt, Release
<1>6. CASE Ratification
  BY <1>1, <1>6 DEF Ratification, CreateResult, PatchResult, CountOpen,
                    WriteResult, Ratify, RemoveResult
<1> QED
  BY <1>1, <1>5, <1>6 DEF Next, vars, AbortRequest

(* The marks whose writers had all seen the version they overwrite are born   *)
(* with a status of a body and move one at a time along                       *)
(* VALID_ATTEMPT_TRANSITIONS, whatever happens to the other rows meanwhile    *)
(* (marks.service.ts:145-177).                                                *)
THEOREM MarksImplementLifecycle ==
  ASSUME NEW CONSTANT E, E \subseteq Attempt
  PROVE  Spec /\ [](stale \cap E = {}) => Marks(E)!Spec
<1>1. Init => Marks(E)!Init
  BY DEF Init, Marks!Init, MarkStates, Missing
<1>2. Typed /\ Passed /\ (stale \cap E = {})' /\ [Next]_vars
        => [Marks(E)!Next]_(MarkStates(E))
  BY MarksStep
<1> QED
  BY <1>1, <1>2, TypedInvariant, PassedInvariant, PTL DEF Spec, Marks!Spec

LEMMA OneResultMoves ==
  ASSUME NEW E, E \subseteq Result, Typed, NEW m \in Result,
         \A b \in Result : b # m => result'[b] = result[b],
         result[m].state # Missing, result'[m].state # Missing,
         m \in E => result'[m].is \in {result[m].is}
                      \cup ResultTransitions[result[m].is]
  PROVE  [Results(E)!Next]_(ResultStates(E))
<1>1. \A b \in E : b # m => ResultStates(E)'[b] = ResultStates(E)[b]
  BY DEF ResultStates
<1>2. CASE m \notin E
  BY <1>1, <1>2 DEF ResultStates
<1>3. CASE m \in E
  <2> DEFINE new == result'[m].is
  <2>1. /\ ResultStates(E)[m] = result[m].is
        /\ ResultStates(E)'[m] = new
        /\ ResultStates(E)[m] # Missing
    BY <1>3, StatesOfRows DEF ResultStates
  <2>2. ResultStates(E)' = [ResultStates(E) EXCEPT ![m] = new]
    BY <1>1, <1>3, <2>1 DEF ResultStates
  <2>3. CASE new = result[m].is
    BY <1>1, <2>1, <2>3 DEF ResultStates
  <2>4. CASE new \in ResultTransitions[result[m].is]
    <3>1. Results(E)!Move(m)
      BY <2>1, <2>2, <2>4 DEF Results!Move
    <3> QED
      BY <1>3, <3>1 DEF Results!Next
  <2> QED
    BY <1>3, <2>3, <2>4
<1> QED
  BY <1>2, <1>3

LEMMA ResultsStep ==
  ASSUME NEW E, E \subseteq Result, Typed, Passed, stale' \cap E = {},
         [Next]_vars
  PROVE  [Results(E)!Next]_(ResultStates(E))
<1> USE DEF events, history
<1>0. TypeOK
  BY DEF Typed
<1>1. CASE UNCHANGED result
  BY <1>1 DEF ResultStates
<1>2. ASSUME NEW m \in Result, NEW s \in ResultBodies, CreateResult(m, s)
      PROVE  [Results(E)!Next]_(ResultStates(E))
  <2>1. /\ result[m].state = Missing
        /\ result'[m].state # Missing /\ result'[m].is = s
        /\ \A b \in Result : b # m => result'[b] = result[b]
    BY <1>0, <1>2 DEF CreateResult, TypeOK, Missing
  <2>2. CASE m \notin E
    BY <2>1, <2>2 DEF ResultStates
  <2>3. CASE m \in E
    <3>1. /\ ResultStates(E)[m] = Missing
          /\ ResultStates(E)' = [ResultStates(E) EXCEPT ![m] = s]
      BY <2>1, <2>3 DEF ResultStates
    <3>2. Results(E)!Create(m)
      BY <3>1 DEF Results!Create
    <3> QED
      BY <2>3, <3>2 DEF Results!Next
  <2> QED
    BY <2>2, <2>3
<1>3. ASSUME NEW r \in Request, WriteResult(r)
      PROVE  [Results(E)!Next]_(ResultStates(E))
  <2> DEFINE w == req[r]
  <2>1. /\ w.row \in Result /\ result[w.row].state # Missing
        /\ result'[w.row].is = w.new
        /\ \A b \in Result : b # w.row => result'[b] = result[b]
        /\ w.row \notin stale' => result[w.row].is = w.prev
    BY <1>3, WriteResultEffect
  <2>2. result'[w.row].state # Missing
    <3>1. result[w.row] \in [state : {"LIVE", "DELETED"}, is : ResultStatus]
      BY <1>0, <2>1, RowShape DEF TypeOK
    <3> QED
      BY <1>0, <1>3, <2>1, <3>1 DEF WriteResult, TypeOK, Missing
  <2>3. ValidResultMove(w.prev, w.new)
    BY <1>3 DEF WriteResult, Passed
  <2>4. w.row \in E =>
          result'[w.row].is \in {result[w.row].is}
            \cup ResultTransitions[result[w.row].is]
    BY <2>1, <2>3 DEF ValidResultMove
  <2> QED
    BY <2>1, <2>2, <2>4, OneResultMoves
<1>4. ASSUME NEW m \in Result, RemoveResult(m)
      PROVE  [Results(E)!Next]_(ResultStates(E))
  <2>1. result[m] \in [state : {"LIVE", "DELETED"}, is : ResultStatus]
    BY <1>0, <1>4, RowShape DEF RemoveResult, TypeOK, Missing
  <2>2. /\ result[m].state # Missing /\ result'[m].state # Missing
        /\ result'[m].is = result[m].is
        /\ \A b \in Result : b # m => result'[b] = result[b]
    BY <1>0, <1>4, <2>1 DEF RemoveResult, TypeOK, Missing
  <2> QED
    BY <2>2, OneResultMoves
<1>5. CASE Marking
  BY <1>1, <1>5 DEF Marking, CreateAttempt, PatchAttempt, WriteAttempt,
                    Release, RemoveAttempt
<1>6. CASE Ratification
  BY <1>1, <1>2, <1>3, <1>4, <1>6
     DEF Ratification, PatchResult, CountOpen, Ratify
<1> QED
  BY <1>1, <1>5, <1>6 DEF Next, vars, AbortRequest

(* The same for the results: those whose writers had all seen the version     *)
(* they overwrite follow the graph of a result from their first status on,    *)
(* and one that is CONFIRMED stays so (module-results.service.ts:116-178).    *)
THEOREM ResultsImplementLifecycle ==
  ASSUME NEW CONSTANT E, E \subseteq Result
  PROVE  Spec /\ [](stale \cap E = {}) => Results(E)!Spec
<1>1. Init => Results(E)!Init
  BY DEF Init, Results!Init, ResultStates, Missing
<1>2. Typed /\ Passed /\ (stale \cap E = {})' /\ [Next]_vars
        => [Results(E)!Next]_(ResultStates(E))
  BY ResultsStep
<1> QED
  BY <1>1, <1>2, TypedInvariant, PassedInvariant, PTL DEF Spec, Results!Spec

-----------------------------------------------------------------------------
(* Announcements                                                             *)

Releasing(r, a) == req[r] = [pc |-> "Release", row |-> a]
Ratifying(r, m) == req[r] = [pc |-> "Ratify", row |-> m]
Released(a) == released[a] > 0 \/ \E r \in Request : Releasing(r, a)
Ratified(m) == ratified[m] > 0 \/ \E r \in Request : Ratifying(r, m)

(* An attempt that is or is being announced is complete and stays so; if no  *)
(* stale write touched it, it has been announced once or one request is      *)
(* about to.                                                                 *)
AttemptOnce(a) ==
  /\ Released(a) => attempt[a].state # Missing /\ Complete(attempt[a].is)
  /\ a \notin stale =>
       /\ released[a] <= 1
       /\ \A r \in Request : Releasing(r, a) => released[a] = 0
       /\ \A q, r \in Request : Releasing(q, a) /\ Releasing(r, a) => q = r

(* Likewise for a result, which is then CONFIRMED for good.                  *)
ResultOnce(m) ==
  m \notin stale =>
    /\ Ratified(m) => result[m].state # Missing /\ result[m].is = "CONFIRMED"
    /\ ratified[m] <= 1
    /\ \A r \in Request : Ratifying(r, m) => ratified[m] = 0
    /\ \A q, r \in Request : Ratifying(q, m) /\ Ratifying(r, m) => q = r

AnnounceInv ==
  /\ \A a \in Attempt : AttemptOnce(a)
  /\ \A m \in Result : ResultOnce(m)

(* A row is as it was, and so are the requests that announce it.             *)
LEMMA AttemptAsBefore ==
  ASSUME NEW a \in Attempt, AttemptOnce(a),
         attempt'[a] = attempt[a]
           \/ /\ attempt[a].state # Missing => attempt'[a].state # Missing
              /\ attempt[a].state # Missing => attempt'[a].is = attempt[a].is,
         released'[a] = released[a], stale \subseteq stale',
         \A r \in Request : Releasing(r, a)' => Releasing(r, a)
  PROVE  AttemptOnce(a)'
<1>1. Released(a)' => Released(a)
  BY DEF Released
<1> QED BY <1>1 DEF AttemptOnce

LEMMA ResultAsBefore ==
  ASSUME NEW m \in Result, ResultOnce(m),
         result'[m] = result[m]
           \/ /\ result[m].state # Missing => result'[m].state # Missing
              /\ result[m].state # Missing => result'[m].is = result[m].is,
         ratified'[m] = ratified[m], stale \subseteq stale',
         \A r \in Request : Ratifying(r, m)' => Ratifying(r, m)
  PROVE  ResultOnce(m)'
<1>1. Ratified(m)' => Ratified(m)
  BY DEF Ratified
<1> QED BY <1>1 DEF ResultOnce

LEMMA MarkingAnnounces ==
  ASSUME Typed, AnnounceInv, Marking PROVE AnnounceInv'
<1> USE DEF events, history
<1>a. TypeOK
  BY DEF Typed
<1>b. stale \subseteq stale' /\ UNCHANGED <<result, ratified>>
  BY <1>a, MarkingSteps
     DEF MarkingStep, Creates, Reads, WriteAttempt, Release, RemoveAttempt
<1>c. ASSUME \A r \in Request, m \in Result : Ratifying(r, m)' => Ratifying(r, m)
      PROVE  \A m \in Result : ResultOnce(m)'
  BY <1>b, <1>c, ResultAsBefore DEF AnnounceInv
<1>d. ASSUME NEW a \in Attempt, released'[a] = released[a],
             attempt'[a] = attempt[a]
               \/ /\ attempt[a].state # Missing => attempt'[a].state # Missing
                  /\ attempt[a].state # Missing =>
                       attempt'[a].is = attempt[a].is,
             \A r \in Request : Releasing(r, a)' => Releasing(r, a)
      PROVE  AttemptOnce(a)'
  BY <1>b, <1>d, AttemptAsBefore DEF AnnounceInv
<1>1. ASSUME NEW a \in Attempt, NEW c \in Columns, Creates(a, c)
      PROVE  AnnounceInv'
  <2>1. /\ UNCHANGED <<req, released>> /\ attempt[a].state = Missing
        /\ \A b \in Attempt : b # a => attempt'[b] = attempt[b]
    BY <1>a, <1>1 DEF Creates, TypeOK
  <2>2. \A b \in Attempt : AttemptOnce(b)'
    BY <1>d, <2>1 DEF Releasing
  <2>3. \A m \in Result : ResultOnce(m)'
    BY <1>c, <2>1 DEF Ratifying
  <2> QED BY <2>2, <2>3 DEF AnnounceInv
<1>2. ASSUME NEW r \in Request, NEW a \in Attempt, NEW c \in Columns,
             NEW t \in Destination, Reads(r, a, c, t)
      PROVE  AnnounceInv'
  <2>1. /\ \A q \in Request : q # r => req'[q] = req[q]
        /\ req'[r].pc = "WriteAttempt"
        /\ UNCHANGED <<attempt, released>>
    BY <1>a, <1>2 DEF Reads, TypeOK
  <2>2. \A b \in Attempt : AttemptOnce(b)'
    <3>1. \A q \in Request, b \in Attempt : Releasing(q, b)' => Releasing(q, b)
      BY <2>1 DEF Releasing
    <3> QED BY <1>d, <2>1, <3>1
  <2>3. \A m \in Result : ResultOnce(m)'
    BY <1>c, <2>1 DEF Ratifying
  <2> QED BY <2>2, <2>3 DEF AnnounceInv
<1>3. ASSUME NEW r \in Request, WriteAttempt(r) PROVE AnnounceInv'
  <2> DEFINE w == req[r]
             old == attempt[w.row].is
             new == Merge(old, w.body)
  <2>w. PICK d \in Attempt : d = w.row
    BY <1>3, WriteAttemptEffect
  <2>1. /\ w.pc = "WriteAttempt" /\ d \in Attempt
        /\ w.prev \in Columns /\ old \in Columns /\ new \in Columns
        /\ attempt[d].state # Missing
        /\ attempt'[d].is = new
        /\ attempt'[d].state = attempt[d].state
        /\ \A a \in Attempt : a # d => attempt'[a] = attempt[a]
        /\ \A q \in Request : q # r => req'[q] = req[q]
        /\ req'[r] = IF Releases(w.prev, new)
                       THEN [pc |-> "Release", row |-> d] ELSE Idle
        /\ d \notin stale' => old = w.prev
        /\ released' = released
    BY <1>3, <2>w, WriteAttemptEffect DEF WriteAttempt
  <2>2. Complete(old) => Complete(new)
    BY DEF Merge, Complete
  <2>o. old = attempt[d].is
    BY <2>w
  <2> HIDE DEF new, old, w
  <2>3. \A m \in Result : ResultOnce(m)'
    <3>1. req'[r].pc # "Ratify"
      BY <2>1 DEF Idle
    <3> QED BY <1>c, <2>1, <3>1 DEF Ratifying
  <2>4. ASSUME NEW a \in Attempt, a # d PROVE AttemptOnce(a)'
    <3>1. \A q \in Request : Releasing(q, a)' => Releasing(q, a)
      BY <2>1, <2>4 DEF Releasing, Idle
    <3> QED BY <1>d, <2>1, <2>4, <3>1
  <2>5. AttemptOnce(d)'
    <3>1. AttemptOnce(d)
      BY <2>1 DEF AnnounceInv
    <3>2. CASE ~Releases(w.prev, new)
      <4>1. \A q \in Request : Releasing(q, d)' => Releasing(q, d)
        BY <2>1, <3>2 DEF Releasing, Idle
      <4>2. Released(d)' => Released(d)
        BY <2>1, <4>1 DEF Released
      <4> QED BY <1>b, <2>1, <2>2, <3>1, <4>1, <4>2, <2>o DEF AttemptOnce
    <3>3. CASE Releases(w.prev, new)
      <4>1. Complete(new) /\ ~Complete(w.prev)
        BY <3>3 DEF Releases
      <4>2. \A q \in Request :
              Releasing(q, d)' => q = r \/ Releasing(q, d)
        BY <2>1 DEF Releasing
      <4>3. d \notin stale' => ~Released(d)
        BY <2>1, <3>1, <4>1, <2>o DEF AttemptOnce
      <4>4. released[d] \in 0..2
        BY <1>a, <2>1 DEF TypeOK
      <4>5. d \notin stale' =>
              /\ released'[d] = 0
              /\ \A q \in Request : Releasing(q, d)' => q = r
        BY <2>1, <4>2, <4>3, <4>4 DEF Released
      <4> QED BY <2>1, <4>1, <4>5 DEF AttemptOnce
    <3> QED BY <3>2, <3>3
  <2> QED BY <2>3, <2>4, <2>5 DEF AnnounceInv
<1>4. ASSUME NEW r \in Request, Release(r) PROVE AnnounceInv'
  <2>1. req[r] \in [pc : {"Release"}, row : Attempt]
    BY <1>a, <1>4, RequestShape DEF Release, TypeOK
  <2>w. PICK d \in Attempt : d = req[r].row
    BY <2>1
  <2>2. /\ req'[r] = Idle
        /\ \A q \in Request : q # r => req'[q] = req[q]
        /\ released'[d] = OneMore(released[d])
        /\ \A a \in Attempt : a # d => released'[a] = released[a]
        /\ UNCHANGED <<attempt, stale>>
    BY <1>a, <1>4, <2>1, <2>w DEF Release, TypeOK
  <2>3. Releasing(r, d)
    BY <2>1, <2>w DEF Releasing
  <2>4. \A q \in Request, a \in Attempt :
          Releasing(q, a)' => q # r /\ Releasing(q, a)
    BY <2>2 DEF Releasing, Idle
  <2>5. \A a \in Attempt : a # d => AttemptOnce(a)'
    BY <1>d, <2>2, <2>4
  <2>6. AttemptOnce(d)'
    <3>1. AttemptOnce(d)
      BY <2>1 DEF AnnounceInv
    <3>2. Released(d)
      BY <2>3 DEF Released
    <3>3. OneMore(0) = 1
      BY DEF OneMore
    <3> QED BY <2>1, <2>2, <2>3, <2>4, <3>1, <3>2, <3>3 DEF AttemptOnce
  <2>7. \A m \in Result : ResultOnce(m)'
    BY <1>c, <2>2 DEF Ratifying, Idle
  <2> QED BY <2>5, <2>6, <2>7 DEF AnnounceInv
<1>5. ASSUME NEW a \in Attempt, RemoveAttempt(a) PROVE AnnounceInv'
  <2>1. attempt[a] \in [state : {"LIVE", "DELETED"}, is : Columns]
    BY <1>a, <1>5, RowShape DEF RemoveAttempt, TypeOK, Missing
  <2>2. /\ attempt'[a].is = attempt[a].is /\ attempt'[a].state # Missing
        /\ \A b \in Attempt : b # a => attempt'[b] = attempt[b]
        /\ UNCHANGED <<req, released>>
    BY <1>a, <1>5, <2>1 DEF RemoveAttempt, TypeOK, Missing
  <2>3. \A b \in Attempt : AttemptOnce(b)'
    BY <1>d, <2>2 DEF Releasing
  <2>4. \A m \in Result : ResultOnce(m)'
    BY <1>c, <2>2 DEF Ratifying
  <2> QED BY <2>3, <2>4 DEF AnnounceInv
<1> QED BY <1>a, <1>1, <1>2, <1>3, <1>4, <1>5, MarkingSteps DEF MarkingStep

LEMMA RatificationAnnounces ==
  ASSUME Typed, Passed, AnnounceInv, Ratification PROVE AnnounceInv'
<1> USE DEF events, history
<1>a. TypeOK
  BY DEF Typed
<1>b. stale \subseteq stale' /\ UNCHANGED <<attempt, released>>
  BY DEF Ratification, CreateResult, PatchResult, CountOpen, WriteResult,
     Ratify, RemoveResult
<1>c. \A a \in Attempt : AttemptOnce(a)'
  <2>1. \A r \in Request, a \in Attempt : Releasing(r, a)' => Releasing(r, a)
    BY RatificationElsewhere DEF Releasing
  <2> QED BY <1>b, <2>1, AttemptAsBefore DEF AnnounceInv
<1>d. ASSUME NEW m \in Result, ratified'[m] = ratified[m],
             result'[m] = result[m]
               \/ /\ result[m].state # Missing => result'[m].state # Missing
                  /\ result[m].state # Missing => result'[m].is = result[m].is,
             \A r \in Request : Ratifying(r, m)' => Ratifying(r, m)
      PROVE  ResultOnce(m)'
  BY <1>b, <1>d, ResultAsBefore DEF AnnounceInv
<1>1. ASSUME NEW m \in Result, NEW s \in ResultBodies, CreateResult(m, s)
      PROVE  \A n \in Result : ResultOnce(n)'
  <2>1. /\ UNCHANGED <<req, ratified>> /\ result[m].state = Missing
        /\ \A n \in Result : n # m => result'[n] = result[n]
    BY <1>a, <1>1 DEF CreateResult, TypeOK
  <2> QED BY <1>d, <2>1 DEF Ratifying
<1>2. ASSUME NEW r \in Request, UNCHANGED <<result, ratified>>,
             \A q \in Request : q # r => req'[q] = req[q],
             req'[r].pc \in {"Idle", "CountOpen", "WriteResult"}
      PROVE  \A n \in Result : ResultOnce(n)'
  <2>1. \A q \in Request, n \in Result : Ratifying(q, n)' => Ratifying(q, n)
    BY <1>2 DEF Ratifying
  <2> QED BY <1>d, <1>2, <2>1
<1>3. ASSUME NEW r \in Request, NEW m \in Result, NEW s \in ResultBodies,
             NEW t \in Destination, PatchResult(r, m, s, t)
      PROVE  \A n \in Result : ResultOnce(n)'
  BY <1>a, <1>2, <1>3 DEF PatchResult, TypeOK
<1>4. ASSUME NEW r \in Request, CountOpen(r)
      PROVE  \A n \in Result : ResultOnce(n)'
  <2>1. [req[r] EXCEPT !.pc = "WriteResult"].pc = "WriteResult"
    BY <1>a, <1>4, RequestShape DEF CountOpen, TypeOK
  <2> QED BY <1>a, <1>2, <1>4, <2>1 DEF CountOpen, TypeOK, Idle
<1>5. ASSUME NEW r \in Request, WriteResult(r)
      PROVE  \A n \in Result : ResultOnce(n)'
  <2> DEFINE w == req[r]
             old == result[w.row].is
  <2>w. PICK d \in Result : d = w.row
    BY <1>5, WriteResultEffect
  <2>1. /\ d \in Result /\ w.prev \in ResultStatus
        /\ w.new \in ResultStatus /\ old \in ResultStatus
        /\ result'[d].is = w.new
        /\ \A m \in Result : m # d => result'[m] = result[m]
        /\ \A q \in Request : q # r => req'[q] = req[q]
        /\ req'[r] = IF Ratifies(w.prev, w.new)
                       THEN [pc |-> "Ratify", row |-> d] ELSE Idle
        /\ d \notin stale' => old = w.prev
        /\ ratified' = ratified
    BY <1>5, <2>w, WriteResultEffect
  <2>2. w.pc = "WriteResult" /\ ValidResultMove(w.prev, w.new)
    BY <1>5 DEF WriteResult, Passed
  <2>3. result'[d].state # Missing
    <3>1. /\ result[d] \in [state : {"LIVE", "DELETED"}, is : ResultStatus]
      BY <2>1, <2>2, <2>w, RowShape DEF Typed, Exists, TypeOK
    <3> QED BY <1>5, <2>1, <2>w, <3>1 DEF WriteResult, Typed, TypeOK, Missing
  <2>4. ResultTransitions["CONFIRMED"] = {}
    BY DEF ResultTransitions, ResultStatus
  <2>o. old = result[d].is
    BY <2>w
  <2> HIDE DEF w, old
  <2>5. ASSUME NEW m \in Result, m # d PROVE ResultOnce(m)'
    <3>1. \A q \in Request : Ratifying(q, m)' => Ratifying(q, m)
      BY <2>1, <2>5 DEF Ratifying, Idle
    <3> QED BY <1>d, <2>1, <2>5, <3>1
  <2>6. ResultOnce(d)'
    <3> SUFFICES ASSUME d \notin stale' PROVE ResultOnce(d)'
      BY DEF ResultOnce
    <3>1. d \notin stale /\ ResultOnce(d) /\ old = w.prev
      BY <1>b, <2>1 DEF AnnounceInv
    <3>2. CASE ~Ratifies(w.prev, w.new)
      <4>1. \A q \in Request : Ratifying(q, d)' => Ratifying(q, d)
        BY <2>1, <3>2 DEF Ratifying, Idle
      <4>2. Ratified(d)' => Ratified(d)
        BY <2>1, <4>1 DEF Ratified
      <4>3. Ratified(d) => w.new = "CONFIRMED"
        BY <2>2, <2>4, <3>1, <2>o DEF ResultOnce, ValidResultMove
      <4> QED BY <2>1, <2>3, <3>1, <4>1, <4>2, <4>3 DEF ResultOnce
    <3>3. CASE Ratifies(w.prev, w.new)
      <4>1. w.prev = "PROVISIONAL" /\ w.new = "CONFIRMED"
        BY <3>3 DEF Ratifies
      <4>2. ~Ratified(d)
        BY <3>1, <4>1, <2>o DEF ResultOnce
      <4>3. ratified[d] \in 0..2
        BY <1>a, <2>1 DEF TypeOK
      <4>4. /\ ratified'[d] = 0
            /\ \A q \in Request : Ratifying(q, d)' => q = r
        <5>1. \A q \in Request :
                Ratifying(q, d)' => q = r \/ Ratifying(q, d)
          BY <2>1 DEF Ratifying
        <5> QED BY <2>1, <4>2, <4>3, <5>1 DEF Ratified
      <4> QED BY <2>1, <2>3, <4>1, <4>4 DEF ResultOnce
    <3> QED BY <3>2, <3>3
  <2> QED BY <2>5, <2>6
<1>6. ASSUME NEW r \in Request, Ratify(r)
      PROVE  \A n \in Result : ResultOnce(n)'
  <2>1. req[r] \in [pc : {"Ratify"}, row : Result]
    BY <1>a, <1>6, RequestShape DEF Ratify, TypeOK
  <2>w. PICK d \in Result : d = req[r].row
    BY <2>1
  <2>2. /\ req'[r] = Idle
        /\ \A q \in Request : q # r => req'[q] = req[q]
        /\ ratified'[d] = OneMore(ratified[d])
        /\ \A m \in Result : m # d => ratified'[m] = ratified[m]
        /\ UNCHANGED <<result, stale>>
    BY <1>a, <1>6, <2>1, <2>w DEF Ratify, TypeOK
  <2>3. Ratifying(r, d)
    BY <2>1, <2>w DEF Ratifying
  <2>4. \A q \in Request, m \in Result :
          Ratifying(q, m)' => q # r /\ Ratifying(q, m)
    BY <2>2 DEF Ratifying, Idle
  <2>5. \A m \in Result : m # d => ResultOnce(m)'
    BY <1>d, <2>2, <2>4
  <2>6. ResultOnce(d)'
    <3>1. ResultOnce(d)
      BY <2>1 DEF AnnounceInv
    <3>2. Ratified(d)
      BY <2>3 DEF Ratified
    <3>3. OneMore(0) = 1
      BY DEF OneMore
    <3> QED BY <2>1, <2>2, <2>3, <2>4, <3>1, <3>2, <3>3 DEF ResultOnce
  <2> QED BY <2>5, <2>6
<1>7. ASSUME NEW m \in Result, RemoveResult(m)
      PROVE  \A n \in Result : ResultOnce(n)'
  <2>1. result[m] \in [state : {"LIVE", "DELETED"}, is : ResultStatus]
    BY <1>a, <1>7, RowShape DEF RemoveResult, TypeOK, Missing
  <2>2. /\ result'[m].is = result[m].is /\ result'[m].state # Missing
        /\ \A n \in Result : n # m => result'[n] = result[n]
        /\ UNCHANGED <<req, ratified>>
    BY <1>a, <1>7, <2>1 DEF RemoveResult, TypeOK, Missing
  <2> QED BY <1>d, <2>2 DEF Ratifying
<1>8. \A n \in Result : ResultOnce(n)'
  BY <1>1, <1>3, <1>4, <1>5, <1>6, <1>7 DEF Ratification, Destination
<1> QED BY <1>c, <1>8 DEF AnnounceInv

LEMMA AbortAnnounces ==
  ASSUME Typed, AnnounceInv, NEW r \in Request, AbortRequest(r)
  PROVE  AnnounceInv'
<1>1. /\ req'[r] = Idle
      /\ \A q \in Request : q # r => req'[q] = req[q]
      /\ UNCHANGED <<attempt, result, released, ratified, stale>>
  BY DEF AbortRequest, Typed, TypeOK, events
<1>2. \A a \in Attempt : AttemptOnce(a)'
  <2>1. \A q \in Request, a \in Attempt : Releasing(q, a)' => Releasing(q, a)
    BY <1>1 DEF Releasing, Idle
  <2> QED BY <1>1, <2>1, AttemptAsBefore DEF AnnounceInv
<1>3. \A m \in Result : ResultOnce(m)'
  <2>1. \A q \in Request, m \in Result : Ratifying(q, m)' => Ratifying(q, m)
    BY <1>1 DEF Ratifying, Idle
  <2> QED BY <1>1, <2>1, ResultAsBefore DEF AnnounceInv
<1> QED BY <1>2, <1>3 DEF AnnounceInv

(* However many requests race, a row that no stale write touched is          *)
(* announced once: who announces it is who saw it change, and the version    *)
(* that request read is the version it overwrote.                            *)
THEOREM Announcements == Spec => []AnnouncedOnce
<1>1. Init => AnnounceInv
  BY DEF Init, AnnounceInv, AttemptOnce, ResultOnce, Released, Ratified,
     Releasing, Ratifying, Idle
<1>2. Typed /\ Passed /\ AnnounceInv /\ [Next]_vars => AnnounceInv'
  <2>1. AnnounceInv /\ UNCHANGED vars => AnnounceInv'
    BY DEF vars, events, history, AnnounceInv, AttemptOnce, ResultOnce,
       Released, Ratified, Releasing, Ratifying
  <2> QED BY <2>1, MarkingAnnounces, RatificationAnnounces, AbortAnnounces
       DEF Next
<1>3. AnnounceInv => AnnouncedOnce
  BY DEF AnnounceInv, AttemptOnce, ResultOnce, AnnouncedOnce
<1> QED BY <1>1, <1>2, <1>3, TypedInvariant, PassedInvariant, PTL DEF Spec
===============================================================================
