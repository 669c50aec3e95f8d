------------------------------- MODULE Records -------------------------------
(****************************************************************************)
(* The shape that the record services under src/server/src/api share: one   *)
(* row of one of the tables that Services describes, and the requests that  *)
(* create, update and remove it.  Each awaited call is a step of its own:   *)
(* getById, the write by id, the audit row (logAudit swallows its failure), *)
(* and the events.  Requests of several users overlap freely.               *)
(*                                                                          *)
(* trail and mirror are what two readers believe of the row: one replays    *)
(* the audit rows, the other the events.  overlapped, unaudited and         *)
(* unannounced remember what can make them wrong.                           *)
(****************************************************************************)
EXTENDS Naturals, Services

CONSTANTS Requests,      \* slots of requests served at the same time
          Tables,        \* the services of this instance
          MaxRequests    \* bound: requests after the one that creates the row

ASSUME RecordsAssumption ==
  /\ Tables \subseteq Service
  /\ MaxRequests \in Nat

\* The defaults, the bodies, the graph and the removal of a service speak of
\* the values of its column.
ASSUME TablesAssumption ==
  \A s \in Tables :
    /\ s.initial \in s.column /\ s.post \subseteq s.column
    /\ s.http \subseteq s.column /\ s.fill \in s.column \cup {Unset}
    /\ s.graph \in [s.column -> SUBSET s.column]
    /\ s.carries \subseteq {"create", "update"}
    /\ s.removal \in {"never", "stamp", "erase"} \cup s.column
    /\ Unset \notin s.column

VARIABLES svc,          \* the service (chosen once)
          caller,       \* "http", or "code" that calls the service directly
          row,          \* the row: where it is and the value of its column
          req,          \* [Requests -> what the request has read and done]
          trail,        \* the row, as the audit rows tell it
          mirror,       \* the row, as the events tell it
          overlapped,   \* a write fell between the first and last call of another request
          unaudited,    \* an audit row is missing
          unannounced,  \* an event is missing
          left          \* requests still to come

vars == <<svc, caller, row, req, trail, mirror, overlapped, unaudited,
          unannounced, left>>
fixed == <<svc, caller>>

Idle == [pc |-> "idle"]
Row(where, value) == [where |-> where, value |-> value]
None == Row("none", Unset)

Init ==
  /\ svc \in Tables
  /\ caller \in {"http", "code"}
  /\ row = None
  /\ req = [r \in Requests |-> Idle]
  /\ trail = None /\ mirror = None
  /\ overlapped = FALSE /\ unaudited = FALSE /\ unannounced = FALSE
  /\ left = MaxRequests

------------------------------------------------------------------------------
\* A row that remove() has been through: stamped, erased, or set to the value
\* that stands for it.
Gone(r) ==
  \/ r.where \in {"stamped", "erased"}
  \/ r.where = "kept" /\ r.value = svc.removal

MutantFindsRemoved(r) == r.where \in {"kept", "stamped"}

\* What getById finds.
Found(r) ==
  /\ r.where \in {"kept", "stamped"}
  /\ svc.finds = "live" => ~Gone(r)

\* The bodies of POST and PATCH after validation: a column the schema does not
\* know is stripped, a column the body leaves out takes its default.
PostValues == IF caller = "code" THEN svc.column ELSE svc.post \cup {svc.initial}
PatchValues ==
  IF caller = "code" THEN svc.column \cup {Unset}
  ELSE svc.http \cup {svc.fill}

MutantReversedGraph(from, to) ==
  to \in {Unset, from} \cup {v \in svc.column : from \in svc.graph[v]}

\* assertValidTransition: a status may stay, or move along the graph.
Passes(from, to) == to \in {Unset, from} \cup svc.graph[from]
Others(r) == \E s \in Requests \ {r} : req[s].pc # "idle"

\* create(): the row is inserted; the audit row and the event follow.
Create(r) ==
  /\ row.where = "none"
  /\ \A s \in Requests : req[s].pc = "idle"
  /\ \E value \in PostValues :
       /\ row' = Row("kept", value)
       /\ req' = [req EXCEPT ![r] =
                    [pc |-> "audit", op |-> "create",
                     previous |-> None, result |-> row']]
  /\ UNCHANGED <<fixed, trail, mirror, overlapped, unaudited, unannounced, left>>

\* update() starts with getById, which answers 404, and the graph, which
\* answers 422 before anything is written.
ReadForUpdate(r) ==
  /\ req[r].pc = "idle" /\ left > 0
  /\ Found(row) /\ svc # Members
  /\ \E value \in PatchValues :
       /\ Passes(row.value, value)
       /\ req' = [req EXCEPT ![r] =
                    [pc |-> "write", op |-> "update",
                     previous |-> row, value |-> value]]
  /\ left' = left - 1
  /\ UNCHANGED <<fixed, row, trail, mirror, overlapped, unaudited, unannounced>>

ReadForRemoval(r) ==
  /\ req[r].pc = "idle" /\ left > 0
  /\ Found(row) /\ svc.removal # "never"
  /\ req' = [req EXCEPT ![r] =
               [pc |-> "write", op |-> "remove", previous |-> row]]
  /\ left' = left - 1
  /\ UNCHANGED <<fixed, row, trail, mirror, overlapped, unaudited, unannounced>>

Written(r, result) ==
  /\ row' = result
  /\ overlapped' = (overlapped \/ Others(r))
  /\ req' = [req EXCEPT ![r] = [pc |-> "audit", op |-> req[r].op,
                                previous |-> req[r].previous, result |-> result]]

Updated(r) ==
  IF req[r].value = Unset THEN row ELSE [row EXCEPT !.value = req[r].value]

\* repo.update() finds the row by its id alone, removed or not.
WriteUpdate(r) ==
  /\ req[r].pc = "write" /\ req[r].op = "update"
  /\ row.where # "erased"
  /\ Written(r, Updated(r))
  /\ UNCHANGED <<fixed, trail, mirror, unaudited, unannounced, left>>

\* softDelete() and its like.
Removed ==
  IF svc.removal = "stamp" THEN [row EXCEPT !.where = "stamped"]
  ELSE IF svc.removal = "erase" THEN [row EXCEPT !.where = "erased"]
  ELSE [row EXCEPT !.value = svc.removal]

WriteRemoval(r) ==
  /\ req[r].pc = "write" /\ req[r].op = "remove"
  /\ row.where # "erased"
  /\ Written(r, Removed)
  /\ UNCHANGED <<fixed, trail, mirror, unaudited, unannounced, left>>

\* The row is erased since it was read: the call throws, nothing follows.
WriteFails(r) ==
  /\ req[r].pc = "write" /\ row.where = "erased"
  /\ req' = [req EXCEPT ![r] = Idle]
  /\ UNCHANGED <<fixed, row, trail, mirror, overlapped, unaudited, unannounced, left>>

MutantLogsPrevious(r) == Row("kept", req[r].previous.value)
Logged(r) ==
  IF req[r].op = "remove" THEN Row("gone", Unset)
  ELSE Row("kept", req[r].result.value)

Audit(r) ==
  /\ req[r].pc = "audit"
  /\ trail' = Logged(r)
  /\ req' = [req EXCEPT ![r].pc = "announce"]
  /\ UNCHANGED <<fixed, row, mirror, overlapped, unaudited, unannounced, left>>

AuditFails(r) ==
  /\ req[r].pc = "audit"
  /\ unaudited' = TRUE
  /\ req' = [req EXCEPT ![r].pc = "announce"]
  /\ UNCHANGED <<fixed, row, trail, mirror, overlapped, unannounced, left>>

MutantTellsPrevious(r) ==
  IF req[r].op = "remove" THEN Row("gone", Unset)
  ELSE Row("kept", req[r].previous.value)

\* What the events of the request tell: *.deleted that the row is gone, the
\* others the value if they carry it.  A consumer that hears of a new row
\* without its value leaves that open; one that hears nothing of the value in
\* an update keeps what it believed.
Told(r) ==
  IF req[r].op = "remove" THEN Row("gone", Unset)
  ELSE IF \/ req[r].op \in svc.carries
          \/ <<req[r].previous.value, req[r].result.value>> \in svc.tells
       THEN Row("kept", req[r].result.value)
       ELSE IF req[r].op = "create" THEN Row("kept", Unset) ELSE mirror

Announce(r) ==
  /\ req[r].pc = "announce"
  /\ mirror' = Told(r)
  /\ req' = [req EXCEPT ![r] = Idle]
  /\ UNCHANGED <<fixed, row, trail, overlapped, unaudited, unannounced, left>>

\* The process stops: what its requests had not done is not done.
Stop ==
  /\ \E r \in Requests : req[r].pc # "idle"
  /\ unaudited' = (unaudited \/ \E r \in Requests : req[r].pc = "audit")
  /\ unannounced' =
       (unannounced \/ \E r \in Requests : req[r].pc \in {"audit", "announce"})
  /\ req' = [r \in Requests |-> Idle]
  /\ UNCHANGED <<fixed, row, trail, mirror, overlapped, left>>

Step(r) ==
  \/ Create(r) \/ ReadForUpdate(r) \/ ReadForRemoval(r)
  \/ WriteUpdate(r) \/ WriteRemoval(r) \/ WriteFails(r)
  \/ Audit(r) \/ AuditFails(r) \/ Announce(r)

Next == Stop \/ \E r \in Requests : Step(r)

Spec == Init /\ [][Next]_vars

------------------------------------------------------------------------------
\* The type invariant.
Believed ==
  {None, Row("gone", Unset)} \cup {Row("kept", v) : v \in svc.column \cup {Unset}}
Rows == {None} \cup {Row(w, v) : w \in {"kept", "stamped", "erased"}, v \in svc.column}
RequestState ==
  {Idle}
  \cup [pc : {"write"}, op : {"update"}, previous : Rows,
        value : svc.column \cup {Unset}]
  \cup [pc : {"write"}, op : {"remove"}, previous : Rows]
  \cup [pc : {"audit", "announce"}, op : {"create", "update", "remove"},
        previous : Rows, result : Rows]

\* Types; the column only holds values of its type.
TypeOK ==
  /\ svc \in Tables
  /\ caller \in {"http", "code"}
  /\ row \in Rows
  /\ req \in [Requests -> RequestState]
  /\ trail \in Believed /\ mirror \in Believed
  /\ {overlapped, unaudited, unannounced} \subseteq BOOLEAN
  /\ left \in 0..MaxRequests

Quiet == \A r \in Requests : req[r].pc = "idle"

\* What a reader of the trail or of the events believes is so.
IsSo(belief) ==
  IF belief.where = "gone" THEN Gone(row)
  ELSE /\ belief.value = row.value
       /\ svc.finds = "live" => belief.where = row.where

\* When no request is under way, no two overlapped and no audit row failed, the
\* audit trail ends with the row as it is (logAudit after each write).
TrailEndsAtRow == Quiet /\ ~overlapped /\ ~unaudited => IsSo(trail)

\* A consumer may not have been told the value of a row that it heard of.
MayBelieve(belief) ==
  \/ IsSo(belief)
  \/ /\ "create" \notin svc.carries /\ belief = Row("kept", Unset)
     /\ svc.finds = "live" => row.where = "kept"

\* The events of the service tell every change of the column.
TellsAll == "update" \in svc.carries \/ svc.tells = Moves(svc.column)

\* Under the same conditions for events, a consumer of a service that tells
\* every change believes what is so: that the row is there or gone, and its
\* value, which only a creation event without the value leaves open, as
\* document.uploaded does (documents.service.ts:36-47).
MirrorEndsAtRow ==
  Quiet /\ ~overlapped /\ ~unannounced /\ TellsAll => MayBelieve(mirror)

\* A row that its service hides once removed is out of reach of every request
\* that had not read it before: it is neither changed nor brought back.
RemovedIsOutOfReach ==
  [][Gone(row) /\ svc.finds = "live" /\ row' # row =>
       \E r \in Requests : req[r].pc = "write" /\ ~Gone(req[r].previous)]_vars

\* The column moves along the graph, unless the request that moves it had read
\* another value: between read and write nothing holds the row.
MovesFollowGraph ==
  [][row.where # "none" /\ row'.value # row.value =>
       \E r \in Requests :
         /\ req[r].pc = "write" /\ req'[r].pc = "audit"
         /\ \/ req[r].op = "remove"
            \/ req[r].previous # row
            \/ row'.value \in svc.graph[row.value]]_vars
==============================================================================
