---------------------------- MODULE RecordsProofs -----------------------------
(****************************************************************************)
(* Theorems about Records, for any set of services, any number of requests  *)
(* at the same time and any number of requests altogether; about Paging,    *)
(* the lists those services are read through, for any number of rows, any   *)
(* size of page and any number of writes; and about Provisioning, the       *)
(* scripts that make the first rows, for any tables of the application and  *)
(* any number of failures.                                                  *)
(****************************************************************************)
EXTENDS Records, Paging, Provisioning, FiniteSetTheorems, TLAPS

-----------------------------------------------------------------------------
(* The type invariant                                                       *)

LEMMA RequestShape ==
  ASSUME NEW x \in RequestState
  PROVE  /\ x.pc \in {"idle", "write", "audit", "announce"}
         /\ x.pc = "write" => /\ x.op \in {"update", "remove"}
                              /\ x.previous \in Rows
                              /\ x.op = "update" =>
                                   x.value \in svc.column \cup {Unset}
         /\ x.pc \in {"audit", "announce"} =>
              x \in [pc : {"audit", "announce"},
                     op : {"create", "update", "remove"},
                     previous : Rows, result : Rows]
  BY DEF RequestState, Idle

(* Every row but the one not yet created holds a value of its column.       *)
LEMMA RowShape ==
  ASSUME NEW x \in Rows
  PROVE  \/ x = None
         \/ /\ x \in [where : {"kept", "stamped", "erased"},
                      value : svc.column]
            /\ x.where # "none"
  BY DEF Rows, Row

LEMMA RowsOf ==
  ASSUME NEW x, x \in [where : {"kept", "stamped", "erased"},
                       value : svc.column]
  PROVE  x \in Rows
<1>1. x = Row(x.where, x.value)
  BY DEF Row
<1> QED BY <1>1 DEF Rows

(* What getById let through for a request that is about to write, and what   *)
(* the graph did; the row is there as long as anybody works on it.           *)
Admitted ==
  /\ row.where = "none" => \A r \in Requests : req[r].pc = "idle"
  /\ row.where = "stamped" => svc.removal = "stamp"
  /\ \A r \in Requests : req[r].pc = "write" =>
       /\ Found(req[r].previous)
       /\ req[r].op = "update" =>
            Passes(req[r].previous.value, req[r].value)
       /\ req[r].op = "remove" => svc.removal # "never"
  /\ \A r \in Requests : req[r].pc \in {"audit", "announce"} =>
       /\ req[r].result.where # "none"
       /\ req[r].op = "update" => req[r].previous.where # "none"

Typed == TypeOK /\ Admitted

LEMMA InitTyped == Init => Typed
<1> SUFFICES ASSUME Init PROVE TypeOK /\ Admitted
  BY DEF Typed
<1>1. None \in Rows /\ None \in Believed /\ Idle \in RequestState
  BY DEF Rows, Believed, RequestState
<1>2. left \in 0..MaxRequests
  BY RecordsAssumption DEF Init
<1>3. TypeOK
  BY <1>1, <1>2 DEF Init, TypeOK
<1>4. Admitted
  BY DEF Init, Admitted, Idle, None, Row
<1> QED BY <1>3, <1>4

(* What a write leaves in the row: nothing else of it changes.               *)
LEMMA WriteEffect ==
  ASSUME Typed, NEW r \in Requests, WriteUpdate(r) \/ WriteRemoval(r)
  PROVE  /\ row.where \in {"kept", "stamped"} /\ row \in Rows
         /\ row \in [where : {"kept", "stamped", "erased"}, value : svc.column]
         /\ row' \in [where : {"kept", "stamped", "erased"}, value : svc.column]
         /\ row' \in Rows
         /\ req[r].op = "update" =>
              /\ row'.where = row.where
              /\ row'.value = IF req[r].value = Unset THEN row.value
                              ELSE req[r].value
         /\ req[r].op = "remove" =>
              IF svc.removal = "stamp"
                THEN row'.where = "stamped" /\ row'.value = row.value
              ELSE IF svc.removal = "erase"
                THEN row'.where = "erased" /\ row'.value = row.value
              ELSE row'.where = row.where /\ row'.value = svc.removal
         /\ req' = [req EXCEPT ![r] =
                      [pc |-> "audit", op |-> req[r].op,
                       previous |-> req[r].previous, result |-> row']]
         /\ req[r].previous \in Rows
         /\ req[r].op \in {"update", "remove"}
         /\ req[r].pc = "write"
         /\ UNCHANGED <<svc, caller>>
<1>1. req[r] \in RequestState /\ req[r].pc = "write" /\ row \in Rows
  BY DEF WriteUpdate, WriteRemoval, Typed, TypeOK
<1>2. /\ req[r].op \in {"update", "remove"} /\ req[r].previous \in Rows
      /\ req[r].op = "update" => req[r].value \in svc.column \cup {Unset}
  BY <1>1, RequestShape
<1>3. /\ row.where \in {"kept", "stamped"}
      /\ row \in [where : {"kept", "stamped", "erased"}, value : svc.column]
  BY <1>1, RowShape DEF WriteUpdate, WriteRemoval, Typed, Admitted, None, Row
<1>4. /\ req' = [req EXCEPT ![r] =
                   [pc |-> "audit", op |-> req[r].op,
                    previous |-> req[r].previous, result |-> row']]
      /\ UNCHANGED <<svc, caller>>
  BY DEF WriteUpdate, WriteRemoval, Written, fixed
<1>5. CASE req[r].op = "update"
  <2>1. row' = IF req[r].value = Unset THEN row
               ELSE [row EXCEPT !.value = req[r].value]
    BY <1>5 DEF WriteUpdate, WriteRemoval, Written, Updated
  <2>2. /\ row' \in [where : {"kept", "stamped", "erased"}, value : svc.column]
        /\ row'.where = row.where
        /\ row'.value = IF req[r].value = Unset THEN row.value
                        ELSE req[r].value
    BY <1>2, <1>3, <1>5, <2>1
  <2> QED BY <1>1, <1>2, <1>3, <1>4, <1>5, <2>2, RowsOf
<1>6. CASE req[r].op = "remove"
  <2>1. row' = Removed
    BY <1>6 DEF WriteUpdate, WriteRemoval, Written
  <2>2. svc.removal \in {"stamp", "erase"} \cup svc.column
    BY <1>1, <1>6, TablesAssumption DEF Typed, TypeOK, Admitted
  <2>3. /\ row' \in [where : {"kept", "stamped", "erased"}, value : svc.column]
        /\ IF svc.removal = "stamp"
             THEN row'.where = "stamped" /\ row'.value = row.value
           ELSE IF svc.removal = "erase"
             THEN row'.where = "erased" /\ row'.value = row.value
           ELSE row'.where = row.where /\ row'.value = svc.removal
    BY <1>3, <2>1, <2>2 DEF Removed
  <2> QED BY <1>1, <1>2, <1>3, <1>4, <1>6, <2>3, RowsOf
<1> QED BY <1>2, <1>5, <1>6

LEMMA StepTyped ==
  ASSUME Typed, NEW r \in Requests, Step(r)
  PROVE  Typed'
<1> USE DEF fixed
<1>a. TypeOK /\ Admitted /\ req[r] \in RequestState
  BY DEF Typed, TypeOK
<1>b. UNCHANGED <<svc, caller>> /\ UNCHANGED <<Rows, Believed, RequestState>>
  BY DEF Step, Create, ReadForUpdate, ReadForRemoval, WriteUpdate,
     WriteRemoval, WriteFails, Audit, AuditFails, Announce, Rows, Believed,
     RequestState, Rows
<1>1. CASE Create(r)
  <2>1. PICK value \in PostValues :
          /\ row' = Row("kept", value)
          /\ req' = [req EXCEPT ![r] = [pc |-> "audit", op |-> "create",
                       previous |-> None, result |-> row']]
    BY <1>1 DEF Create
  <2>2. value \in svc.column
    BY <1>a, TablesAssumption DEF PostValues, TypeOK
  <2>3. row' \in Rows /\ None \in Rows /\ row'.where = "kept"
    BY <2>1, <2>2 DEF Rows, Row
  <2>4. [pc |-> "audit", op |-> "create", previous |-> None, result |-> row']
          \in RequestState
    BY <2>3 DEF RequestState
  <2>5. req' \in [Requests -> RequestState]
    BY <1>a, <2>1, <2>4 DEF TypeOK
  <2>6. TypeOK'
    BY <1>1, <1>a, <1>b, <2>3, <2>5 DEF Create, TypeOK
  <2>7. \A q \in Requests : req'[q].pc # "write"
    BY <1>1, <1>a, <2>1 DEF Create, TypeOK
  <2>8. \A q \in Requests : req'[q].pc \in {"audit", "announce"} =>
                            /\ req'[q].result.where # "none"
                            /\ req'[q].op # "update"
    BY <1>1, <1>a, <2>1, <2>3 DEF Create, TypeOK
  <2>9. Admitted'
    BY <2>3, <2>7, <2>8 DEF Admitted
  <2> QED BY <2>6, <2>9 DEF Typed
<1>2. CASE ReadForUpdate(r)
  <2>1. PICK value \in PatchValues :
          /\ Passes(row.value, value)
          /\ req' = [req EXCEPT ![r] = [pc |-> "write", op |-> "update",
                       previous |-> row, value |-> value]]
    BY <1>2 DEF ReadForUpdate
  <2>2. value \in svc.column \cup {Unset}
    BY <1>a, TablesAssumption DEF PatchValues, TypeOK
  <2>3. [pc |-> "write", op |-> "update", previous |-> row, value |-> value]
          \in RequestState
    BY <1>a, <2>2 DEF RequestState, TypeOK
  <2>4. req' \in [Requests -> RequestState]
    BY <1>a, <2>1, <2>3 DEF TypeOK
  <2>5. left' \in 0..MaxRequests
    BY <1>2, <1>a, RecordsAssumption DEF ReadForUpdate, TypeOK
  <2>6. TypeOK'
    BY <1>2, <1>a, <1>b, <2>4, <2>5 DEF ReadForUpdate, TypeOK
  <2>7. row.where # "none" /\ Found(row)
    BY <1>2 DEF ReadForUpdate, Found
  <2>8. /\ \A q \in Requests : q # r => req'[q] = req[q]
        /\ req'[r].pc = "write" /\ req'[r].op = "update"
        /\ req'[r].previous = row
        /\ req'[r].value = value
    BY <1>a, <2>1 DEF TypeOK
  <2>9. Admitted'
    BY <1>2, <1>a, <1>b, <2>1, <2>7, <2>8
       DEF ReadForUpdate, Admitted, Found, Gone, Passes
  <2> QED BY <2>6, <2>9 DEF Typed
<1>3. CASE ReadForRemoval(r)
  <2>1. [pc |-> "write", op |-> "remove", previous |-> row] \in RequestState
    BY <1>a DEF RequestState, TypeOK
  <2>2. req' \in [Requests -> RequestState]
    BY <1>3, <1>a, <2>1 DEF ReadForRemoval, TypeOK
  <2>3. left' \in 0..MaxRequests
    BY <1>3, <1>a, RecordsAssumption DEF ReadForRemoval, TypeOK
  <2>4. TypeOK'
    BY <1>3, <1>a, <1>b, <2>2, <2>3 DEF ReadForRemoval, TypeOK
  <2>5. row.where # "none" /\ Found(row) /\ svc.removal # "never"
    BY <1>3 DEF ReadForRemoval, Found
  <2>6. /\ \A q \in Requests : q # r => req'[q] = req[q]
        /\ req'[r].pc = "write" /\ req'[r].op = "remove"
        /\ req'[r].previous = row
    BY <1>3, <1>a DEF ReadForRemoval, TypeOK
  <2>7. Admitted'
    BY <1>3, <1>a, <1>b, <2>5, <2>6
       DEF ReadForRemoval, Admitted, Found, Gone, Passes
  <2> QED BY <2>4, <2>7 DEF Typed
<1>4. CASE WriteUpdate(r) \/ WriteRemoval(r)
  <2>1. /\ row' \in Rows /\ row'.where # "none"
        /\ row'.where = "stamped" => row.where = "stamped" \/ svc.removal = "stamp"
        /\ req' = [req EXCEPT ![r] =
                     [pc |-> "audit", op |-> req[r].op,
                      previous |-> req[r].previous, result |-> row']]
        /\ req[r].previous \in Rows /\ req[r].op \in {"update", "remove"}
    BY <1>4, WriteEffect
  <2>2. [pc |-> "audit", op |-> req[r].op, previous |-> req[r].previous,
         result |-> row'] \in RequestState
    BY <2>1 DEF RequestState
  <2>3. req' \in [Requests -> RequestState]
    BY <1>a, <2>1, <2>2 DEF TypeOK
  <2>4. overlapped' \in BOOLEAN
    BY <1>4 DEF WriteUpdate, WriteRemoval, Written, Others
  <2>5. TypeOK'
    BY <1>4, <1>a, <1>b, <2>1, <2>3, <2>4 DEF WriteUpdate, WriteRemoval, TypeOK
  <2>6. /\ \A q \in Requests : q # r => req'[q] = req[q]
        /\ req'[r].pc = "audit" /\ req'[r].result = row'
        /\ req'[r].previous = req[r].previous
        /\ req[r].pc = "write"
    BY <1>4, <1>a, <2>1 DEF TypeOK, WriteUpdate, WriteRemoval
  <2>7. Admitted'
    BY <1>a, <1>b, <2>1, <2>6 DEF Admitted, Found, Gone, Passes
  <2> QED BY <2>5, <2>7 DEF Typed
<1>5. ASSUME req[r].pc \in {"audit", "announce"}
      PROVE  req[r].result.value \in svc.column
  <2>1. req[r].result \in Rows /\ req[r].result.where # "none"
    BY <1>5, <1>a, RequestShape DEF Admitted
  <2> QED BY <2>1, RowShape DEF None, Row
<1>6. CASE WriteFails(r) \/ Announce(r)
  <2>1. req' = [req EXCEPT ![r] = Idle] /\ Idle \in RequestState
    BY <1>6 DEF WriteFails, Announce, RequestState
  <2>2. mirror' \in Believed
    <3>1. CASE WriteFails(r)
      BY <3>1, <1>a DEF WriteFails, TypeOK
    <3>2. CASE Announce(r)
      BY <1>a, <1>5, <3>2 DEF Announce, Told, Believed, TypeOK
    <3> QED BY <1>6, <3>1, <3>2
  <2>3. req' \in [Requests -> RequestState]
    BY <1>a, <2>1 DEF TypeOK
  <2>4. TypeOK'
    BY <1>6, <1>a, <1>b, <2>2, <2>3 DEF WriteFails, Announce, TypeOK
  <2>5. /\ \A q \in Requests : q # r => req'[q] = req[q]
        /\ req'[r].pc = "idle"
        /\ row' = row
    BY <1>6, <1>a, <2>1 DEF WriteFails, Announce, TypeOK, Idle
  <2>6. Admitted'
    BY <1>a, <1>b, <2>5 DEF Admitted, Found, Gone, Passes
  <2> QED BY <2>4, <2>6 DEF Typed
<1>7. CASE Audit(r) \/ AuditFails(r)
  <2>1. /\ req[r].pc = "audit" /\ row' = row
        /\ req' = [req EXCEPT ![r].pc = "announce"]
    BY <1>7 DEF Audit, AuditFails
  <2>2. req[r] \in [pc : {"audit", "announce"},
                    op : {"create", "update", "remove"},
                    previous : Rows, result : Rows]
    BY <1>a, <2>1, RequestShape
  <2>3. /\ [req[r] EXCEPT !.pc = "announce"]
              \in [pc : {"audit", "announce"},
                   op : {"create", "update", "remove"},
                   previous : Rows, result : Rows]
        /\ [req[r] EXCEPT !.pc = "announce"].pc = "announce"
        /\ [req[r] EXCEPT !.pc = "announce"].result = req[r].result
        /\ [req[r] EXCEPT !.pc = "announce"].op = req[r].op
        /\ [req[r] EXCEPT !.pc = "announce"].previous = req[r].previous
    BY <2>2
  <2>4. /\ req' \in [Requests -> RequestState]
        /\ req'[r] = [req[r] EXCEPT !.pc = "announce"]
        /\ \A q \in Requests : q # r => req'[q] = req[q]
    BY <1>a, <2>1, <2>3 DEF TypeOK, RequestState
  <2>5. trail' \in Believed
    <3>1. CASE Audit(r)
      BY <1>5, <2>1, <3>1 DEF Audit, Logged, Believed
    <3>2. CASE AuditFails(r)
      BY <1>a, <3>2 DEF AuditFails, TypeOK
    <3> QED BY <1>7, <3>1, <3>2
  <2>6. TypeOK'
    BY <1>7, <1>a, <1>b, <2>4, <2>5 DEF Audit, AuditFails, TypeOK
  <2>7. Admitted'
    BY <1>a, <1>b, <2>1, <2>3, <2>4 DEF Admitted, Found, Gone, Passes
  <2> QED BY <2>6, <2>7 DEF Typed
<1> QED BY <1>1, <1>2, <1>3, <1>4, <1>6, <1>7 DEF Step

LEMMA TypedInvariant == Spec => []Typed
<1>1. Typed /\ [Next]_vars => Typed'
  <2> SUFFICES ASSUME Typed, [Next]_vars PROVE Typed'
    OBVIOUS
  <2>1. CASE Stop
    <3>1. Idle \in RequestState
      BY DEF RequestState
    <3>2. TypeOK'
      BY <2>1, <3>1 DEF Stop, fixed, Typed, TypeOK, RequestState, Rows, Believed
    <3>3. Admitted'
      BY <2>1 DEF Stop, fixed, Typed, TypeOK, Admitted, Idle
    <3> QED BY <3>2, <3>3 DEF Typed
  <2>2. CASE UNCHANGED vars
    BY <2>2 DEF vars, Typed, TypeOK, RequestState, Rows, Believed, Admitted,
       Found, Gone, Passes
  <2> QED BY <2>1, <2>2, StepTyped DEF Next
<1> QED BY <1>1, InitTyped, PTL DEF Spec

(* Every variable keeps its type: the column of a row only ever holds values *)
(* of its type, whatever bodies and removals there are.                      *)
THEOREM TypeCorrect == Spec => []TypeOK
<1>1. Typed => TypeOK
  BY DEF Typed
<1> QED BY <1>1, TypedInvariant, PTL

-----------------------------------------------------------------------------
(* Moves and removals                                                        *)

Follows ==
  row.where # "none" /\ row'.value # row.value =>
    \E r \in Requests :
      /\ req[r].pc = "write" /\ req'[r].pc = "audit"
      /\ \/ req[r].op = "remove"
         \/ req[r].previous # row
         \/ row'.value \in svc.graph[row.value]

OutOfReach ==
  Gone(row) /\ svc.finds = "live" /\ row' # row =>
    \E r \in Requests : req[r].pc = "write" /\ ~Gone(req[r].previous)

(* Only two kinds of step write a row that exists.                           *)
LEMMA Writers ==
  ASSUME Typed, [Next]_vars, row.where # "none", row' # row
  PROVE  \E r \in Requests : WriteUpdate(r) \/ WriteRemoval(r)
  BY DEF Next, Step, Create, ReadForUpdate, ReadForRemoval, WriteFails, Audit,
     AuditFails, Announce, Stop, vars

(* A move that the graph forbids takes a request that read another value:    *)
(* what was checked is the version it read.                                  *)
THEOREM MovesFollow == Spec => MovesFollowGraph
<1>1. Typed /\ [Next]_vars => Follows
  <2> SUFFICES ASSUME Typed, [Next]_vars, row.where # "none",
                      row'.value # row.value
               PROVE  \E r \in Requests :
                        /\ req[r].pc = "write" /\ req'[r].pc = "audit"
                        /\ \/ req[r].op = "remove"
                           \/ req[r].previous # row
                           \/ row'.value \in svc.graph[row.value]
    BY DEF Follows
  <2>1. PICK r \in Requests : WriteUpdate(r) \/ WriteRemoval(r)
    BY Writers
  <2>2. /\ req[r].pc = "write" /\ req[r].op \in {"update", "remove"}
        /\ req[r].op = "update" =>
             row'.value = IF req[r].value = Unset THEN row.value
                          ELSE req[r].value
        /\ req' = [req EXCEPT ![r] =
                      [pc |-> "audit", op |-> req[r].op,
                       previous |-> req[r].previous, result |-> row']]
    BY <2>1, WriteEffect
  <2>3. req'[r].pc = "audit"
    BY <2>2 DEF Typed, TypeOK
  <2>4. req[r].op = "update" => Passes(req[r].previous.value, req[r].value)
    BY <2>2 DEF Typed, Admitted
  <2> QED BY <2>2, <2>3, <2>4 DEF Passes
<1> QED BY <1>1, TypedInvariant, PTL DEF Spec, MovesFollowGraph, Follows

(* Whoever changes a removed row read it before it was removed.              *)
THEOREM Removal == Spec => RemovedIsOutOfReach
<1>1. Typed /\ [Next]_vars => OutOfReach
  <2> SUFFICES ASSUME Typed, [Next]_vars, Gone(row), svc.finds = "live",
                      row' # row
               PROVE  \E r \in Requests :
                        req[r].pc = "write" /\ ~Gone(req[r].previous)
    BY DEF OutOfReach
  <2>1. PICK r \in Requests : WriteUpdate(r) \/ WriteRemoval(r)
    BY Writers DEF Gone
  <2>2. req[r].pc = "write"
    BY <2>1 DEF WriteUpdate, WriteRemoval
  <2>3. ~Gone(req[r].previous)
    BY <2>2 DEF Typed, Admitted, Found
  <2> QED BY <2>2, <2>3
<1> QED BY <1>1, TypedInvariant, PTL
     DEF Spec, RemovedIsOutOfReach, OutOfReach

-----------------------------------------------------------------------------
(* What the readers of the audit rows and of the events believe             *)

Busy(r) == req[r].pc \in {"audit", "announce"}

(* As long as no two requests overlapped, who is about to write has read the *)
(* row as it is, and who has written it is the only one, and the row is      *)
(* still what it wrote.                                                      *)
Alone ==
  ~overlapped =>
    /\ \A r \in Requests : req[r].pc = "write" => req[r].previous = row
    /\ \A q, r \in Requests : Busy(q) /\ Busy(r) => q = r
    /\ \A r \in Requests : Busy(r) =>
         /\ req[r].result = row
         /\ req[r].op = "remove" => Gone(row)
         /\ req[r].op # "remove" /\ svc.finds = "live" => row.where = "kept"

(* The trail is right unless an audit row is still to be written ...         *)
TrailSo ==
  ~overlapped /\ ~unaudited /\ (\A r \in Requests : req[r].pc # "audit")
    => IsSo(trail)

(* ... and so are the events, where each change is told; the change that      *)
(* changes nothing needs no telling.                                         *)
MirrorSo ==
  ~overlapped /\ ~unannounced /\ TellsAll =>
    /\ (\A r \in Requests : ~Busy(r)) => MayBelieve(mirror)
    /\ \A r \in Requests :
         Busy(r) /\ req[r].op = "update"
           /\ req[r].previous.value = req[r].result.value => MayBelieve(mirror)

Believable == Alone /\ TrailSo /\ MirrorSo

LEMMA InitBelievable == Init => Believable
  BY DEF Init, Believable, Alone, TrailSo, MirrorSo, Busy, IsSo, MayBelieve,
     None, Row, Idle

(* A request that reads or gives up changes nothing that anybody believes.   *)
LEMMA QuietStep ==
  ASSUME Typed, Believable, NEW r \in Requests,
         UNCHANGED <<svc, row, trail, mirror, overlapped, unaudited,
                     unannounced>>,
         ~Busy(r), req'[r].pc \in {"idle", "write"},
         req'[r].pc = "write" => req'[r].previous = row,
         \A q \in Requests : q # r => req'[q] = req[q]
  PROVE  Believable'
<1>1. \A q \in Requests : (Busy(q)' <=> Busy(q)) /\ (Busy(q) => req'[q] = req[q])
  BY DEF Busy
<1>2. ASSUME ~overlapped, NEW q \in Requests, req'[q].pc = "write"
      PROVE  req'[q].previous = row
  <2>1. CASE q = r
    BY <1>2, <2>1
  <2>2. CASE q # r
    BY <1>2, <2>2 DEF Believable, Alone
  <2> QED BY <2>1, <2>2
<1>3. Alone'
  BY <1>1, <1>2 DEF Believable, Alone, Gone
<1>4. (IsSo(trail) => IsSo(trail)') /\ (MayBelieve(mirror) => MayBelieve(mirror)')
  BY DEF IsSo, MayBelieve, Gone
<1>5. TrailSo'
  BY <1>1, <1>4 DEF Believable, TrailSo, Busy
<1>6. MirrorSo'
  BY <1>1, <1>4 DEF Believable, MirrorSo, TellsAll
<1> QED BY <1>3, <1>5, <1>6 DEF Believable

LEMMA WriteBelievable ==
  ASSUME Typed, Believable, NEW r \in Requests,
         WriteUpdate(r) \/ WriteRemoval(r)
  PROVE  Believable'
<1> SUFFICES ASSUME ~overlapped' PROVE Believable'
  BY DEF Believable, Alone, TrailSo, MirrorSo
<1>1. /\ ~overlapped
      /\ \A q \in Requests : q # r => req[q].pc = "idle"
      /\ UNCHANGED <<svc, mirror, trail, unaudited, unannounced>>
  BY DEF WriteUpdate, WriteRemoval, Written, Others, fixed
<1>2. /\ row.where \in {"kept", "stamped"}
      /\ req[r].pc = "write" /\ req[r].op \in {"update", "remove"}
      /\ req[r].op = "update" =>
           /\ row'.where = row.where
           /\ row'.value = IF req[r].value = Unset THEN row.value
                           ELSE req[r].value
      /\ req[r].op = "remove" =>
           IF svc.removal = "stamp"
             THEN row'.where = "stamped" /\ row'.value = row.value
           ELSE IF svc.removal = "erase"
             THEN row'.where = "erased" /\ row'.value = row.value
           ELSE row'.where = row.where /\ row'.value = svc.removal
      /\ req' = [req EXCEPT ![r] =
                   [pc |-> "audit", op |-> req[r].op,
                    previous |-> req[r].previous, result |-> row']]
  BY WriteEffect
<1>3. req[r].previous = row /\ Found(row)
  BY <1>1, <1>2 DEF Believable, Alone, Typed, Admitted
<1>4. /\ req'[r] = [pc |-> "audit", op |-> req[r].op,
                    previous |-> req[r].previous, result |-> row']
      /\ \A q \in Requests : q # r => req'[q] = req[q]
  BY <1>2 DEF Typed, TypeOK
<1>5. \A q \in Requests : q # r => ~Busy(q)' /\ req'[q].pc # "write"
  BY <1>1, <1>4 DEF Busy
<1>6. req[r].op = "remove" => Gone(row)'
  <2>1. row.where = "stamped" => svc.removal = "stamp"
    BY DEF Typed, Admitted
  <2> QED BY <1>1, <1>2, <2>1 DEF Gone
<1>7. req[r].op = "update" /\ svc.finds = "live" => row'.where = "kept"
  BY <1>2, <1>3 DEF Found, Gone
<1>8. Alone'
  BY <1>1, <1>2, <1>4, <1>5, <1>6, <1>7 DEF Alone
<1>9. TrailSo'
  BY <1>4 DEF TrailSo
<1>10. MirrorSo'
  <2> SUFFICES ASSUME ~unannounced, TellsAll,
                      req[r].op = "update", req[r].previous.value = row'.value
               PROVE  MayBelieve(mirror)'
    BY <1>1, <1>4, <1>5 DEF MirrorSo, Busy, TellsAll
  <2>1. MayBelieve(mirror)
    BY <1>1, <1>2 DEF Believable, MirrorSo, Busy
  <2>2. row'.where = row.where /\ row'.value = row.value
    BY <1>2, <1>3
  <2> QED BY <1>1, <2>1, <2>2 DEF IsSo, MayBelieve, Gone
<1> QED BY <1>8, <1>9, <1>10 DEF Believable

LEMMA StepBelievable ==
  ASSUME Typed, Believable, NEW r \in Requests, Step(r)
  PROVE  Believable'
<1> USE DEF fixed
<1>a. TypeOK /\ Admitted /\ req[r] \in RequestState
  BY DEF Typed, TypeOK
<1>1. CASE Create(r)
  <2>1. PICK value \in PostValues :
          /\ row' = Row("kept", value)
          /\ req' = [req EXCEPT ![r] = [pc |-> "audit", op |-> "create",
                       previous |-> None, result |-> row']]
    BY <1>1 DEF Create
  <2>2. /\ row'.where = "kept"
        /\ req'[r].pc = "audit" /\ req'[r].op = "create"
        /\ req'[r].result = row'
        /\ \A q \in Requests : q # r => req'[q].pc = "idle"
    BY <1>1, <1>a, <2>1 DEF Create, TypeOK, Row
  <2>3. Alone'
    BY <2>2 DEF Alone, Busy
  <2>4. TrailSo' /\ MirrorSo'
    BY <2>2 DEF TrailSo, MirrorSo, Busy
  <2> QED BY <2>3, <2>4 DEF Believable
<1>2. CASE ReadForUpdate(r) \/ ReadForRemoval(r)
  <2>1. /\ ~Busy(r)
        /\ req'[r].pc = "write" /\ req'[r].previous = row
        /\ \A q \in Requests : q # r => req'[q] = req[q]
    BY <1>2, <1>a DEF ReadForUpdate, ReadForRemoval, Busy, TypeOK
  <2> QED BY <1>2, <2>1, QuietStep DEF ReadForUpdate, ReadForRemoval
<1>3. CASE WriteUpdate(r) \/ WriteRemoval(r)
  BY <1>3, WriteBelievable
<1>4. CASE WriteFails(r)
  <2>1. /\ ~Busy(r) /\ req'[r].pc = "idle"
        /\ \A q \in Requests : q # r => req'[q] = req[q]
    BY <1>4, <1>a DEF WriteFails, Busy, TypeOK, Idle
  <2> QED BY <1>4, <2>1, QuietStep DEF WriteFails
<1>5. CASE Audit(r) \/ AuditFails(r)
  <2>1. req[r] \in [pc : {"audit", "announce"},
                    op : {"create", "update", "remove"},
                    previous : Rows, result : Rows]
    BY <1>5, <1>a, RequestShape DEF Audit, AuditFails
  <2>2. /\ req'[r] = [req[r] EXCEPT !.pc = "announce"]
        /\ \A q \in Requests : q # r => req'[q] = req[q]
    BY <1>5, <1>a DEF Audit, AuditFails, TypeOK
  <2>3. /\ req'[r].pc = "announce" /\ req[r].pc = "audit"
        /\ req'[r].op = req[r].op /\ req'[r].previous = req[r].previous
        /\ req'[r].result = req[r].result
    BY <1>5, <2>1, <2>2 DEF Audit, AuditFails
  <2>4. UNCHANGED <<svc, row, mirror, overlapped, unannounced>>
    BY <1>5 DEF Audit, AuditFails
  <2>5. \A q \in Requests : /\ Busy(q)' <=> Busy(q)
                            /\ req[q].pc = "write" <=> req'[q].pc = "write"
                            /\ req'[q].pc = "write" => req'[q] = req[q]
                            /\ Busy(q) =>
                                 /\ req'[q].op = req[q].op
                                 /\ req'[q].previous = req[q].previous
                                 /\ req'[q].result = req[q].result
    BY <2>2, <2>3 DEF Busy
  <2>6. Alone'
    BY <2>4, <2>5 DEF Believable, Alone, Gone
  <2>7. MirrorSo'
    BY <2>4, <2>5 DEF Believable, MirrorSo, TellsAll, IsSo, MayBelieve, Gone
  <2>8. TrailSo'
    <3>1. CASE AuditFails(r)
      BY <3>1 DEF AuditFails, TrailSo
    <3>2. CASE Audit(r)
      <4> SUFFICES ASSUME ~overlapped PROVE IsSo(trail)'
        BY <2>4 DEF TrailSo
      <4>1. /\ trail' = Logged(r)
            /\ req[r].result = row
            /\ req[r].op = "remove" => Gone(row)
            /\ req[r].op # "remove" /\ svc.finds = "live" => row.where = "kept"
        BY <2>3, <3>2 DEF Audit, Believable, Alone, Busy
      <4> QED BY <2>4, <4>1 DEF Logged, Row, IsSo, Gone
    <3> QED BY <1>5, <3>1, <3>2
  <2> QED BY <2>6, <2>7, <2>8 DEF Believable
<1>6. CASE Announce(r)
  <2>1. /\ req[r].pc = "announce" /\ req'[r].pc = "idle"
        /\ \A q \in Requests : q # r => req'[q] = req[q]
        /\ UNCHANGED <<svc, row, trail, overlapped, unaudited, unannounced>>
        /\ mirror' = Told(r)
    BY <1>6, <1>a DEF Announce, TypeOK, Idle
  <2>2. \A q \in Requests : /\ Busy(q)' => Busy(q) /\ req'[q] = req[q]
                            /\ req'[q].pc = "write" =>
                                 req[q].pc = "write" /\ req'[q] = req[q]
                            /\ req[q].pc = "audit" => req'[q].pc = "audit"
    BY <2>1 DEF Busy
  <2>3. Alone'
    BY <2>1, <2>2 DEF Believable, Alone, Gone
  <2>4. TrailSo'
    BY <2>1, <2>2 DEF Believable, TrailSo, IsSo, Gone
  <2>5. MirrorSo'
    <3> SUFFICES ASSUME ~overlapped, ~unannounced, TellsAll
                 PROVE  MayBelieve(mirror)'
      BY <2>1 DEF MirrorSo, TellsAll
    <3>1. /\ req[r].result = row
          /\ req[r].op = "remove" => Gone(row)
          /\ req[r].op # "remove" /\ svc.finds = "live" => row.where = "kept"
      BY <2>1 DEF Believable, Alone, Busy
    <3>2. CASE mirror' = Row("kept", req[r].result.value)
               /\ req[r].op # "remove"
      BY <2>1, <3>1, <3>2 DEF Row, IsSo, MayBelieve
    <3>3. CASE mirror' = Row("gone", Unset) /\ req[r].op = "remove"
      BY <2>1, <3>1, <3>3 DEF Row, IsSo, MayBelieve, Gone
    <3>4. CASE mirror' = mirror /\ req[r].op = "update"
               /\ req[r].op \notin svc.carries
               /\ <<req[r].previous.value, req[r].result.value>> \notin svc.tells
      <4>1. /\ req[r].previous \in Rows /\ req[r].result \in Rows
            /\ req[r].previous.where # "none" /\ req[r].result.where # "none"
        BY <1>a, <2>1, <3>4, RequestShape DEF Admitted
      <4>2. /\ req[r].previous.value \in svc.column
            /\ req[r].result.value \in svc.column
        BY <4>1, RowShape DEF None, Row
      <4>3. req[r].previous.value = req[r].result.value
        BY <3>4, <4>2 DEF Moves, TellsAll
      <4>4. MayBelieve(mirror)
        BY <2>1, <3>4, <4>3 DEF Believable, MirrorSo, Busy
      <4> QED BY <2>1, <3>4, <4>4 DEF IsSo, MayBelieve, Gone
    <3>5. CASE mirror' = Row("kept", Unset) /\ req[r].op = "create"
               /\ req[r].op \notin svc.carries
      BY <2>1, <3>1, <3>5 DEF MayBelieve
    <3>6. req[r].op \in {"create", "update", "remove"}
      BY <2>1, <1>a, RequestShape
    <3> QED BY <2>1, <3>2, <3>3, <3>4, <3>5, <3>6 DEF Told
  <2> QED BY <2>3, <2>4, <2>5 DEF Believable
<1> QED BY <1>1, <1>2, <1>3, <1>4, <1>5, <1>6 DEF Step

LEMMA StopBelievable ==
  ASSUME Typed, Believable, Stop PROVE Believable'
<1> USE DEF fixed
<1>1. \A r \in Requests : req'[r].pc = "idle"
  BY DEF Stop, Idle
<1>2. UNCHANGED <<svc, row, trail, mirror, overlapped>>
  BY DEF Stop
<1>3. Alone'
  BY <1>1 DEF Alone, Busy
<1>4. TrailSo'
  <2>1. ~unaudited' => ~unaudited /\ \A r \in Requests : req[r].pc # "audit"
    BY DEF Stop
  <2> QED BY <1>2, <2>1 DEF Believable, TrailSo, IsSo, Gone
<1>5. MirrorSo'
  <2>1. ~unannounced' => ~unannounced /\ \A r \in Requests : ~Busy(r)
    BY DEF Stop, Busy
  <2> QED BY <1>1, <1>2, <2>1
       DEF Believable, MirrorSo, TellsAll, IsSo, MayBelieve, Gone, Busy
<1> QED BY <1>3, <1>4, <1>5 DEF Believable

LEMMA BelievableInvariant == Spec => []Believable
<1>1. Typed /\ Believable /\ [Next]_vars => Believable'
  <2>1. Believable /\ UNCHANGED vars => Believable'
    BY DEF vars, fixed, Believable, Alone, TrailSo, MirrorSo, TellsAll, Busy,
       IsSo, MayBelieve, Gone
  <2> QED BY <2>1, StepBelievable, StopBelievable DEF Next
<1> QED BY <1>1, InitBelievable, TypedInvariant, PTL DEF Spec

(* Whatever the service, a trail without gaps of requests that did not       *)
(* overlap ends with the row as it is (logAudit after each write).           *)
THEOREM Trail == Spec => []TrailEndsAtRow
<1>1. Believable => TrailEndsAtRow
  BY DEF Believable, TrailSo, TrailEndsAtRow, Quiet
<1> QED BY <1>1, BelievableInvariant, PTL

(* So do the events of a service that tells every change of its column: what  *)
(* they leave open is at most the value of a row whose creation event did     *)
(* not carry it (documents.service.ts:36-47).                                 *)
THEOREM Mirror == Spec => []MirrorEndsAtRow
<1>1. Believable => MirrorEndsAtRow
  BY DEF Believable, MirrorSo, MirrorEndsAtRow, Quiet, Busy
<1> QED BY <1>1, BelievableInvariant, PTL
-----------------------------------------------------------------------------
(* A row that is served one request at a time implements Lifecycle           *)

\* The states of a row of service s as Lifecycle knows them: G once it has been
\* removed, in whatever way s removes, and before that the value of its column.
AsState(s, G, value) == IF value = s.removal THEN G ELSE value
RowState(G) ==
  IF row.where = "none" THEN Unset ELSE IF Gone(row) THEN G ELSE row.value

\* A row is created with a value that POST or a caller in the code may give it;
\* it moves along the graph of its service, or is removed if there is a way to.
\* Only a service that finds removed rows can bring one back, and only one that
\* removes by a value of the column.
BornAs(s, c, G) ==
  {AsState(s, G, v) :
     v \in IF c = "code" THEN s.column ELSE s.post \cup {s.initial}}
MovesOf(s, G) ==
  [x \in s.column \cup {G} |->
     IF x # G
     THEN {AsState(s, G, v) : v \in s.graph[x]}
            \cup {g \in {G} : s.removal # "never"}
     ELSE {AsState(s, G, v) :
             v \in IF s.finds = "live" \/ s.removal \notin s.column THEN {}
                   ELSE s.graph[s.removal]}]

Served(s, c, G) == INSTANCE Lifecycle WITH
                     Entity <- {"row"}, Initial <- BornAs(s, c, G),
                     Graph <- MovesOf(s, G), Missing <- Unset,
                     state <- [e \in {"row"} |-> RowState(G)]

LEMMA ServedMove ==
  ASSUME NEW s, NEW c, NEW G, RowState(G) # Unset,
         RowState(G)' \in {RowState(G)} \cup MovesOf(s, G)[RowState(G)]
  PROVE  [Served(s, c, G)!Next]_([e \in {"row"} |-> RowState(G)])
<1> DEFINE st == [e \in {"row"} |-> RowState(G)]
<1>1. st' = [st EXCEPT !["row"] = RowState(G)']
  OBVIOUS
<1>2. CASE RowState(G)' = RowState(G)
  BY <1>2
<1>3. CASE RowState(G)' \in MovesOf(s, G)[RowState(G)]
  <2>1. Served(s, c, G)!Move("row")
    BY <1>1, <1>3 DEF Served!Move
  <2> QED
    BY <2>1 DEF Served!Next
<1> QED
  BY <1>2, <1>3

LEMMA ServedUpdate ==
  ASSUME NEW s \in Tables, NEW c, NEW G, G \notin s.column \cup {Unset},
         Typed, svc = s, svc' = s, NEW r \in Requests,
         WriteUpdate(r) \/ WriteRemoval(r), req[r].op = "update",
         req[r].previous = row
  PROVE  [Served(s, c, G)!Next]_([e \in {"row"} |-> RowState(G)])
<1> DEFINE to == IF req[r].value = Unset THEN row.value ELSE req[r].value
<1>1. /\ row \in [where : {"kept", "stamped", "erased"}, value : svc.column]
      /\ row' \in [where : {"kept", "stamped", "erased"}, value : svc.column]
      /\ row.where \in {"kept", "stamped"}
      /\ row'.where = row.where /\ row'.value = to
  BY WriteEffect
<1>2. Found(row) /\ to \in {row.value} \cup s.graph[row.value]
  <2>1. req[r].pc = "write"
    BY WriteEffect
  <2> QED
    BY <2>1 DEF Typed, Admitted, Passes
<1>3. row.value \in s.column /\ row.value # G /\ row.value # Unset
  BY <1>1, TablesAssumption
<1>4. CASE row.where = "stamped"
  <2>1. RowState(G) = G /\ RowState(G)' = G
    BY <1>1, <1>4 DEF RowState, Gone
  <2> QED
    BY <2>1, ServedMove
<1>5. CASE row.where = "kept" /\ row.value = s.removal
  <2>1. RowState(G) = G
    BY <1>5 DEF RowState, Gone
  <2>2. RowState(G)' = AsState(s, G, to)
    BY <1>1, <1>5 DEF RowState, Gone, AsState
  <2>3. s.finds # "live"
    BY <1>2, <1>5 DEF Found, Gone
  <2>4. MovesOf(s, G)[G] = {AsState(s, G, v) : v \in s.graph[s.removal]}
    BY <1>3, <1>5, <2>3 DEF MovesOf
  <2>5. AsState(s, G, row.value) = G
    BY <1>5 DEF AsState
  <2>6. RowState(G)' \in {G} \cup MovesOf(s, G)[G]
    BY <1>2, <1>5, <2>2, <2>4, <2>5
  <2> QED
    BY <2>1, <2>6, ServedMove
<1>6. CASE row.where = "kept" /\ row.value # s.removal
  <2>1. RowState(G) = row.value
    BY <1>6 DEF RowState, Gone
  <2>2. RowState(G)' = AsState(s, G, to)
    BY <1>1, <1>6 DEF RowState, Gone, AsState
  <2>3. {AsState(s, G, v) : v \in s.graph[row.value]}
          \subseteq MovesOf(s, G)[row.value]
    BY <1>3 DEF MovesOf
  <2>4. AsState(s, G, row.value) = row.value
    BY <1>6 DEF AsState
  <2>5. RowState(G)' \in {row.value} \cup MovesOf(s, G)[row.value]
    BY <1>2, <2>2, <2>3, <2>4
  <2> QED
    BY <1>3, <2>1, <2>5, ServedMove
<1> QED
  BY <1>1, <1>4, <1>5, <1>6

LEMMA ServedRemoval ==
  ASSUME NEW s \in Tables, NEW c, NEW G, G \notin s.column \cup {Unset},
         Typed, svc = s, svc' = s, NEW r \in Requests,
         WriteUpdate(r) \/ WriteRemoval(r), req[r].op = "remove"
  PROVE  [Served(s, c, G)!Next]_([e \in {"row"} |-> RowState(G)])
<1>1. /\ row \in [where : {"kept", "stamped", "erased"}, value : svc.column]
      /\ row' \in [where : {"kept", "stamped", "erased"}, value : svc.column]
      /\ row.where \in {"kept", "stamped"} /\ req[r].pc = "write"
      /\ IF svc.removal = "stamp"
           THEN row'.where = "stamped" /\ row'.value = row.value
         ELSE IF svc.removal = "erase"
           THEN row'.where = "erased" /\ row'.value = row.value
         ELSE row'.where = row.where /\ row'.value = svc.removal
  BY WriteEffect
<1>2. s.removal # "never"
  BY <1>1 DEF Typed, Admitted
<1>3. row.value \in s.column /\ row.value # G /\ row.value # Unset
  BY <1>1, TablesAssumption
<1>4. RowState(G)' = G
  BY <1>1 DEF RowState, Gone
<1>5. RowState(G) \in {row.value, G}
  BY <1>1 DEF RowState
<1>6. G \in MovesOf(s, G)[row.value]
  BY <1>2, <1>3 DEF MovesOf
<1> QED
  BY <1>3, <1>4, <1>5, <1>6, ServedMove

LEMMA ServedStep ==
  ASSUME NEW s \in Tables, NEW c, NEW G, G \notin s.column \cup {Unset},
         Typed, Alone, svc = s, caller = c, ~overlapped', [Next]_vars
  PROVE  [Served(s, c, G)!Next]_([e \in {"row"} |-> RowState(G)])
<1>1. svc' = s
  BY DEF Next, Step, Create, ReadForUpdate, ReadForRemoval, WriteUpdate,
         WriteRemoval, WriteFails, Audit, AuditFails, Announce, Stop, fixed,
         vars
<1>2. CASE row' = row
  BY <1>1, <1>2 DEF RowState, Gone
<1>3. CASE row.where = "none" /\ row' # row
  <2>1. PICK r \in Requests : Create(r)
    BY <1>3 DEF Next, Step, ReadForUpdate, ReadForRemoval, WriteUpdate,
       WriteRemoval, WriteFails, Audit, AuditFails, Announce, Stop, vars,
       Typed, Admitted
  <2>2. PICK value \in PostValues : row' = Row("kept", value)
    BY <2>1 DEF Create
  <2>3. value \in IF c = "code" THEN s.column ELSE s.post \cup {s.initial}
    BY <2>2 DEF PostValues
  <2>4. RowState(G) = Unset /\ RowState(G)' = AsState(s, G, value)
    BY <1>1, <1>3, <2>2 DEF RowState, Gone, Row, AsState
  <2>5. RowState(G)' \in BornAs(s, c, G)
    BY <2>3, <2>4 DEF BornAs
  <2>6. Served(s, c, G)!Create("row")
    BY <2>4, <2>5 DEF Served!Create
  <2> QED
    BY <2>6 DEF Served!Next
<1>4. CASE row.where # "none" /\ row' # row
  <2>1. PICK r \in Requests : WriteUpdate(r) \/ WriteRemoval(r)
    BY <1>4, Writers
  <2>2. ~overlapped /\ req[r].pc = "write" /\ req[r].op \in {"update", "remove"}
    BY <2>1 DEF WriteUpdate, WriteRemoval, Written
  <2>3. req[r].previous = row
    BY <2>2 DEF Alone
  <2> QED
    BY <1>1, <2>1, <2>2, <2>3, ServedUpdate, ServedRemoval
<1> QED
  BY <1>2, <1>3, <1>4

(* As long as no write falls between the calls of another request, a row of  *)
(* any of these services, whoever calls it, has a lifecycle: it is born with  *)
(* a value of a body, moves along the graph of its service, and its removal   *)
(* is the end of it unless the service finds removed rows and removes by a    *)
(* value (create, update and remove of the services; getById).                *)
THEOREM RowsImplementLifecycle ==
  ASSUME NEW CONSTANT s \in Tables, NEW CONSTANT c,
         NEW CONSTANT G, G \notin s.column \cup {Unset}
  PROVE  Spec /\ svc = s /\ caller = c /\ []~overlapped
           => Served(s, c, G)!Spec
<1>1. Init => Served(s, c, G)!Init
  BY DEF Init, Served!Init, RowState, None, Row
<1>2. svc = s /\ caller = c /\ [Next]_vars => (svc = s /\ caller = c)'
  BY DEF Next, Step, Create, ReadForUpdate, ReadForRemoval, WriteUpdate,
         WriteRemoval, WriteFails, Audit, AuditFails, Announce, Stop, fixed,
         vars
<1>3. Typed /\ Believable /\ svc = s /\ caller = c /\ (~overlapped)'
        /\ [Next]_vars
        => [Served(s, c, G)!Next]_([e \in {"row"} |-> RowState(G)])
  BY ServedStep DEF Believable
<1> QED
  BY <1>1, <1>2, <1>3, TypedInvariant, BelievableInvariant, PTL
     DEF Spec, Served!Spec

-----------------------------------------------------------------------------
(* The lists the services are read through: Paging.                         *)

(* The field alone orders the rows, up to ties.                             *)
LEMMA OrderIsWeak ==
  ASSUME key \in [Ids -> Int]
  PROVE  /\ \A r \in Ids : ~Sooner(r, r)
         /\ \A r, s \in Ids : Sooner(r, s) => ~Sooner(s, r)
         /\ \A r, s \in Ids : Sooner(r, s) \/ Sooner(s, r) \/ Rank(r) = Rank(s)
         /\ \A r, s, t \in Ids : Sooner(r, s) /\ ~Sooner(t, s) => Sooner(r, t)
         /\ \A r, s, t \in Ids : Sooner(r, s) /\ ~Sooner(r, t) => Sooner(t, s)
<1>1. \A r \in Ids : Rank(r) \in Int
  BY DEF Rank, Ids
<1> QED
  BY <1>1 DEF Sooner

LEMMA IdsFinite ==
  ASSUME NEW S \in SUBSET Ids
  PROVE  IsFiniteSet(S) /\ Cardinality(S) \in Nat
<1>1. RowCount \in Int /\ 1 \in Int
  BY PagingAssumption
<1>2. IsFiniteSet(Ids)
  BY <1>1, FS_Interval DEF Ids
<1> QED
  BY <1>2, FS_Subset, FS_CardinalityType

(* take: n rows, or all there are.                                          *)
LEMMA FirstsAre ==
  ASSUME NEW S \in SUBSET Ids, NEW n \in Nat, NEW P \in Firsts(S, n)
  PROVE  /\ P \in SUBSET S
         /\ Cardinality(P) \in Nat /\ Cardinality(S) \in Nat
         /\ Cardinality(P) < n => P = S
         /\ Cardinality(S) <= n => P = S
         /\ \A p \in P, q \in S \ P : ~Sooner(q, p)
<1>1. /\ P \in SUBSET S /\ Cardinality(P) = Size(S, n)
      /\ \A p \in P, q \in S \ P : ~Sooner(q, p)
  BY DEF Firsts
<1>2. /\ IsFiniteSet(S) /\ Cardinality(S) \in Nat /\ Cardinality(P) \in Nat
  BY <1>1, IdsFinite
<1>3. Cardinality(S) = Cardinality(P) => P = S
  BY <1>1, <1>2, FS_Subset
<1>4. /\ Cardinality(P) < n => Cardinality(S) = Cardinality(P)
      /\ Cardinality(S) <= n => Cardinality(S) = Cardinality(P)
  BY <1>1, <1>2 DEF Size
<1> QED
  BY <1>1, <1>2, <1>3, <1>4

(* A page of the rows A that may follow the cursor, when T of them were     *)
(* taken: none of the rows left out comes sooner than one of the page, and  *)
(* without a next page none is left out.                                    *)
LEMMA PageIs ==
  ASSUME NEW A \in SUBSET Ids, NEW T \in Taken(A), NEW P \in Pages(T)
  PROVE  /\ P \in SUBSET A
         /\ \A p \in P, q \in A \ P : ~Sooner(q, p)
         /\ ~HasNext(T) => P = A
<1>1. Limit \in Nat /\ Limit + 1 \in Nat
  BY PagingAssumption
<1>2. /\ T \in SUBSET A /\ Cardinality(T) \in Nat
      /\ Cardinality(T) < Limit + 1 => T = A
      /\ \A p \in T, q \in A \ T : ~Sooner(q, p)
  BY <1>1, FirstsAre DEF Taken
<1>3. /\ P \in SUBSET T
      /\ Cardinality(T) <= Limit => P = T
      /\ \A p \in P, q \in T \ P : ~Sooner(q, p)
  BY <1>1, <1>2, FirstsAre DEF Pages
<1>4. ~HasNext(T) => Cardinality(T) <= Limit /\ Cardinality(T) < Limit + 1
  BY <1>1, <1>2 DEF HasNext
<1> QED
  BY <1>2, <1>3, <1>4

-----------------------------------------------------------------------------
WalkTyped ==
  /\ state \in [Ids -> {"absent", "listed", "hidden", "erased"}]
  /\ key \in [Ids -> Int]
  /\ cursor \in Ids \cup {NoCursor}
  /\ ended \in BOOLEAN
  /\ shown \in [Ids -> Nat]
  /\ stayed \subseteq Listed
  /\ slipped \in BOOLEAN
  /\ upset \in BOOLEAN

\* The cursor was a row once; only a walk that is upset holds an erased one.
CursorIsRow ==
  cursor # NoCursor =>
    \/ state[cursor] \in {"listed", "hidden"}
    \/ state[cursor] = "erased" /\ upset

\* The rows the walk has still to come to, and those it has come past.
Ahead(r) == ~ended /\ (cursor = NoCursor \/ Sooner(cursor, r))
Behind(r) == ended \/ (cursor # NoCursor /\ (Sooner(r, cursor) \/ r = cursor))

WalkSound ==
  ~upset =>
    \A r \in stayed \ tied :
      /\ shown[r] <= 1
      /\ Ahead(r) => shown[r] = 0
      /\ Behind(r) /\ ~slipped => shown[r] = 1

WalkInv == WalkTyped /\ CursorIsRow /\ WalkSound

\* A walk that starts again has everything ahead.
LEMMA StartIsSound ==
  ASSUME WalkTyped, cursor = NoCursor, ended = FALSE,
         \A r \in Ids : shown[r] = 0
  PROVE  WalkInv
<1>1. \A r \in stayed : shown[r] = 0 /\ ~Behind(r)
  BY DEF WalkTyped, Listed, Behind
<1> QED
  BY <1>1 DEF WalkInv, CursorIsRow, WalkSound

LEMMA InitWalk == PagingInit => WalkInv
<1> SUFFICES ASSUME PagingInit PROVE WalkInv
  OBVIOUS
<1>1. WalkTyped
  BY PagingAssumption DEF PagingInit, WalkTyped, KeysOf, Ids
<1> QED
  BY <1>1, StartIsSound DEF PagingInit

\* The same for a new order or a new search.
LEMMA FreshIsSound ==
  ASSUME WalkInv, state' = state, key' \in [Ids -> Int],
         NEW keeps \in BOOLEAN, Fresh(keeps)
  PROVE  WalkInv'
<1>1. WalkTyped'
  BY DEF WalkInv, WalkTyped, Fresh, Listed
<1>2. CASE keeps
  BY <1>1, <1>2 DEF WalkInv, CursorIsRow, WalkSound, Fresh
<1>3. CASE ~keeps
  <2>1. /\ cursor' = NoCursor /\ ended' = FALSE
        /\ \A r \in Ids : shown'[r] = 0
    BY <1>3 DEF Fresh
  <2>2. \A r \in stayed' : shown'[r] = 0 /\ ~Behind(r)'
    BY <1>1, <2>1 DEF WalkTyped, Listed, Behind
  <2> QED
    BY <1>1, <2>1, <2>2 DEF WalkInv, CursorIsRow, WalkSound
<1> QED
  BY <1>2, <1>3

\* A write of another user that leaves the cursor and the rows that stay where
\* they are.
LEMMA WriteIsSound ==
  ASSUME WalkInv, UNCHANGED <<sorted, cursor, ended, shown, tied, slipped>>,
         WalkTyped', CursorIsRow', stayed' \subseteq stayed, upset => upset',
         ~upset' /\ cursor # NoCursor => key'[cursor] = key[cursor],
         \A r \in stayed' : key'[r] = key[r]
  PROVE  WalkInv'
<1> SUFFICES ASSUME ~upset' PROVE WalkSound'
  BY DEF WalkInv, WalkSound
<1>1. \A r \in stayed' : (Ahead(r)' <=> Ahead(r)) /\ (Behind(r)' <=> Behind(r))
  BY DEF Ahead, Behind, Sooner, Rank
<1> QED
  BY <1>1 DEF WalkInv, WalkSound

\* What may follow the cursor, seen from a row that shares its value with no
\* cursor: the row follows if the walk has still to come to it, unless the
\* cursor is hidden, and does not if it has come past it.
LEMMA FollowingIs ==
  ASSUME WalkTyped, CursorIsRow, ~upset, ~ended, cursor # NoCursor,
         NEW A \in Following(cursor),
         NEW r \in stayed, r \notin Ties(cursor)
  PROVE  /\ A \in SUBSET Listed
         /\ \A m \in A : ~Sooner(m, cursor)
         /\ r \in A => Ahead(r)
         /\ r \notin A /\ state[cursor] # "hidden" => Behind(r)
         /\ Behind(r) => \A m \in A : Sooner(r, m)
<1>1. PICK c \in Ids : c = cursor
  BY DEF WalkTyped
<1>2. r \in Listed /\ r \in Ids /\ Listed \subseteq Ids
  BY DEF WalkTyped, Listed
<1>3. state[c] \in {"listed", "hidden"}
  BY <1>1 DEF CursorIsRow
<1>4. key \in [Ids -> Int]
  BY DEF WalkTyped
<1>5. A \subseteq Beyond(c) \cup Ties(c)
  <2>1. \A S \in From(c) : S \subseteq Beyond(c) \cup Ties(c)
    BY DEF From
  <2>2. CASE state[c] = "listed"
    BY <1>1, <2>1, <2>2 DEF Following
  <2>3. CASE state[c] = "hidden"
    <3>1. A \in {{}} \cup UNION {{S \ F : F \in Firsts(S, 1)} : S \in From(c)}
      BY <1>1, <2>3 DEF Following
    <3>2. CASE A = {}
      BY <3>2
    <3>3. CASE A # {}
      <4>1. PICK S \in From(c) : A \in {S \ F : F \in Firsts(S, 1)}
        BY <3>1, <3>3
      <4> QED
        BY <2>1, <4>1
    <3> QED
      BY <3>2, <3>3
  <2> QED
    BY <1>3, <2>2, <2>3
<1>6. state[c] = "listed" => Beyond(c) \subseteq A
  BY <1>1 DEF Following, From
<1>7. /\ Beyond(c) \subseteq Listed /\ \A m \in Beyond(c) : Sooner(c, m)
      /\ Ties(c) \subseteq Listed /\ \A m \in Ties(c) : Rank(m) = Rank(c)
  BY DEF Beyond, Ties, Same
<1>8. \A m \in A : m \in Ids /\ ~Sooner(m, c)
  <2>1. \A m \in Ids : Sooner(c, m) => ~Sooner(m, c)
    BY <1>4, OrderIsWeak
  <2>2. \A m \in Ids : Rank(m) = Rank(c) => ~Sooner(m, c)
    <3>1. \A q \in Ids : Rank(q) \in Int
      BY <1>4 DEF Rank, Ids
    <3> QED
      BY <3>1 DEF Sooner
  <2> QED
    BY <1>2, <1>5, <1>7, <2>1, <2>2
<1>9. Sooner(c, r) \/ Sooner(r, c) \/ (r = c /\ Ties(c) = {})
  <2>1. Rank(r) = Rank(c) => r \in Same(c)
    BY <1>2 DEF Same
  <2>2. r \in Same(c) => Ties(c) = {} /\ r = c
    BY <1>1 DEF Ties
  <2> QED
    BY <1>2, <1>4, <2>1, <2>2, OrderIsWeak
<1>10. Sooner(c, r) => ~Sooner(r, c) /\ r # c
  BY <1>2, <1>4, OrderIsWeak
<1>11. r \in A => Sooner(c, r)
  BY <1>1, <1>5, <1>7
<1>12. r \notin A /\ state[c] = "listed" => ~Sooner(c, r)
  BY <1>2, <1>6 DEF Beyond
<1>13. ASSUME Sooner(r, c) \/ r = c, NEW m \in A PROVE Sooner(r, m)
  <2>1. CASE Sooner(r, c)
    BY <1>2, <1>4, <1>8, <2>1, OrderIsWeak
  <2>2. CASE r = c
    BY <1>5, <1>7, <1>9, <1>10, <2>2
  <2> QED
    BY <1>13, <2>1, <2>2
<1> QED
  BY <1>1, <1>3, <1>5, <1>7, <1>8, <1>9, <1>11, <1>12, <1>13 DEF Ahead, Behind

LEMMA FollowingIsListed ==
  ASSUME cursor # NoCursor, NEW A \in Following(cursor)
  PROVE  A \subseteq Listed
<1>1. \A S \in From(cursor) : S \subseteq Listed
  BY DEF From, Beyond, Ties, Same
<1>2. CASE state[cursor] = "listed"
  BY <1>1, <1>2 DEF Following
<1>3. CASE state[cursor] = "hidden"
  <2>1. A \in {{}} \cup
           UNION {{S \ F : F \in Firsts(S, 1)} : S \in From(cursor)}
    BY <1>3 DEF Following
  <2>2. ASSUME A # {} PROVE A \subseteq Listed
    <3>1. PICK S \in From(cursor) : A \in {S \ F : F \in Firsts(S, 1)}
      BY <2>1, <2>2
    <3> QED
      BY <1>1, <3>1
  <2> QED
    BY <2>2
<1>4. CASE state[cursor] \notin {"listed", "hidden"}
  BY <1>4 DEF Following
<1> QED
  BY <1>2, <1>3, <1>4

\* The next page shows rows that were ahead, each once, and all that the new
\* cursor leaves behind.
LEMMA NextPageIsSound == WalkInv /\ NextPage => WalkInv'
<1> SUFFICES ASSUME WalkInv, NextPage PROVE WalkInv'
  OBVIOUS
<1>t. WalkTyped /\ CursorIsRow /\ ~ended
  BY DEF WalkInv, NextPage
<1>1. PICK A \in Following(cursor) :
        \E taken \in Taken(A) : \E page \in Pages(taken) :
          /\ shown' = [r \in Ids |->
                         IF r \in page THEN Again(shown[r]) ELSE shown[r]]
          /\ ended' = ~HasNext(taken)
          /\ cursor' \in IF HasNext(taken) THEN Lasts(page) ELSE {cursor}
  BY DEF NextPage
<1>2. PICK T \in Taken(A) :
        \E page \in Pages(T) :
          /\ shown' = [r \in Ids |->
                         IF r \in page THEN Again(shown[r]) ELSE shown[r]]
          /\ ended' = ~HasNext(T)
          /\ cursor' \in IF HasNext(T) THEN Lasts(page) ELSE {cursor}
  BY <1>1
<1>3. PICK P \in Pages(T) :
        /\ shown' = [r \in Ids |->
                       IF r \in P THEN Again(shown[r]) ELSE shown[r]]
        /\ ended' = ~HasNext(T)
        /\ cursor' \in IF HasNext(T) THEN Lasts(P) ELSE {cursor}
  BY <1>2
<1>4. /\ slipped' = (slipped \/ (cursor # NoCursor /\ state[cursor] = "hidden"))
      /\ tied' = IF cursor = NoCursor THEN tied ELSE tied \cup Ties(cursor)
      /\ UNCHANGED <<sorted, state, key, stayed, upset>>
  BY DEF NextPage, rows
<1>5. A \subseteq Listed
  <2>1. CASE cursor = NoCursor
    BY <2>1 DEF Following
  <2>2. CASE cursor # NoCursor
    BY <1>t, <2>2, FollowingIsListed
  <2> QED
    BY <2>1, <2>2
<1>6. Listed \subseteq Ids /\ A \in SUBSET Ids
  BY <1>5 DEF Listed
<1>7. /\ P \in SUBSET A
      /\ \A p \in P, q \in A \ P : ~Sooner(q, p)
      /\ ~HasNext(T) => P = A
  BY <1>6, PageIs
<1>8. /\ HasNext(T) => /\ cursor' \in P /\ cursor' \in Ids
                       /\ \A p \in P : ~Sooner(cursor', p)
      /\ ~HasNext(T) => cursor' = cursor
  BY <1>3, <1>6, <1>7 DEF Lasts
<1>9. WalkTyped'
  <2>1. shown' \in [Ids -> Nat]
    BY <1>3, <1>t DEF WalkTyped, Again
  <2>2. Listed' = Listed
    BY <1>4 DEF Listed
  <2>3. slipped' \in BOOLEAN /\ ended' \in BOOLEAN
    BY <1>3, <1>4, <1>t DEF WalkTyped, HasNext
  <2> QED
    BY <1>4, <1>8, <1>t, <2>1, <2>2, <2>3 DEF WalkTyped
<1>10. CursorIsRow'
  <2>1. HasNext(T) => state[cursor'] = "listed"
    BY <1>5, <1>7, <1>8 DEF Listed
  <2> QED
    BY <1>4, <1>8, <1>t, <2>1 DEF CursorIsRow
<1>11. ASSUME ~upset, NEW r \in stayed, r \notin tied'
       PROVE  /\ shown'[r] <= 1
              /\ Ahead(r)' => shown'[r] = 0
              /\ Behind(r)' /\ ~slipped' => shown'[r] = 1
  <2>1. /\ r \in Ids /\ r \in Listed /\ r \notin tied
        /\ cursor # NoCursor => r \notin Ties(cursor)
    BY <1>4, <1>6, <1>11, <1>t DEF WalkTyped
  <2>2. /\ shown[r] \in Nat /\ shown[r] <= 1
        /\ Ahead(r) => shown[r] = 0
        /\ Behind(r) /\ ~slipped => shown[r] = 1
    BY <1>11, <1>t, <2>1 DEF WalkInv, WalkSound, WalkTyped
  <2>3. shown'[r] = IF r \in P THEN Again(shown[r]) ELSE shown[r]
    BY <1>3, <2>1
  <2>4. r \in A => Ahead(r)
    BY <1>11, <1>t, <2>1, FollowingIs DEF Ahead
  <2>5. r \notin A /\ ~slipped' => Behind(r)
    <3>1. CASE cursor = NoCursor
      BY <2>1, <3>1 DEF Following
    <3>2. CASE cursor # NoCursor
      BY <1>4, <1>11, <1>t, <2>1, <3>2, FollowingIs
    <3> QED
      BY <3>1, <3>2
  <2>6. r \in P => shown'[r] = 1
    BY <1>7, <2>2, <2>3, <2>4 DEF Again
  <2>7. r \notin P => shown'[r] = shown[r]
    BY <2>3
  <2>8. key \in [Ids -> Int]
    BY <1>t DEF WalkTyped
  <2>11. ~slipped' => ~slipped
    BY <1>4
  <2>9. CASE ~HasNext(T)
    <3>1. ended' /\ P = A
      BY <1>3, <1>7, <2>9
    <3> QED
      BY <2>2, <2>5, <2>6, <2>7, <2>11, <3>1 DEF Ahead
  <2>10. CASE HasNext(T)
    <3>0. PICK m \in Ids : m = cursor'
      BY <1>8, <2>10
    <3>5. m # NoCursor
      BY DEF NoCursor, Ids
    <3>6. ~ended'
      BY <1>3, <2>10
    <3>1. /\ ~ended' /\ m \in P /\ m \in A /\ m # NoCursor
          /\ \A p \in P : ~Sooner(m, p)
      BY <1>7, <1>8, <2>10, <3>0, <3>5, <3>6
    <3>2. /\ Ahead(r)' <=> Sooner(m, r)
          /\ Behind(r)' <=> Sooner(r, m) \/ r = m
      BY <1>4, <3>0, <3>1 DEF Ahead, Behind, Sooner, Rank
    <3>3. Sooner(m, r) => r \notin P /\ Ahead(r)
      <4>1. cursor # NoCursor => ~Sooner(m, cursor) /\ cursor \in Ids
        BY <1>11, <1>t, <2>1, <3>1, FollowingIs DEF WalkTyped
      <4>2. cursor # NoCursor /\ Sooner(m, r) => Sooner(cursor, r)
        BY <2>1, <2>8, <4>1, OrderIsWeak
      <4> QED
        BY <1>t, <3>1, <4>2 DEF Ahead
    <3>4. (Sooner(r, m) \/ r = m) /\ r \in A => r \in P
      BY <1>7, <3>1
    <3> QED
      BY <2>2, <2>5, <2>6, <2>7, <2>11, <3>2, <3>3, <3>4
  <2> QED
    BY <2>9, <2>10
<1>12. WalkSound'
  BY <1>4, <1>11 DEF WalkSound
<1> QED
  BY <1>9, <1>10, <1>12 DEF WalkInv

LEMMA NextWalk == WalkInv /\ [PagingNext]_pagingVars => WalkInv'
<1> SUFFICES ASSUME WalkInv, [PagingNext]_pagingVars PROVE WalkInv'
  OBVIOUS
<1>t. WalkTyped /\ CursorIsRow
  BY DEF WalkInv
<1>1. CASE NextPage
  BY <1>1, NextPageIsSound
<1>2. CASE Restart
  BY <1>2, <1>t, FreshIsSound DEF Restart, rows, WalkTyped
<1>3. ASSUME NEW kind \in list.kinds, NEW up \in BOOLEAN, Sort(kind, up)
      PROVE  WalkInv'
  <2>1. key' \in [Ids -> Int]
    BY <1>3, PagingAssumption DEF Sort, KeysOf
  <2> DEFINE keeps == ~list.addsUp /\ cursor # NoCursor
  <2>2. keeps \in BOOLEAN
    OBVIOUS
  <2>3. Fresh(keeps) /\ state' = state
    BY <1>3 DEF Sort
  <2> HIDE DEF keeps
  <2> QED
    BY <2>1, <2>2, <2>3, FreshIsSound
<1>4. ASSUME NEW r \in Ids, NEW k \in Keys, Insert(r, k) PROVE WalkInv'
  <2>1. /\ state[r] = "absent" /\ r \notin stayed /\ r # cursor
        /\ state' = [state EXCEPT ![r] = "listed"]
        /\ key' = [key EXCEPT ![r] = k] /\ k \in Int
        /\ UNCHANGED <<sorted, cursor, ended, shown, tied, slipped, stayed, upset>>
    BY <1>4, <1>t, PagingAssumption
       DEF Insert, Write, WalkTyped, CursorIsRow, Listed, NoCursor, Ids
  <2>2. WalkTyped' /\ CursorIsRow'
    BY <2>1, <1>t DEF WalkTyped, CursorIsRow, Listed
  <2>3. /\ cursor # NoCursor => key'[cursor] = key[cursor]
        /\ \A q \in stayed' : key'[q] = key[q]
    BY <2>1, <1>t DEF WalkTyped, Listed
  <2> QED
    BY <2>1, <2>2, <2>3, WriteIsSound
<1>5. ASSUME NEW r \in Ids, NEW k \in Keys, Update(r, k) PROVE WalkInv'
  <2>1. /\ state' = state /\ key' = [key EXCEPT ![r] = k] /\ k \in Int
        /\ stayed' = stayed \ {r} /\ upset' = (upset \/ r = cursor)
        /\ UNCHANGED <<sorted, cursor, ended, shown, tied, slipped>>
    BY <1>5, PagingAssumption DEF Update, Write, Leaves, Disturbs
  <2>2. WalkTyped' /\ CursorIsRow'
    BY <2>1, <1>t DEF WalkTyped, CursorIsRow, Listed
  <2>3. /\ ~upset' /\ cursor # NoCursor => key'[cursor] = key[cursor]
        /\ \A q \in stayed' : key'[q] = key[q]
    BY <2>1, <1>t DEF WalkTyped, Listed
  <2> QED
    BY <2>1, <2>2, <2>3, WriteIsSound
<1>6. ASSUME NEW r \in Ids, Hide(r) PROVE WalkInv'
  <2>1. /\ state' = [state EXCEPT ![r] = "hidden"] /\ stayed' = stayed \ {r}
        /\ r \in Listed
        /\ UNCHANGED <<sorted, key, cursor, ended, shown, tied, slipped, upset>>
    BY <1>6 DEF Hide, Write, Leaves
  <2>2. WalkTyped' /\ CursorIsRow'
    BY <2>1, <1>t DEF WalkTyped, CursorIsRow, Listed
  <2> QED
    BY <2>1, <2>2, WriteIsSound
<1>7. ASSUME NEW r \in Ids, Erase(r) PROVE WalkInv'
  <2>1. /\ state' = [state EXCEPT ![r] = "erased"] /\ stayed' = stayed \ {r}
        /\ r \in Listed /\ upset' = (upset \/ r = cursor)
        /\ UNCHANGED <<sorted, key, cursor, ended, shown, tied, slipped>>
    BY <1>7 DEF Erase, Write, Leaves, Disturbs
  <2>2. WalkTyped' /\ CursorIsRow'
    BY <2>1, <1>t DEF WalkTyped, CursorIsRow, Listed
  <2> QED
    BY <2>1, <2>2, WriteIsSound
<1>8. CASE UNCHANGED pagingVars
  <2>1. UNCHANGED <<sorted, state, key, cursor, ended, shown, stayed, tied,
                    slipped, upset>>
    BY <1>8 DEF pagingVars, rows, walk
  <2>2. WalkTyped' /\ CursorIsRow'
    BY <2>1, <1>t DEF WalkTyped, CursorIsRow, Listed
  <2> QED
    BY <2>1, <2>2, WriteIsSound
<1> QED
  BY <1>1, <1>2, <1>3, <1>4, <1>5, <1>6, <1>7, <1>8 DEF PagingNext

(* A walk through a list, of any length and any size of page, shows no row   *)
(* twice that stays and shares its value with no cursor, and at its end has  *)
(* shown every one, whatever is created, changed, hidden and erased          *)
(* meanwhile, in whatever order ties come, as long as the cursor stays where *)
(* it is and, for the second, in the list (buildCursorPaginatedResponse,     *)
(* safeOrderBy and the list pages of the client).                            *)
THEOREM StayersAreSeen == PagingSpec => []StayersSeenOnce
<1>1. WalkInv => StayersSeenOnce
  BY DEF WalkInv, WalkSound, StayersSeenOnce, Behind
<1> QED
  BY InitWalk, NextWalk, <1>1, PTL DEF PagingSpec

-----------------------------------------------------------------------------
(* The scripts that set an installation up                                  *)

(* What is said below of the scripts follows from the order of their calls  *)
(* alone: that every call of every plan comes where the references allow    *)
(* it.  The plans are tuples of some ninety calls, which the provers cannot *)
(* take apart; the run checks this of every script and every call there is  *)
(* (CallIsInOrder).                                                         *)
OrderFits ==
  \A s \in Script : PlanIsList(s) /\ \A p \in DOMAIN Plan[s] : CallFits(s, p)

\* What holds before the p-th call of script s, when the scripts have made T.
Prepared(s, p, T, w, k, u) ==
  /\ T \subseteq Leftovers(s)
  /\ u \/ T \cap Cleared(s, p) \subseteq Acted(s, p, Creating)
  /\ u => Acted(s, p, {"clear", "ignore"}) # {}
  /\ Acted(s, p, Demanding) \subseteq T
  /\ w \/ k \/ Acted(s, p, Demanding \cup Lenient) \subseteq T
  /\ w \/ k \/ u \/ Acted(s, p, Creating) \subseteq T

ProvisioningInv ==
  /\ script \in Script /\ pc \in DOMAIN Plan[script]
  /\ there \subseteq Leftovers(script)
  /\ status = "running" => Prepared(script, pc, there, warned, skipped, unheard)
  /\ DoneIsComplete

LEMMA CallShape ==
  ASSUME OrderFits, NEW s \in Script
  PROVE  /\ Len(Plan[s]) \in Nat \ {0}
         /\ DOMAIN Plan[s] = 1..Len(Plan[s])
         /\ \A p \in DOMAIN Plan[s] :
              Plan[s][p].op \in Deleting \cup Creating
<1>1. /\ Plan[s] \in Seq([op : Deleting \cup Creating, on : Things])
      /\ Plan[s] # <<>>
  BY DEF OrderFits, PlanIsList
<1>2. /\ Len(Plan[s]) \in Nat /\ Len(Plan[s]) # 0
      /\ DOMAIN Plan[s] = 1..Len(Plan[s])
  BY <1>1
<1>3. \A p \in DOMAIN Plan[s] :
        Plan[s][p] \in [op : Deleting \cup Creating, on : Things]
  <2> DEFINE S == [op : Deleting \cup Creating, on : Things]
  <2>1. \A q \in Seq(S) : \A p \in 1..Len(q) : q[p] \in S
    <3> HIDE DEF S
    <3> QED OBVIOUS
  <2> QED
    BY <1>1, <1>2, <2>1
<1> QED
  BY <1>2, <1>3

(* Before its first call a script has acted on nothing.                     *)
LEMMA ActedFirst ==
  ASSUME OrderFits, NEW s \in Script, NEW ops
  PROVE  Acted(s, 1, ops) = {} /\ Cleared(s, 1) = {}
<1>1. \A o : Acted(s, 1, o) = {}
  BY CallShape DEF Acted
<1> QED
  BY <1>1 DEF Cleared

(* One call later it has acted on what that call is for as well.            *)
LEMMA ActedNext ==
  ASSUME OrderFits, NEW s \in Script, NEW p \in DOMAIN Plan[s], NEW ops
  PROVE  Acted(s, p + 1, ops) =
           Acted(s, p, ops)
             \cup {t \in {Plan[s][p].on} : Plan[s][p].op \in ops}
<1>1. \A j \in DOMAIN Plan[s] : j < p + 1 <=> j < p \/ j = p
  BY CallShape
<1> QED
  BY <1>1 DEF Acted

LEMMA ClearedNext ==
  ASSUME OrderFits, NEW s \in Script, NEW p \in DOMAIN Plan[s]
  PROVE  Cleared(s, p + 1) =
           IF Plan[s][p].op \in Deleting
           THEN Cleared(s, p) \cup Lib!Doomed(Plan[s][p].on)
           ELSE Cleared(s, p)
BY ActedNext DEF Cleared

(* More kinds of calls act on more.                                         *)
LEMMA ActedGrows ==
  ASSUME NEW s, NEW p, NEW o1, NEW o2, o1 \subseteq o2
  PROVE  Acted(s, p, o1) \subseteq Acted(s, p, o2)
BY DEF Acted

(* Scripts of one family leave the same behind.                             *)
LEMMA FamilyShares ==
  ASSUME NEW s \in Script, NEW t \in Family(s)
  PROVE  t \in Script /\ s \in Family(s) /\ Leftovers(t) = Leftovers(s)
<1>1. Script = {"rootSeed", "serverSeed", "keycloak", "workflows"}
  BY DEF Script, Plan
<1>2. t \in Script /\ s \in Family(s) /\ Family(t) = Family(s)
  BY <1>1 DEF Family
<1> QED
  BY <1>2 DEF Leftovers

(* What a script creates may be left behind.                                *)
LEMMA CreatedStays ==
  ASSUME OrderFits, NEW s \in Script, NEW p \in DOMAIN Plan[s],
         Plan[s][p].op \in Creating
  PROVE  Plan[s][p].on \in Leftovers(s)
<1>1. p < Len(Plan[s]) + 1
  BY CallShape
<1>2. Plan[s][p].on \in Acted(s, Len(Plan[s]) + 1, Creating)
  BY <1>1 DEF Acted
<1>3. s \in Family(s)
  BY DEF Family
<1> QED
  BY <1>2, <1>3 DEF Leftovers

(* What a script makes and looks at is what its demanding and its lenient   *)
(* calls act on; all that it makes is what its creating calls act on.       *)
LEMMA MakesActed ==
  ASSUME OrderFits, NEW s \in Script
  PROVE  /\ Makes(s, {"ignore"})
              = Acted(s, Len(Plan[s]) + 1, Demanding \cup Lenient)
         /\ Makes(s, {}) = Acted(s, Len(Plan[s]) + 1, Creating)
<1>1. \A j \in DOMAIN Plan[s] :
        /\ j < Len(Plan[s]) + 1
        /\ Plan[s][j].op \notin {"wipe", "clear"} \cup {"ignore"} <=>
             Plan[s][j].op \in Demanding \cup Lenient
        /\ Plan[s][j].op \notin {"wipe", "clear"} \cup {} <=>
             Plan[s][j].op \in Creating
  BY CallShape DEF Deleting, Creating, Demanding, Lenient
<1> QED
  BY <1>1 DEF Makes, Acted

(* What a call that takes effect leaves of the things the scripts have made *)
Performed(s, p, T) ==
  IF Plan[s][p].op \in Deleting THEN T \ Lib!Doomed(Plan[s][p].on)
  ELSE T \cup {Plan[s][p].on}

(* A script is prepared for its first call, whatever was left behind.       *)
LEMMA FirstIsPrepared ==
  ASSUME OrderFits, NEW s \in Script, NEW T, T \subseteq Leftovers(s)
  PROVE  Prepared(s, FirstCall, T, FALSE, FALSE, FALSE)
BY ActedFirst DEF Prepared, FirstCall

(* A call that takes effect prepares for the next one (Perform).            *)
LEMMA PerformPrepares ==
  ASSUME OrderFits, NEW s \in Script, NEW p \in DOMAIN Plan[s],
         NEW T, NEW w \in BOOLEAN, NEW k \in BOOLEAN, NEW u \in BOOLEAN,
         Prepared(s, p, T, w, k, u)
  PROVE  Prepared(s, p + 1, Performed(s, p, T), w, k, u)
<1> DEFINE op == Plan[s][p].op
           on == Plan[s][p].on
<1>0. CallFits(s, p)
  BY DEF OrderFits
<1>1. \A ops : Acted(s, p + 1, ops) =
                 Acted(s, p, ops) \cup {t \in {on} : op \in ops}
  BY ActedNext
<1>2. CASE op \in Deleting
  <2>1. Acted(s, p, Creating) = {}
    BY <1>0, <1>2 DEF CallFits
  <2>2. /\ Acted(s, p + 1, Demanding) = {}
        /\ Acted(s, p + 1, Demanding \cup Lenient) = {}
        /\ Acted(s, p + 1, Creating) = {}
    <3>1. /\ op \notin Demanding \cup Lenient
          /\ Demanding \subseteq Creating
          /\ Demanding \cup Lenient \subseteq Creating
          /\ op \notin Creating
      BY <1>2 DEF Deleting, Creating, Demanding, Lenient
    <3> QED
      BY <3>1, <2>1, <1>1, ActedGrows
  <2>3. /\ Cleared(s, p + 1) = Cleared(s, p) \cup Lib!Doomed(on)
        /\ Performed(s, p, T) = T \ Lib!Doomed(on)
    BY <1>2, ClearedNext DEF Performed
  <2> QED
    BY <1>1, <2>1, <2>2, <2>3 DEF Prepared
<1>3. CASE op \in Creating
  <2>1. op \notin Deleting
    BY <1>3 DEF Deleting, Creating, Demanding, Lenient
  <2>2. Cleared(s, p + 1) = Cleared(s, p) /\ Performed(s, p, T) = T \cup {on}
    BY <2>1, ClearedNext DEF Performed
  <2>3. on \in Leftovers(s)
    BY <1>3, CreatedStays
  <2>4. on \in Acted(s, p + 1, Creating)
    BY <1>1, <1>3
  <2> QED
    BY <1>1, <2>2, <2>3, <2>4 DEF Prepared
<1> QED
  BY <1>2, <1>3, CallShape

(* So does one that is left out, for what it depends on is missing, or is   *)
(* not to be relied on, only after a warning or a recorded failure          *)
(* (LeaveOut).                                                              *)
LEMMA LeaveOutPrepares ==
  ASSUME OrderFits, NEW s \in Script, NEW p \in DOMAIN Plan[s],
         NEW T, NEW w \in BOOLEAN, NEW k \in BOOLEAN, NEW u \in BOOLEAN,
         Prepared(s, p, T, w, k, u),
         Plan[s][p].op \in Lenient \cup {"ignore"},
         Lib!Needs(Plan[s][p].on) \ T # {} \/ w \/ k
  PROVE  Prepared(s, p + 1, T, w, k, u)
<1> DEFINE op == Plan[s][p].op
           on == Plan[s][p].on
<1>0. CallFits(s, p)
  BY DEF OrderFits
<1>1. \A ops : Acted(s, p + 1, ops) =
                 Acted(s, p, ops) \cup {t \in {on} : op \in ops}
  BY ActedNext
<1>2. op \notin Deleting /\ op \notin Demanding
  BY DEF Deleting, Demanding, Lenient
<1>3. /\ Cleared(s, p + 1) = Cleared(s, p)
      /\ Acted(s, p + 1, Demanding) = Acted(s, p, Demanding)
  BY <1>1, <1>2, ClearedNext
<1>4. w \/ k
  <2>1. Lib!Needs(on) \subseteq Acted(s, p, Demanding \cup Lenient)
    BY <1>0 DEF CallFits
  <2> QED
    BY <2>1 DEF Prepared
<1>5. Acted(s, p, {"clear", "ignore"}) \subseteq
        Acted(s, p + 1, {"clear", "ignore"})
  BY <1>1
<1>6. Acted(s, p, Creating) \subseteq Acted(s, p + 1, Creating)
  BY <1>1
<1> QED
  BY <1>1, <1>3, <1>4, <1>5, <1>6 DEF Prepared

(* So does one that fails and lets the script go on, whether or not it has  *)
(* had its effect (FailSoftly).                                             *)
LEMMA FailurePrepares ==
  ASSUME OrderFits, NEW s \in Script, NEW p \in DOMAIN Plan[s],
         NEW T, NEW w \in BOOLEAN, NEW k \in BOOLEAN, NEW u \in BOOLEAN,
         Prepared(s, p, T, w, k, u),
         Plan[s][p].op \in {"clear", "try", "skip", "ignore"},
         NEW U, U = T \/ U = Performed(s, p, T),
         NEW ww \in BOOLEAN, ww <=> w \/ Plan[s][p].op = "try",
         NEW kk \in BOOLEAN, kk <=> k \/ Plan[s][p].op = "skip",
         NEW uu \in BOOLEAN,
         uu <=> u \/ Plan[s][p].op \in {"clear", "ignore"}
  PROVE  Prepared(s, p + 1, U, ww, kk, uu)
<1> DEFINE op == Plan[s][p].op
           on == Plan[s][p].on
<1>1. \A ops : Acted(s, p + 1, ops) =
                 Acted(s, p, ops) \cup {t \in {on} : op \in ops}
  BY ActedNext
<1>2. /\ op \notin Demanding
      /\ op \in Lenient <=> op \in {"try", "skip"}
      /\ op \in Deleting <=> op = "clear"
      /\ op \in Creating <=> op # "clear"
  BY DEF Deleting, Demanding, Lenient, Creating
<1>3. Acted(s, p + 1, Demanding) = Acted(s, p, Demanding)
  BY <1>1, <1>2
<1>4. CASE U = Performed(s, p, T)
  <2>1. Prepared(s, p + 1, U, w, k, u)
    BY <1>4, PerformPrepares
  <2>2. op \in {"clear", "ignore"} =>
          Acted(s, p + 1, {"clear", "ignore"}) # {}
    BY <1>1
  <2> QED
    BY <2>1, <2>2 DEF Prepared
<1>5. CASE U = T /\ op \in {"clear", "ignore"}
  <2>1. /\ on \in Acted(s, p + 1, {"clear", "ignore"})
        /\ Acted(s, p + 1, Demanding \cup Lenient)
             = Acted(s, p, Demanding \cup Lenient)
    BY <1>1, <1>2, <1>5
  <2> QED
    BY <1>1, <1>3, <1>5, <2>1 DEF Prepared
<1>6. CASE U = T /\ op \in {"try", "skip"}
  <2>1. /\ Cleared(s, p + 1) = Cleared(s, p)
        /\ Acted(s, p + 1, {"clear", "ignore"})
             = Acted(s, p, {"clear", "ignore"})
    BY <1>1, <1>2, <1>6, ClearedNext
  <2> QED
    BY <1>1, <1>3, <1>6, <2>1 DEF Prepared
<1> QED
  BY <1>4, <1>5, <1>6

(* Prepared for the end, a script that has neither warned nor recorded a    *)
(* failure has made all that it makes and looks at, and all that it makes   *)
(* unless a call failed without a word.                                     *)
LEMMA PreparedIsComplete ==
  ASSUME OrderFits, NEW s \in Script, NEW T, NEW u \in BOOLEAN,
         Prepared(s, Len(Plan[s]) + 1, T, FALSE, FALSE, u)
  PROVE  /\ Makes(s, {"ignore"}) \subseteq T
         /\ ~u => Makes(s, {}) \subseteq T
BY MakesActed DEF Prepared

(* What a run has said of its failures is true or false.                    *)
LEMMA HeardIsBoolean ==
  /\ warned \in BOOLEAN /\ skipped \in BOOLEAN /\ unheard \in BOOLEAN
  /\ warned' \in BOOLEAN /\ skipped' \in BOOLEAN /\ unheard' \in BOOLEAN
BY DEF warned, skipped, unheard

(* A run in which nothing has failed has said nothing.                      *)
LEMMA NothingFailed ==
  failed = {} => warned = FALSE /\ skipped = FALSE /\ unheard = FALSE
BY DEF warned, skipped, unheard

(* Only a failure is heard of.                                              *)
LEMMA NothingNewFailed ==
  ASSUME failed' = failed
  PROVE  warned' = warned /\ skipped' = skipped /\ unheard' = unheard
BY DEF warned, skipped, unheard

(* What is said of a call that fails (FailSoftly).                          *)
LEMMA FailureIsSaid ==
  ASSUME NEW c, failed' = failed \cup {c}
  PROVE  /\ warned' <=> (warned \/ c.op = "try")
         /\ skipped' <=> (skipped \/ c.op = "skip")
         /\ unheard' <=> (unheard \/ c.op \in {"clear", "ignore"})
BY DEF warned, skipped, unheard

(* The script goes on prepared, or ends complete.                           *)
LEMMA AdvanceKeeps ==
  ASSUME OrderFits, script \in Script, pc \in DOMAIN Plan[script],
         status = "running", Advance, script' = script,
         Prepared(script, pc + 1, there', warned', skipped', unheard')
  PROVE  ProvisioningInv'
<1>0. PICK s \in Script : s = script
  OBVIOUS
<1>1. PICK p \in DOMAIN Plan[s] : s = script /\ p = pc
  BY <1>0
<1>2. Len(Plan[s]) \in Nat \ {0} /\ DOMAIN Plan[s] = 1..Len(Plan[s])
  BY CallShape
<1>3. there' \subseteq Leftovers(s)
  BY <1>1 DEF Prepared
<1>4. CASE p < Len(Plan[s])
  <2>1. pc' = p + 1 /\ status' = "running" /\ p + 1 \in DOMAIN Plan[s]
    BY <1>1, <1>2, <1>4 DEF Advance, HasMore
  <2> QED
    BY <1>1, <1>3, <2>1 DEF ProvisioningInv, DoneIsComplete
<1>5. CASE ~(p < Len(Plan[s]))
  <2>1. /\ pc' = p /\ p = Len(Plan[s])
        /\ status' = IF skipped' THEN "failed" ELSE "done"
    BY <1>1, <1>2, <1>5 DEF Advance, HasMore
  <2>2. status' = "done" /\ ~warned' =>
          /\ Makes(s, {"ignore"}) \subseteq there'
          /\ ~unheard' => Makes(s, {}) \subseteq there'
    <3> SUFFICES ASSUME status' = "done", ~warned'
                 PROVE  /\ Makes(s, {"ignore"}) \subseteq there'
                        /\ ~unheard' => Makes(s, {}) \subseteq there'
      OBVIOUS
    <3>1. skipped' = FALSE /\ warned' = FALSE
      BY <2>1, HeardIsBoolean
    <3>2. Prepared(s, Len(Plan[s]) + 1, there', FALSE, FALSE, unheard')
      BY <1>1, <2>1, <3>1, HeardIsBoolean
    <3> QED
      BY <3>2, PreparedIsComplete, HeardIsBoolean
  <2>3. status' # "running"
    BY <2>1
  <2> QED
    BY <1>1, <1>3, <2>1, <2>2, <2>3 DEF ProvisioningInv, DoneIsComplete
<1> QED
  BY <1>4, <1>5

LEMMA InitProvisioning ==
  ASSUME OrderFits, ProvisioningInit
  PROVE  ProvisioningInv
<1>1. PICK s \in Script : s = script
  BY DEF ProvisioningInit
<1>2. 1 \in DOMAIN Plan[s]
  BY CallShape
<1>3. pc = 1 /\ status = "idle" /\ there = {}
  BY DEF ProvisioningInit
<1> QED
  BY <1>1, <1>2, <1>3 DEF ProvisioningInv, DoneIsComplete

LEMMA NextProvisioning ==
  ASSUME OrderFits, ProvisioningInv,
         [ProvisioningNext]_provisioningVars
  PROVE  ProvisioningInv'
<1>0. PICK s \in Script : s = script
  BY DEF ProvisioningInv
<1>1. PICK p \in DOMAIN Plan[s] : s = script /\ p = pc
  BY <1>0 DEF ProvisioningInv
<1>t. /\ there \subseteq Leftovers(s)
      /\ status = "running" => Prepared(s, p, there, warned, skipped, unheard)
  BY <1>1 DEF ProvisioningInv
<1>u. /\ warned \in BOOLEAN /\ skipped \in BOOLEAN /\ unheard \in BOOLEAN
      /\ warned' \in BOOLEAN /\ skipped' \in BOOLEAN /\ unheard' \in BOOLEAN
  BY HeardIsBoolean
<1>2. CASE Start
  <2>1. PICK t \in Family(s) : script' = t
    BY <1>1, <1>2 DEF Start
  <2>2. t \in Script /\ there' \subseteq Leftovers(t)
    BY <1>2, <1>t, FamilyShares DEF Start
  <2>3. /\ pc' = FirstCall /\ status' = "running"
        /\ warned' = FALSE /\ skipped' = FALSE /\ unheard' = FALSE
    BY <1>2 DEF Start, warned, skipped, unheard
  <2>4. FirstCall \in DOMAIN Plan[t]
    BY <2>2, CallShape DEF FirstCall
  <2>5. Prepared(t, FirstCall, there', FALSE, FALSE, FALSE)
    BY <2>2, FirstIsPrepared
  <2> QED
    BY <2>1, <2>2, <2>3, <2>4, <2>5 DEF ProvisioningInv, DoneIsComplete
<1>3. CASE Perform
  <2>1. /\ status = "running" /\ Advance /\ script' = script
        /\ failed' = failed /\ there' = Performed(s, p, there)
    BY <1>1, <1>3 DEF Perform, Effect, Performed, Call, Deletes, Deleting
  <2>2. Prepared(s, p + 1, there', warned', skipped', unheard')
    BY <1>t, <1>u, <2>1, PerformPrepares, NothingNewFailed
  <2> QED
    BY <1>1, <1>t, <2>1, <2>2, AdvanceKeeps
<1>4. CASE LeaveOut
  <2>1. /\ status = "running" /\ Advance /\ script' = script
        /\ there' = there /\ failed' = failed
        /\ Plan[s][p].op \in Lenient \cup {"ignore"}
        /\ Lib!Needs(Plan[s][p].on) \ there # {} \/ Abandoned # {}
    BY <1>1, <1>4 DEF LeaveOut, LeftOut, MissingNeeds, Call, Lenient
  <2>3. Abandoned # {} => warned \/ skipped
    BY DEF Abandoned, warned, skipped
  <2>2. Prepared(s, p + 1, there', warned', skipped', unheard')
    BY <1>t, <1>u, <2>1, <2>3, LeaveOutPrepares, NothingNewFailed
  <2> QED
    BY <1>1, <1>t, <2>1, <2>2, AdvanceKeeps
<1>5. CASE FailSoftly
  <2>1. /\ status = "running" /\ Advance /\ script' = script
        /\ there' = there \/ there' = Performed(s, p, there)
        /\ Plan[s][p].op \in {"clear", "try", "skip", "ignore"}
        /\ failed' = failed \cup {Plan[s][p]}
    BY <1>1, <1>5
       DEF FailSoftly, Effect, Performed, Call, Deletes, Deleting
  <2>3. /\ warned' <=> (warned \/ Plan[s][p].op = "try")
        /\ skipped' <=> (skipped \/ Plan[s][p].op = "skip")
        /\ unheard' <=> (unheard \/ Plan[s][p].op \in {"clear", "ignore"})
    BY <2>1, FailureIsSaid
  <2>4. Prepared(s, p, there, warned, skipped, unheard)
    BY <1>t, <2>1
  <2>2. Prepared(s, p + 1, there', warned', skipped', unheard')
    BY <1>u, <2>1, <2>3, <2>4, FailurePrepares
  <2> QED
    BY <1>1, <2>1, <2>2, AdvanceKeeps
<1>6. CASE Refuse
  <2>1. /\ status' = "failed"
        /\ UNCHANGED <<script, pc, there>>
    BY <1>6 DEF Refuse
  <2> QED
    BY <1>1, <1>t, <2>1 DEF ProvisioningInv, DoneIsComplete
<1>7. CASE BreakDown
  <2>1. /\ status = "running" /\ status' = "failed"
        /\ there' = Performed(s, p, there) \/ there' = there
        /\ UNCHANGED <<script, pc>>
    BY <1>1, <1>7
       DEF BreakDown, Effect, Performed, Call, Deletes, Deleting
  <2>2. there' \subseteq Leftovers(s)
    BY <1>t, <1>u, <2>1, PerformPrepares DEF Prepared
  <2> QED
    BY <1>1, <1>t, <2>1, <2>2 DEF ProvisioningInv, DoneIsComplete
<1>8. CASE AddRows \/ UNCHANGED provisioningVars
  <2>1. UNCHANGED <<script, pc, status, there, failed>>
    BY <1>8 DEF AddRows, provisioningVars
  <2> QED
    BY <2>1, NothingNewFailed DEF ProvisioningInv, DoneIsComplete
<1> QED
  BY <1>2, <1>3, <1>4, <1>5, <1>6, <1>7, <1>8 DEF ProvisioningNext

(* When the calls are in order, whatever an earlier run of either seed, of  *)
(* the realm set-up or of the workflow set-up has left, broken off at any   *)
(* call and any number of times, only rows of the application can keep      *)
(* cleanup() from emptying a table, and no creation trips over what is      *)
(* there or is missing, unless the DELETE of the realm failed unseen.       *)
THEOREM ScriptsNeverBlockThemselves ==
  ASSUME OrderFits
  PROVE  ProvisioningSpec => []OwnRowsNeverBlock
<1>1. ProvisioningInv => OwnRowsNeverBlock
  <2> SUFFICES ASSUME ProvisioningInv, status = "running"
               PROVE  /\ Call.op = "wipe" => Lib!Blockers(Call.on) \cap there = {}
                      /\ Refused => Call.op = "wipe" \/ unheard
    BY DEF OwnRowsNeverBlock
  <2>0. PICK s \in Script : s = script
    BY DEF ProvisioningInv
  <2>1. PICK p \in DOMAIN Plan[s] : s = script /\ p = pc
    BY <2>0 DEF ProvisioningInv
  <2>2. Prepared(s, p, there, warned, skipped, unheard) /\ CallFits(s, p)
    BY <2>1 DEF ProvisioningInv, OrderFits
  <2>3. Call = Plan[s][p]
    BY <2>1 DEF Call
  <2>4. ASSUME Call.op = "wipe" PROVE Lib!Blockers(Call.on) \cap there = {}
    <3>1. /\ Lib!Blockers(Call.on) \cap Leftovers(s) \subseteq Cleared(s, p)
          /\ Acted(s, p, {"clear", "ignore"}) = {}
          /\ Acted(s, p, Creating) = {}
      BY <2>2, <2>3, <2>4 DEF CallFits, Deleting
    <3>2. ~unheard
      BY <2>2, <3>1 DEF Prepared
    <3> QED
      BY <2>2, <3>1, <3>2 DEF Prepared
  <2>5. ASSUME Call.op \in {"fill", "upsert"} PROVE MissingNeeds = {}
    <3>1. Lib!Needs(Call.on) \subseteq Acted(s, p, Demanding)
      BY <2>2, <2>3, <2>5 DEF CallFits, Demanding
    <3> QED
      BY <2>2, <3>1 DEF Prepared, MissingNeeds
  <2>6. ASSUME Call.op = "fill", ~unheard PROVE Call.on \notin there
    <3>1. Call.on \in Cleared(s, p) \ Acted(s, p, Creating)
      BY <2>2, <2>3, <2>6 DEF CallFits
    <3> QED
      BY <2>2, <2>6, <3>1 DEF Prepared
  <2> QED
    BY <2>4, <2>5, <2>6 DEF Refused
<1> QED
  BY InitProvisioning, NextProvisioning, <1>1, PTL DEF ProvisioningSpec

(* When the calls are in order, a script that ends well and without a       *)
(* warning has made all that it makes and looks at, after any number of     *)
(* runs that were broken off before (main of each script).                  *)
THEOREM WellEndedIsComplete ==
  ASSUME OrderFits
  PROVE  ProvisioningSpec => []DoneIsComplete
<1>1. ProvisioningInv => DoneIsComplete
  BY DEF ProvisioningInv
<1> QED
  BY InitProvisioning, NextProvisioning, <1>1, PTL DEF ProvisioningSpec
===============================================================================
