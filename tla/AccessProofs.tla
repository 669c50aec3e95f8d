----------------------------- MODULE AccessProofs -----------------------------
(****************************************************************************)
(* Theorems about Access, for any number of requests, users and portals,    *)
(* any expiry of the cache and any window of the limiter.                   *)
(****************************************************************************)
EXTENDS Access, TLAPS

-----------------------------------------------------------------------------
(* The states of a request                                                  *)

(* A request is the record that its pc says, of api.ts or of the server.    *)
LEMMA Shape ==
  ASSUME NEW x \in RequestState
  PROVE  /\ x.pc \in {"Idle", "Queued", "Refreshing", "Answered"} \cup OnServer
         /\ x.pc = "Idle" => x = Idle
         /\ x.pc = "Queued" => x = Queued
         /\ x.pc = "Refreshing" => x = Refreshing
         /\ x.pc \in {"Sent", "Counted"} =>
              x \in [pc : {"Sent", "Counted"}, try : Try,
                     token : {"good", "stale"}]
         /\ x.pc = "Expiring" =>
              x \in [pc : {"Expiring"}, try : Try, token : {"good", "stale"},
                     over : BOOLEAN]
         /\ x.pc = "Lookup" => x \in [pc : {"Lookup"}, try : Try]
         /\ x.pc = "Looked" =>
              x \in [pc : {"Looked"}, try : Try, seen : Identity, ago : Age]
         /\ x.pc = "Answered" => x \in [pc : {"Answered"}, answer : Answer]
  BY DEF RequestState, Idle, Queued, Refreshing, OnServer

(* A request that the browser forgets keeps its type.                       *)
LEMMA ForgottenIsState ==
  ASSUME NEW x \in RequestState PROVE Forgotten(x) \in RequestState
<1>1. CASE x.pc \in {"Sent", "Counted"}
  BY <1>1, Shape DEF Forgotten, OnServer, RequestState, Try
<1>2. CASE x.pc = "Expiring"
  BY <1>2, Shape DEF Forgotten, OnServer, RequestState, Try
<1>3. CASE x.pc = "Lookup"
  BY <1>3, Shape DEF Forgotten, OnServer, RequestState, Try
<1>4. CASE x.pc = "Looked"
  BY <1>4, Shape DEF Forgotten, OnServer, RequestState, Try
<1>5. CASE x.pc \notin OnServer
  BY <1>5 DEF Forgotten, RequestState
<1> QED BY <1>1, <1>2, <1>3, <1>4, <1>5, Shape DEF OnServer

(* So does one that is answered.                                            *)
LEMMA AnsweredIsState ==
  ASSUME NEW x, NEW a \in Answer PROVE Answered(x, a) \in RequestState
  BY DEF Answered, RequestState

(* And one that has been counted.                                           *)
LEMMA JudgedIsState ==
  ASSUME NEW x \in RequestState, x.pc \in {"Sent", "Expiring"}, NEW over
  PROVE  Counted(x) \in RequestState /\ Judged(x, over) \in RequestState
<1>1. x.try \in Try /\ x.token \in {"good", "stale"}
  BY Shape
<1>2. Counted(x) \in RequestState
  BY <1>1 DEF Counted, RequestState
<1>3. "limited" \in Answer
  BY DEF Answer
<1> QED BY <1>2, <1>3, AnsweredIsState DEF Judged

-----------------------------------------------------------------------------
(* The type invariant                                                       *)

LEMMA InitTypeOK == Init => TypeOK
<1> SUFFICES ASSUME Init PROVE TypeOK
  OBVIOUS
<1>1. req \in [Request -> RequestState]
  BY DEF Init, RequestState
<1>2. /\ redis \in [hits : 0 .. (Max + 1), left : (1 .. Window) \cup {Unset}]
      /\ faults \in 0 .. MaxFaults
  BY AccessAssumption DEF Init, NoKey, Unset
<1>3. trueAgo \in [Identity -> Age]
  BY AccessAssumption DEF Init, Age
<1> QED BY <1>1, <1>2, <1>3 DEF Init, TypeOK

(* Where the client goes is a portal, the dashboard or the login page.      *)
LEMMA Homes ==
  /\ \A roles : HomeOf(roles) \in DOMAIN PortalRoles \cup {"dashboard"}
  /\ \A roles : \A p \in Portal :
       Landing(roles, p) \in DOMAIN PortalRoles \cup {"dashboard"}
<1>1. DOMAIN PortalRoles = {"admin", "academic", "student", "applicant"}
  BY DEF PortalRoles
<1>2. \A roles : HomeOf(roles) \in DOMAIN PortalRoles \cup {"dashboard"}
  BY <1>1 DEF HomeOf
<1> QED BY <1>2, AccessAssumption DEF Landing

(* The start of the client.                                                 *)
LEMMA StartingTypeOK == TypeOK /\ Starting => TypeOK'
<1> SUFFICES ASSUME TypeOK, Starting PROVE TypeOK'
  OBVIOUS
<1> USE DEF browser, identity, limiter
<1>1. ASSUME NEW p, NEW route, Load(p, route),
             p \in Portal \cup {Nowhere},
             route \in DOMAIN PortalRoles \cup {Nowhere, "login", "dashboard"}
      PROVE  TypeOK'
  <2>1. req' \in [Request -> RequestState]
    BY <1>1, ForgottenIsState DEF Load, TypeOK
  <2> QED BY <1>1, <2>1 DEF Load, TypeOK
<1>2. ASSUME NEW b \in BOOLEAN, KeycloakAnswers(b) PROVE TypeOK'
  <2>1. hash' \in DOMAIN PortalRoles \cup {Nowhere, "login", "dashboard"}
    BY <1>2, Homes DEF KeycloakAnswers, Shown, Chosen, Cleaned, TypeOK
  <2> QED BY <1>2, <2>1 DEF KeycloakAnswers, Cleaned, TypeOK
<1>3. ASSUME NEW b \in BOOLEAN, KeycloakAnswersLate(b) PROVE TypeOK'
  BY <1>3 DEF KeycloakAnswersLate, Cleaned, TypeOK
<1>4. CASE InitTimesOut
  BY <1>4 DEF InitTimesOut, TypeOK
<1>5. CASE Retry
  BY <1>5, <1>1 DEF Retry, TypeOK
<1>6. CASE SignOut
  BY <1>6, <1>1 DEF SignOut
<1>7. ASSUME NEW p \in Portal, SignIn(p) PROVE TypeOK'
  BY <1>7, <1>1 DEF SignIn
<1>8. ASSUME NEW p \in Portal, Open_(p) PROVE TypeOK'
  <2>1. hash' \in DOMAIN PortalRoles \cup {"dashboard"}
    BY <1>8, Homes DEF Open_
  <2> QED BY <1>8, <2>1 DEF Open_, TypeOK
<1> QED BY <1>2, <1>3, <1>4, <1>5, <1>6, <1>7, <1>8 DEF Starting

(* Who is signed in has a token, fresh or stale.                            *)
SignedIn == page = "in" => token # "none"

LEMMA StaysSignedIn == TypeOK /\ SignedIn /\ [Next]_vars => SignedIn'
<1> SUFFICES ASSUME TypeOK, SignedIn, [Next]_vars PROVE SignedIn'
  OBVIOUS
<1> USE DEF SignedIn, browser, identity, limiter
<1>1. CASE Starting
  BY <1>1 DEF Starting, KeycloakAnswers, KeycloakAnswersLate, InitTimesOut,
     Retry, SignOut, SignIn, Open_, Load
<1>2. ASSUME NEW r \in Request, InBrowser(r) PROVE SignedIn'
  BY <1>2 DEF InBrowser, Send, Settle, JoinQueue, StartRefresh, GiveUp,
     RefreshSucceeds, RefreshFails
<1>3. ASSUME NEW r \in Request, Handled(r) \/ RedisFails(r) PROVE SignedIn'
  BY <1>3 DEF Handled, Hit, SetExpiry, Reject, AnswerAtOnce, AnswerFromCache,
     AskDirectory, Look, Remember, LookFails, RedisFails
<1>4. CASE World
  BY <1>4 DEF World, Relink, TokenExpires, AutoRefresh, Tick
<1>5. CASE UNCHANGED vars
  BY <1>5 DEF vars
<1> QED BY <1>1, <1>2, <1>3, <1>4, <1>5 DEF Next

(* The requests in the browser.                                             *)
LEMMA BrowserTypeOK ==
  ASSUME TypeOK, SignedIn, NEW r \in Request, InBrowser(r) PROVE TypeOK'
<1> USE DEF browser, identity, limiter
<1>a. \A t \in {"first", "second"} :
        token' \in {"good", "stale"} => Fresh(t) \in RequestState
  BY DEF Fresh, RequestState, Try
<1>b. {Idle, Queued, Refreshing} \subseteq RequestState
  BY DEF RequestState
<1>1. CASE Send(r)
  <2>1. token' = token /\ token' \in {"good", "stale"}
    BY <1>1 DEF Send, SignedIn, TypeOK
  <2>2. Fresh("first") \in RequestState
    BY <1>a, <2>1
  <2>3. req' \in [Request -> RequestState]
    BY <1>1, <2>2 DEF Send, TypeOK
  <2> QED BY <1>1, <2>3 DEF Send, TypeOK
<1>2. CASE Settle(r)
  BY <1>2, <1>b DEF Settle, TypeOK
<1>3. CASE JoinQueue(r)
  BY <1>3, <1>b DEF JoinQueue, TypeOK
<1>4. CASE StartRefresh(r)
  BY <1>4, <1>b DEF StartRefresh, TypeOK
<1>5. CASE GiveUp(r)
  BY <1>5, ForgottenIsState DEF GiveUp, TypeOK
<1>6. ASSUME NEW new \in {"good", token}, RefreshSucceeds(r, new)
      PROVE  TypeOK'
  <2>1. token' \in {"good", "stale"}
    BY <1>6 DEF RefreshSucceeds, TypeOK
  <2>2. req' \in [Request -> RequestState]
    BY <1>6, <1>a, <2>1 DEF RefreshSucceeds, TypeOK
  <2> QED BY <1>6, <2>1, <2>2 DEF RefreshSucceeds, TypeOK
<1>7. ASSUME NEW over \in BOOLEAN, RefreshFails(r, over) PROVE TypeOK'
  <2>1. hash' \in DOMAIN PortalRoles \cup {Nowhere, "login", "dashboard"}
    BY <1>7, Homes DEF RefreshFails
  <2> QED BY <1>7, <1>b, <2>1 DEF RefreshFails, TypeOK
<1> QED BY <1>1, <1>2, <1>3, <1>4, <1>5, <1>6, <1>7 DEF InBrowser

(* What a caller hears on any route is an answer, or asks who the caller is. *)
LEMMA OutcomesAreAnswers ==
  \A roles : Outcomes(roles) \subseteq Answer \cup {"identity", "owner"}
  BY DEF Outcomes, Hears, Answer, Scoped, Owned, ModuleFiltered

(* The requests on the server.                                              *)
LEMMA HandledTypeOK ==
  ASSUME TypeOK, NEW r \in Request, Handled(r) \/ RedisFails(r)
  PROVE  TypeOK'
<1> USE DEF browser, identity, limiter
<1> DEFINE Counter == [hits : 0 .. (Max + 1), left : (1 .. Window) \cup {Unset}]
<1>a. req[r] \in RequestState /\ redis \in Counter
  BY DEF TypeOK
<1>b. Incremented \in Counter
  BY <1>a, AccessAssumption DEF Incremented, Hits
<1>c. Bounded \in Counter
  BY <1>a, AccessAssumption DEF Bounded
<1>d. /\ \A is : Replies(is) \subseteq Answer
      /\ {"unauthorised", "refused", "failed"} \subseteq Answer
  BY DEF Replies, Answer
<1>1. CASE Hit(r)
  <2>1. req[r].try \in Try /\ req[r].token \in {"good", "stale"}
    BY <1>1, <1>a, Shape DEF Hit
  <2>2. Judged(req[r], Hits > Max) \in RequestState
    BY <1>1, <1>a, JudgedIsState DEF Hit
  <2>3. [pc |-> "Expiring", try |-> req[r].try, token |-> req[r].token,
         over |-> Hits > Max] \in RequestState
    BY <2>1 DEF RequestState
  <2>4. req' \in [Request -> RequestState]
    BY <1>1, <2>2, <2>3 DEF Hit, TypeOK
  <2> QED BY <1>1, <1>b, <2>4 DEF Hit, TypeOK
<1>2. CASE SetExpiry(r)
  <2>1. req' \in [Request -> RequestState]
    BY <1>2, <1>a, JudgedIsState DEF SetExpiry, TypeOK
  <2> QED BY <1>2, <1>c, <2>1 DEF SetExpiry, TypeOK
<1>3. CASE RedisFails(r)
  <2>1. req' \in [Request -> RequestState]
    BY <1>3, <1>a, JudgedIsState DEF RedisFails, TypeOK
  <2>2. faults' \in 0 .. MaxFaults
    BY <1>3, AccessAssumption DEF RedisFails, TypeOK
  <2> QED BY <1>3, <1>a, <1>b, <1>c, <2>1, <2>2 DEF RedisFails, TypeOK
<1>4. CASE Reject(r)
  BY <1>4, <1>d, AnsweredIsState DEF Reject, TypeOK
<1>5. CASE AnswerAtOnce(r)
  <2>1. \A a \in Heard[who] \ {"identity", "owner"} : a \in Answer
    BY OutcomesAreAnswers DEF Heard, TypeOK
  <2> QED BY <1>5, <2>1, AnsweredIsState DEF AnswerAtOnce, TypeOK
<1>6. CASE AnswerFromCache(r)
  BY <1>6, <1>d, AnsweredIsState DEF AnswerFromCache, TypeOK
<1>7. CASE AskDirectory(r)
  <2>1. [pc |-> "Lookup", try |-> req[r].try] \in RequestState
    BY <1>7, <1>a, Shape DEF AskDirectory, RequestState
  <2> QED BY <1>7, <2>1 DEF AskDirectory, TypeOK
<1>8. CASE Look(r)
  <2>1. [pc |-> "Looked", try |-> req[r].try, seen |-> directory, ago |-> 0]
          \in RequestState
    BY <1>8, <1>a, Shape, AccessAssumption DEF Look, RequestState, TypeOK, Age
  <2> QED BY <1>8, <2>1 DEF Look, TypeOK
<1>9. CASE Remember(r)
  <2>1. req[r].seen \in Identity
    BY <1>9, <1>a, Shape DEF Remember
  <2>2. entry' \in [is : Identity, age : 0 .. (TTL + 1)]
    BY <1>9, <2>1, AccessAssumption DEF Remember
  <2> QED BY <1>9, <1>d, <2>2, AnsweredIsState DEF Remember, TypeOK
<1>10. CASE LookFails(r)
  BY <1>10, <1>d, AnsweredIsState DEF LookFails, TypeOK
<1> QED BY <1>1, <1>2, <1>3, <1>4, <1>5, <1>6, <1>7, <1>8, <1>9, <1>10
     DEF Handled

(* Time, the directory and Keycloak.                                        *)
LEMMA WorldTypeOK == TypeOK /\ World => TypeOK'
<1> SUFFICES ASSUME TypeOK, World PROVE TypeOK'
  OBVIOUS
<1> USE DEF browser, identity, limiter
<1>1. CASE Relink
  <2>1. trueAgo' \in [Identity -> Age]
    BY <1>1, AccessAssumption DEF Relink, TypeOK, Age
  <2> QED BY <1>1, <2>1 DEF Relink, TypeOK
<1>2. CASE TokenExpires
  <2>1. ASSUME NEW r \in Request, req[r].pc \in {"Sent", "Expiring", "Counted"}
        PROVE  [req[r] EXCEPT !.token = "stale"] \in RequestState
    <3>1. req[r] \in RequestState
      BY DEF TypeOK
    <3>2. CASE req[r].pc = "Expiring"
      BY <3>1, <3>2, Shape DEF RequestState
    <3>3. CASE req[r].pc \in {"Sent", "Counted"}
      BY <3>1, <3>3, Shape DEF RequestState
    <3> QED BY <2>1, <3>2, <3>3
  <2>2. req' \in [Request -> RequestState]
    BY <1>2, <2>1 DEF TokenExpires, TypeOK
  <2> QED BY <1>2, <2>2 DEF TokenExpires, TypeOK
<1>3. CASE AutoRefresh
  BY <1>3 DEF AutoRefresh, TypeOK
<1>4. CASE Tick
  <2>1. ASSUME NEW r \in Request, req[r].pc = "Looked"
        PROVE  [req[r] EXCEPT !.ago = @ + 1] \in RequestState
    <3>1. req[r] \in [pc : {"Looked"}, try : Try, seen : Identity, ago : Age]
      BY <2>1, Shape DEF TypeOK
    <3>2. req[r].ago + 1 \in Age
      BY <1>4, <2>1, <3>1, AccessAssumption DEF Tick, Age
    <3> QED BY <3>1, <3>2 DEF RequestState
  <2>2. req' \in [Request -> RequestState]
    BY <1>4, <2>1 DEF Tick, TypeOK
  <2>3. trueAgo' \in [Identity -> Age]
    BY <1>4, AccessAssumption DEF Tick, TypeOK, Age, Older
  <2>4. entry' \in [is : Identity, age : 0 .. (TTL + 1)] \cup {NoEntry}
    BY <1>4, AccessAssumption DEF Tick, TypeOK
  <2>5. redis' \in [hits : 0 .. (Max + 1), left : (1 .. Window) \cup {Unset}]
    BY <1>4, AccessAssumption DEF Tick, TypeOK, Ageing, NoKey, Unset
  <2> QED BY <1>4, <2>2, <2>3, <2>4, <2>5 DEF Tick, TypeOK
<1> QED BY <1>1, <1>2, <1>3, <1>4 DEF World

LEMMA NextTypeOK == TypeOK /\ SignedIn /\ [Next]_vars => TypeOK'
<1> SUFFICES ASSUME TypeOK, SignedIn, [Next]_vars PROVE TypeOK'
  OBVIOUS
<1>1. CASE UNCHANGED vars
  BY <1>1 DEF vars, browser, identity, limiter, TypeOK
<1> QED BY <1>1, StartingTypeOK, BrowserTypeOK, HandledTypeOK, WorldTypeOK
     DEF Next

(* Every variable keeps its type, for any number of requests, any roles and  *)
(* any expiry, and who is signed in has a token to send: the interceptor of  *)
(* api.ts never sends a request without one.                                 *)
THEOREM TypeCorrect == Spec => [](TypeOK /\ SignedIn)
<1>1. Init => TypeOK /\ SignedIn
  BY InitTypeOK DEF Init, SignedIn
<1>2. TypeOK /\ SignedIn /\ [Next]_vars => (TypeOK /\ SignedIn)'
  BY NextTypeOK, StaysSignedIn
<1> QED BY <1>1, <1>2, PTL DEF Spec

-----------------------------------------------------------------------------
(* One refresh for all                                                      *)

(* isRefreshing is set exactly while one request refreshes, and only then    *)
(* is anybody in failedQueue (api.ts).                                       *)
RefreshInv ==
  /\ OneRefreshForAll
  /\ refreshing <=> \E r \in Request : req[r] = Refreshing

Waits(x) == x \in {Queued, Refreshing}

(* A step that moves no request into or out of the queue or the refresh      *)
(* leaves RefreshInv as it is.                                               *)
LEMMA Apart ==
  ASSUME RefreshInv, refreshing' = refreshing,
         \A q \in Request : Waits(req[q]) \/ Waits(req'[q]) => req'[q] = req[q]
  PROVE  RefreshInv'
<1>1. \A q \in Request : (req'[q] = Queued <=> req[q] = Queued)
                       /\ (req'[q] = Refreshing <=> req[q] = Refreshing)
  BY DEF Waits
<1> QED BY <1>1 DEF RefreshInv, OneRefreshForAll, Queued, Refreshing

(* Of one request: neither what it was nor what it becomes waits.            *)
LEMMA ApartAt ==
  ASSUME TypeOK, RefreshInv, refreshing' = refreshing, NEW r \in Request,
         NEW x, req' = [req EXCEPT ![r] = x], ~Waits(req[r]), ~Waits(x)
  PROVE  RefreshInv'
<1>1. \A q \in Request : Waits(req[q]) \/ Waits(req'[q]) => req'[q] = req[q]
  BY DEF TypeOK
<1> QED BY <1>1, Apart

LEMMA NotWaiting ==
  /\ \A x : x.pc \notin {"Queued", "Refreshing"} => ~Waits(x)
  /\ \A x, a : ~Waits(Answered(x, a))
  /\ \A x : ~Waits(Counted(x))
  /\ \A x, over : ~Waits(Judged(x, over))
<1>1. \A x : x.pc \notin {"Queued", "Refreshing"} => ~Waits(x)
  BY DEF Waits, Queued, Refreshing
<1>2. \A x, a : Answered(x, a).pc \notin {"Queued", "Refreshing"}
  BY DEF Answered, Idle
<1>3. \A x : Counted(x).pc \notin {"Queued", "Refreshing"}
  BY DEF Counted
<1> QED BY <1>1, <1>2, <1>3 DEF Judged

LEMMA ForgottenWaitsNot ==
  ASSUME NEW x \in RequestState PROVE ~Waits(Forgotten(x))
<1>1. CASE x.pc \in OnServer
  <2>1. Forgotten(x).pc = x.pc
    BY <1>1, Shape DEF Forgotten, OnServer
  <2> QED BY <1>1, <2>1, NotWaiting DEF OnServer
<1>2. CASE x.pc \notin OnServer
  BY <1>2, NotWaiting DEF Forgotten, Idle
<1> QED BY <1>1, <1>2

(* A page that is loaded again has no request that waits.                    *)
LEMMA LoadRefresh ==
  ASSUME TypeOK, NEW p, NEW route, Load(p, route) PROVE RefreshInv'
<1>1. \A q \in Request : ~Waits(req'[q])
  BY ForgottenWaitsNot DEF Load, TypeOK
<1> QED BY <1>1 DEF Load, RefreshInv, OneRefreshForAll, Waits

LEMMA StartingRefresh ==
  ASSUME TypeOK, RefreshInv, Starting PROVE RefreshInv'
<1>1. CASE Retry \/ SignOut \/ \E p \in Portal : SignIn(p)
  BY <1>1, LoadRefresh DEF Retry, SignOut, SignIn
<1>2. CASE UNCHANGED <<refreshing, req>>
  BY <1>2 DEF RefreshInv, OneRefreshForAll
<1> QED BY <1>1, <1>2 DEF Starting, KeycloakAnswers, KeycloakAnswersLate,
     InitTimesOut, Open_

LEMMA BrowserRefresh ==
  ASSUME TypeOK, RefreshInv, NEW r \in Request, InBrowser(r)
  PROVE  RefreshInv'
<1>a. ~Waits(Idle) /\ \A t : ~Waits(Fresh(t))
  BY NotWaiting DEF Idle, Fresh
<1>b. req[r].pc = "Answered" => ~Waits(req[r])
  BY NotWaiting
<1>1. CASE Send(r)
  BY <1>1, <1>a, ApartAt DEF Send
<1>2. CASE Settle(r)
  BY <1>2, <1>a, <1>b, ApartAt DEF Settle
<1>3. CASE JoinQueue(r)
  <2>1. /\ req' = [req EXCEPT ![r] = Queued]
        /\ refreshing' = refreshing /\ refreshing /\ req[r] # Refreshing
    BY <1>3, <1>b DEF JoinQueue, Unauthorised, Waits
  <2>2. \A q \in Request : req'[q] = Refreshing <=> req[q] = Refreshing
    BY <2>1 DEF TypeOK, Queued, Refreshing
  <2> QED BY <2>1, <2>2 DEF RefreshInv, OneRefreshForAll
<1>4. CASE StartRefresh(r)
  <2>1. /\ req' = [req EXCEPT ![r] = Refreshing]
        /\ refreshing' /\ ~refreshing
    BY <1>4 DEF StartRefresh
  <2>2. \A q \in Request : req'[q] = Refreshing <=> q = r
    BY <2>1 DEF RefreshInv, TypeOK
  <2> QED BY <2>1, <2>2 DEF RefreshInv, OneRefreshForAll
<1>5. CASE GiveUp(r)
  <2>1. ~Waits(req[r]) /\ ~Waits(Forgotten(req[r]))
    BY <1>5, NotWaiting, ForgottenWaitsNot DEF GiveUp, OnServer, TypeOK
  <2> QED BY <1>5, <2>1, ApartAt DEF GiveUp
<1>6. ASSUME NEW new \in {"good", token}, RefreshSucceeds(r, new)
      PROVE  RefreshInv'
  <2>1. \A q \in Request : req[q] = Refreshing => q = r
    BY <1>6 DEF RefreshSucceeds, RefreshInv, OneRefreshForAll
  <2>2. \A q \in Request : ~Waits(req'[q])
    BY <1>6, <1>a, <2>1 DEF RefreshSucceeds, Waits, TypeOK
  <2> QED BY <1>6, <2>2 DEF RefreshSucceeds, RefreshInv, OneRefreshForAll,
       Waits
<1>7. ASSUME NEW over \in BOOLEAN, RefreshFails(r, over) PROVE RefreshInv'
  <2>1. \A q \in Request : req[q] = Refreshing => q = r
    BY <1>7 DEF RefreshFails, RefreshInv, OneRefreshForAll
  <2>2. \A q \in Request : ~Waits(req'[q])
    BY <1>7, <1>a, <2>1 DEF RefreshFails, Rejected, Waits, TypeOK
  <2> QED BY <1>7, <2>2 DEF RefreshFails, RefreshInv, OneRefreshForAll, Waits
<1> QED BY <1>1, <1>2, <1>3, <1>4, <1>5, <1>6, <1>7 DEF InBrowser

LEMMA ServerRefresh ==
  ASSUME TypeOK, RefreshInv, NEW r \in Request, Handled(r) \/ RedisFails(r)
  PROVE  RefreshInv'
<1>1. ~Waits(req[r]) /\ refreshing' = refreshing
  BY NotWaiting DEF Handled, Hit, SetExpiry, Reject, AnswerAtOnce,
     AnswerFromCache, AskDirectory, Look, Remember, LookFails, RedisFails
<1>2. CASE Hit(r)
  <2>1. ~Waits([pc |-> "Expiring", try |-> req[r].try,
                token |-> req[r].token, over |-> Hits > Max])
    BY NotWaiting
  <2> QED BY <1>1, <1>2, <2>1, NotWaiting, ApartAt DEF Hit
<1>3. CASE SetExpiry(r) \/ RedisFails(r)
  BY <1>1, <1>3, NotWaiting, ApartAt DEF SetExpiry, RedisFails
<1>4. CASE Reject(r) \/ LookFails(r)
  BY <1>1, <1>4, NotWaiting, ApartAt DEF Reject, LookFails
<1>5. CASE AnswerAtOnce(r) \/ AnswerFromCache(r) \/ Remember(r)
  <2>1. PICK answer : req' = [req EXCEPT ![r] = Answered(req[r], answer)]
    BY <1>5 DEF AnswerAtOnce, AnswerFromCache, Remember
  <2> QED BY <1>1, <2>1, NotWaiting, ApartAt
<1>6. CASE AskDirectory(r)
  <2>1. ~Waits([pc |-> "Lookup", try |-> req[r].try])
    BY NotWaiting
  <2> QED BY <1>1, <1>6, <2>1, ApartAt DEF AskDirectory
<1>7. CASE Look(r)
  <2>1. ~Waits([pc |-> "Looked", try |-> req[r].try, seen |-> directory,
                ago |-> 0])
    BY NotWaiting
  <2> QED BY <1>1, <1>7, <2>1, ApartAt DEF Look
<1> QED BY <1>2, <1>3, <1>4, <1>5, <1>6, <1>7 DEF Handled

LEMMA WorldRefresh ==
  ASSUME TypeOK, RefreshInv, World PROVE RefreshInv'
<1>1. CASE Relink \/ AutoRefresh
  BY <1>1 DEF Relink, AutoRefresh, RefreshInv, OneRefreshForAll
<1>2. ASSUME NEW r \in Request, req[r].pc = "Looked"
      PROVE  [req[r] EXCEPT !.ago = @ + 1].pc = req[r].pc
  BY <1>2, Shape DEF TypeOK
<1>3. ASSUME NEW r \in Request, req[r].pc \in {"Sent", "Expiring", "Counted"}
      PROVE  [req[r] EXCEPT !.token = "stale"].pc = req[r].pc
  BY <1>3, Shape DEF TypeOK
<1>4. CASE Tick
  <2>1. \A q \in Request : Waits(req[q]) \/ Waits(req'[q]) => req'[q] = req[q]
    BY <1>2, <1>4, NotWaiting DEF Tick
  <2> QED BY <1>4, <2>1, Apart DEF Tick
<1>5. CASE TokenExpires
  <2>1. \A q \in Request : Waits(req[q]) \/ Waits(req'[q]) => req'[q] = req[q]
    BY <1>3, <1>5, NotWaiting DEF TokenExpires
  <2> QED BY <1>5, <2>1, Apart DEF TokenExpires
<1> QED BY <1>1, <1>4, <1>5 DEF World

(* However many requests are refused at once, one refreshes and nobody waits *)
(* for a refresh that is over (api.ts:51-80).  OneRefreshForAll alone is not *)
(* inductive: that nobody refreshes while isRefreshing is not set is what    *)
(* keeps a second one from starting.                                         *)
THEOREM OneRefresh == Spec => []OneRefreshForAll
<1>1. Init => RefreshInv
  BY DEF Init, RefreshInv, OneRefreshForAll, Idle, Queued, Refreshing
<1>2. TypeOK /\ RefreshInv /\ [Next]_vars => RefreshInv'
  <2> SUFFICES ASSUME TypeOK, RefreshInv, [Next]_vars PROVE RefreshInv'
    OBVIOUS
  <2>1. CASE UNCHANGED vars
    BY <2>1 DEF vars, RefreshInv, OneRefreshForAll
  <2> QED BY <2>1, StartingRefresh, BrowserRefresh, ServerRefresh, WorldRefresh
       DEF Next
<1>3. RefreshInv => OneRefreshForAll
  BY DEF RefreshInv
<1> QED BY <1>1, <1>2, <1>3, TypeCorrect, PTL DEF Spec

-----------------------------------------------------------------------------
(* The cache of who is who                                                  *)

(* What is in the cache was true when it was read, and what a query has read *)
(* was true when it read: neither is older than its age and one query.       *)
RecentInv ==
  /\ trueAgo[directory] = 0
  /\ entry # NoEntry /\ entry.age <= TTL
       => trueAgo[entry.is] <= entry.age + MaxLookup
  /\ \A r \in Request : req[r].pc = "Looked"
       => trueAgo[req[r].seen] <= req[r].ago /\ req[r].ago <= MaxLookup

(* A request that looks as before, or has nothing to do with the directory.  *)
SameLook(x, y) ==
  y.pc = "Looked" => /\ x.pc = "Looked"
                     /\ y.seen = x.seen /\ y.ago = x.ago

LEMMA SameRecent ==
  ASSUME RecentInv, trueAgo' = trueAgo, directory' = directory,
         entry' = entry \/ entry' = NoEntry,
         \A q \in Request : SameLook(req[q], req'[q])
  PROVE  RecentInv'
  BY DEF RecentInv, SameLook

LEMMA SameRecentAt ==
  ASSUME TypeOK, RecentInv, trueAgo' = trueAgo, directory' = directory,
         entry' = entry \/ entry' = NoEntry, NEW r \in Request,
         NEW x, req' = [req EXCEPT ![r] = x], x.pc # "Looked"
  PROVE  RecentInv'
<1>1. \A q \in Request : SameLook(req[q], req'[q])
  BY DEF SameLook, TypeOK
<1> QED BY <1>1, SameRecent

LEMMA ForgottenLook ==
  ASSUME NEW x \in RequestState PROVE SameLook(x, Forgotten(x))
<1>1. CASE x.pc = "Looked"
  <2>1. x \in [pc : {"Looked"}, try : Try, seen : Identity, ago : Age]
    BY <1>1, Shape
  <2>2. Forgotten(x) = [x EXCEPT !.try = "lost"]
    BY <1>1 DEF Forgotten, OnServer
  <2> QED BY <1>1, <2>1, <2>2 DEF SameLook
<1>2. CASE x.pc \in OnServer \ {"Looked"}
  <2>1. Forgotten(x).pc = x.pc
    BY <1>2, Shape DEF Forgotten, OnServer
  <2> QED BY <1>2, <2>1 DEF SameLook
<1>3. CASE x.pc \notin OnServer
  BY <1>3 DEF Forgotten, SameLook, Idle
<1> QED BY <1>1, <1>2, <1>3

LEMMA BrowserRecent ==
  ASSUME TypeOK, RecentInv,
         Starting \/ \E r \in Request : InBrowser(r)
  PROVE  RecentInv'
<1> USE DEF identity
<1>1. UNCHANGED identity
  BY DEF Starting, KeycloakAnswers, KeycloakAnswersLate, InitTimesOut, Retry,
     SignOut, SignIn, Open_, Load, InBrowser, Send, Settle, JoinQueue,
     StartRefresh, GiveUp, RefreshSucceeds, RefreshFails
<1>2. ASSUME NEW p, NEW route, Load(p, route) PROVE RecentInv'
  <2>1. \A q \in Request : SameLook(req[q], req'[q])
    BY <1>2, ForgottenLook DEF Load, TypeOK
  <2> QED BY <1>1, <2>1, SameRecent
<1>3. CASE Starting
  <2>1. CASE Retry \/ SignOut \/ \E p \in Portal : SignIn(p)
    BY <1>2, <2>1 DEF Retry, SignOut, SignIn
  <2>2. CASE UNCHANGED req
    BY <1>1, <2>2 DEF RecentInv
  <2> QED BY <1>3, <2>1, <2>2 DEF Starting, KeycloakAnswers,
       KeycloakAnswersLate, InitTimesOut, Open_
<1>4. ASSUME NEW r \in Request, InBrowser(r) PROVE RecentInv'
  <2>a. Idle.pc # "Looked" /\ \A t : Fresh(t).pc # "Looked"
    BY DEF Idle, Fresh
  <2>1. CASE Send(r)
    BY <1>1, <2>1, <2>a, SameRecentAt DEF Send
  <2>2. CASE Settle(r)
    BY <1>1, <2>2, <2>a, SameRecentAt DEF Settle
  <2>3. CASE JoinQueue(r) \/ StartRefresh(r)
    <3>1. Queued.pc # "Looked" /\ Refreshing.pc # "Looked"
      BY DEF Queued, Refreshing
    <3>2. PICK x : x.pc # "Looked" /\ req' = [req EXCEPT ![r] = x]
      BY <2>3, <3>1 DEF JoinQueue, StartRefresh
    <3> QED BY <1>1, <3>2, SameRecentAt
  <2>4. CASE GiveUp(r)
    <3>1. \A q \in Request : SameLook(req[q], req'[q])
      BY <2>4, ForgottenLook DEF GiveUp, TypeOK, SameLook
    <3> QED BY <1>1, <3>1, SameRecent
  <2>5. ASSUME NEW new \in {"good", token}, RefreshSucceeds(r, new)
        PROVE  RecentInv'
    <3>1. \A q \in Request : SameLook(req[q], req'[q])
      BY <2>5, <2>a DEF RefreshSucceeds, TypeOK, SameLook
    <3> QED BY <1>1, <3>1, SameRecent
  <2>6. ASSUME NEW over \in BOOLEAN, RefreshFails(r, over) PROVE RecentInv'
    <3>1. \A q \in Request : SameLook(req[q], req'[q])
      BY <2>6, <2>a DEF RefreshFails, TypeOK, SameLook
    <3> QED BY <1>1, <3>1, SameRecent
  <2> QED BY <1>4, <2>1, <2>2, <2>3, <2>4, <2>5, <2>6 DEF InBrowser
<1> QED BY <1>3, <1>4

LEMMA ServerRecent ==
  ASSUME TypeOK, RecentInv, NEW r \in Request, Handled(r) \/ RedisFails(r)
  PROVE  RecentInv'
<1> USE DEF identity
<1>a. /\ \A x, a : Answered(x, a).pc # "Looked"
      /\ \A x : Counted(x).pc # "Looked"
      /\ \A x, over : Judged(x, over).pc # "Looked"
  BY DEF Answered, Counted, Judged, Idle
<1>1. CASE Hit(r)
  <2>1. [pc |-> "Expiring", try |-> req[r].try, token |-> req[r].token,
         over |-> Hits > Max].pc # "Looked"
    OBVIOUS
  <2>2. UNCHANGED trueAgo /\ UNCHANGED directory /\ UNCHANGED entry
    BY <1>1 DEF Hit
  <2>3. PICK x : x.pc # "Looked" /\ req' = [req EXCEPT ![r] = x]
    BY <1>1, <1>a, <2>1 DEF Hit
  <2> QED BY <2>2, <2>3, SameRecentAt
<1>2. CASE SetExpiry(r) \/ RedisFails(r)
  BY <1>2, <1>a, SameRecentAt DEF SetExpiry, RedisFails
<1>3. CASE Reject(r) \/ LookFails(r)
  BY <1>3, <1>a, SameRecentAt DEF Reject, LookFails
<1>4. CASE AnswerAtOnce(r) \/ AnswerFromCache(r)
  <2>1. PICK answer : req' = [req EXCEPT ![r] = Answered(req[r], answer)]
    BY <1>4 DEF AnswerAtOnce, AnswerFromCache
  <2>2. UNCHANGED trueAgo /\ UNCHANGED directory /\ UNCHANGED entry
    BY <1>4 DEF AnswerAtOnce, AnswerFromCache
  <2>3. Answered(req[r], answer).pc # "Looked"
    BY <1>a
  <2> QED BY <2>1, <2>2, <2>3, SameRecentAt
<1>5. CASE AskDirectory(r)
  <2>1. [pc |-> "Lookup", try |-> req[r].try].pc # "Looked"
    OBVIOUS
  <2> QED BY <1>5, <2>1, SameRecentAt DEF AskDirectory
<1>6. CASE Look(r)
  <2>1. /\ req'[r].seen = directory /\ req'[r].ago = 0
        /\ \A q \in Request \ {r} : req'[q] = req[q]
    BY <1>6 DEF Look, TypeOK
  <2>2. /\ UNCHANGED identity
        /\ trueAgo[directory] <= 0 /\ 0 <= MaxLookup
    BY <1>6, AccessAssumption DEF Look, RecentInv
  <2> QED BY <2>1, <2>2 DEF RecentInv
<1>7. CASE Remember(r)
  <2>1. req[r].pc = "Looked" /\ req[r].seen \in Identity
    BY <1>7, Shape DEF Remember, TypeOK
  <2>2. PICK answer : req' = [req EXCEPT ![r] = Answered(req[r], answer)]
    BY <1>7 DEF Remember
  <2>3. \A q \in Request : req'[q].pc = "Looked" => req'[q] = req[q]
    BY <1>a, <2>2 DEF TypeOK
  <2>4. entry' = [is |-> req[r].seen, age |-> 0] /\ UNCHANGED trueAgo
          /\ UNCHANGED directory
    BY <1>7 DEF Remember
  <2>5. trueAgo[req[r].seen] <= MaxLookup
    <3>1. trueAgo[req[r].seen] <= req[r].ago /\ req[r].ago <= MaxLookup
      BY <2>1 DEF RecentInv
    <3>2. trueAgo[req[r].seen] \in Nat /\ req[r].ago \in Nat
      BY <2>1, Shape DEF TypeOK, Age
    <3> QED BY <3>1, <3>2, AccessAssumption
  <2>6. trueAgo'[entry'.is] <= entry'.age + MaxLookup
    BY <2>4, <2>5, AccessAssumption
  <2> QED BY <2>3, <2>4, <2>6 DEF RecentInv
<1> QED BY <1>1, <1>2, <1>3, <1>4, <1>5, <1>6, <1>7 DEF Handled

LEMMA TickRecent ==
  ASSUME TypeOK, RecentInv, Tick PROVE RecentInv'
<1>1. /\ trueAgo \in [Identity -> Age] /\ directory \in Identity
      /\ directory' = directory
  BY DEF TypeOK, Tick
<1>2. \A i \in Identity : trueAgo'[i] <= trueAgo[i] + 1
  BY <1>1, AccessAssumption DEF Tick, Older, Age
<1>3. trueAgo'[directory'] = 0
  BY <1>1 DEF Tick
<1>4. ASSUME entry' # NoEntry, entry'.age <= TTL
      PROVE  trueAgo'[entry'.is] <= entry'.age + MaxLookup
  <2>1. entry # NoEntry /\ entry \in [is : Identity, age : 0 .. (TTL + 1)]
    BY <1>4 DEF Tick, TypeOK
  <2>2. ~(entry.age > TTL) /\ entry' = [entry EXCEPT !.age = @ + 1]
    <3>1. CASE entry.age > TTL
      <4>1. entry' = [entry EXCEPT !.age = entry.age]
        BY <2>1, <3>1 DEF Tick
      <4> QED BY <1>4, <2>1, <3>1, <4>1, AccessAssumption
    <3> QED BY <2>1, <3>1 DEF Tick
  <2>3. entry'.is = entry.is /\ entry'.age = entry.age + 1
    BY <2>1, <2>2
  <2>4. trueAgo[entry.is] <= entry.age + MaxLookup
    BY <2>1, <2>2, AccessAssumption DEF RecentInv
  <2>5. /\ trueAgo'[entry.is] <= trueAgo[entry.is] + 1
        /\ trueAgo[entry.is] \in Nat /\ trueAgo'[entry.is] \in Nat
    BY <1>1, <1>2, <2>1, AccessAssumption DEF Tick, Older, Age
  <2> QED BY <2>1, <2>3, <2>4, <2>5, AccessAssumption
<1>5. ASSUME NEW r \in Request, req'[r].pc = "Looked"
      PROVE  /\ trueAgo'[req'[r].seen] <= req'[r].ago
             /\ req'[r].ago <= MaxLookup
  <2>1. req[r].pc = "Looked"
    BY <1>5 DEF Tick
  <2>2. req[r] \in [pc : {"Looked"}, try : Try, seen : Identity, ago : Age]
    BY <2>1, Shape DEF TypeOK
  <2>3. req'[r] = [req[r] EXCEPT !.ago = @ + 1] /\ req[r].ago < MaxLookup
    BY <2>1 DEF Tick
  <2>4. req'[r].seen = req[r].seen /\ req'[r].ago = req[r].ago + 1
    BY <2>2, <2>3
  <2>5. trueAgo[req[r].seen] <= req[r].ago
    BY <2>1 DEF RecentInv
  <2>6. /\ trueAgo'[req[r].seen] <= trueAgo[req[r].seen] + 1
        /\ trueAgo[req[r].seen] \in Nat /\ trueAgo'[req[r].seen] \in Nat
    BY <1>1, <1>2, <2>2, AccessAssumption DEF Tick, Older, Age
  <2>7. req[r].ago \in Nat
    BY <2>2 DEF Age
  <2> QED BY <2>3, <2>4, <2>5, <2>6, <2>7, AccessAssumption
<1> QED BY <1>3, <1>4, <1>5 DEF RecentInv

LEMMA WorldRecent ==
  ASSUME TypeOK, RecentInv, World PROVE RecentInv'
<1>1. CASE Relink
  <2>1. /\ trueAgo \in [Identity -> Age] /\ directory' \in Identity
        /\ trueAgo' = [trueAgo EXCEPT ![directory'] = 0]
        /\ UNCHANGED <<req, entry>>
    BY <1>1 DEF Relink, TypeOK
  <2>2. /\ trueAgo'[directory'] = 0
        /\ \A i \in Identity : trueAgo'[i] = 0 \/ trueAgo'[i] = trueAgo[i]
    BY <2>1
  <2>3. ASSUME entry # NoEntry, entry.age <= TTL
        PROVE  trueAgo'[entry.is] <= entry.age + MaxLookup
    <3>1. entry \in [is : Identity, age : 0 .. (TTL + 1)]
      BY <2>3 DEF TypeOK
    <3>2. trueAgo[entry.is] <= entry.age + MaxLookup
      BY <2>3 DEF RecentInv
    <3> QED BY <2>2, <3>1, <3>2, AccessAssumption
  <2>4. ASSUME NEW r \in Request, req[r].pc = "Looked"
        PROVE  /\ trueAgo'[req[r].seen] <= req[r].ago
               /\ req[r].ago <= MaxLookup
    <3>1. req[r].seen \in Identity /\ req[r].ago \in Nat
      BY <2>4, Shape DEF TypeOK, Age
    <3>2. trueAgo[req[r].seen] <= req[r].ago /\ req[r].ago <= MaxLookup
      BY <2>4 DEF RecentInv
    <3> QED BY <2>2, <3>1, <3>2
  <2> QED BY <2>1, <2>2, <2>3, <2>4 DEF RecentInv
<1>2. CASE AutoRefresh
  BY <1>2 DEF AutoRefresh, RecentInv, identity
<1>3. CASE TokenExpires
  <2>1. \A q \in Request : SameLook(req[q], req'[q])
    <3> SUFFICES ASSUME NEW q \in Request PROVE SameLook(req[q], req'[q])
      OBVIOUS
    <3>1. CASE req[q].pc \in {"Sent", "Expiring", "Counted"}
      <4>1. [req[q] EXCEPT !.token = "stale"].pc = req[q].pc
        BY <3>1, Shape DEF TypeOK
      <4> QED BY <1>3, <3>1, <4>1 DEF TokenExpires, SameLook
    <3>2. CASE req[q].pc \notin {"Sent", "Expiring", "Counted"}
      BY <1>3, <3>2 DEF TokenExpires, SameLook
    <3> QED BY <3>1, <3>2
  <2> QED BY <1>3, <2>1, SameRecent DEF TokenExpires, identity
<1> QED BY <1>1, <1>2, <1>3, TickRecent DEF World

(* Whatever the cache answers with was true no longer ago than its expiry    *)
(* and one query, in whatever order queries return (data-scope.ts:16-35);    *)
(* what is on the way from the database has to be bounded with it.           *)
THEOREM CacheIsRecent == Spec => []EntryIsRecent
<1>1. TypeOK /\ Init => RecentInv
  BY DEF Init, RecentInv, Idle, TypeOK
<1>2. TypeOK /\ RecentInv /\ [Next]_vars => RecentInv'
  <2> SUFFICES ASSUME TypeOK, RecentInv, [Next]_vars PROVE RecentInv'
    OBVIOUS
  <2>1. CASE UNCHANGED vars
    BY <2>1 DEF vars, identity, RecentInv
  <2> QED BY <2>1, BrowserRecent, ServerRecent, WorldRecent DEF Next
<1>3. TypeOK /\ RecentInv => EntryIsRecent
  <2> SUFFICES ASSUME TypeOK, RecentInv, Hitting
               PROVE  trueAgo[entry.is] <= TTL + MaxLookup
    BY DEF EntryIsRecent
  <2>1. entry # NoEntry /\ entry \in [is : Identity, age : 0 .. (TTL + 1)]
    BY DEF Hitting, TypeOK
  <2>2. entry.age <= TTL
    BY <2>1, AccessAssumption DEF Hitting, Expired
  <2>3. trueAgo[entry.is] <= entry.age + MaxLookup
    BY <2>1, <2>2 DEF RecentInv
  <2>4. trueAgo[entry.is] \in Nat
    BY <2>1 DEF TypeOK, Age
  <2> QED BY <2>1, <2>2, <2>3, <2>4, AccessAssumption
<1>4. Init => RecentInv
  BY <1>1, InitTypeOK
<1> QED BY <1>2, <1>3, <1>4, TypeCorrect, PTL DEF Spec

-----------------------------------------------------------------------------
(* The groups of roles are kept in step                                     *)

(* The three groups that the data scope sees everything as leave out, of     *)
(* everybody who may sign in, students, applicants and tutors of admissions. *)
LEMMA WhoIsLeft ==
  ALL_AUTHENTICATED \ (ADMIN_STAFF \cup TEACHING \cup SUPPORT)
    \subseteq {"student", "applicant", "admissions_tutor"}
  BY DEF ALL_AUTHENTICATED, ADMISSIONS, ADMIN_STAFF, STUDENTS

(* A plain collection of routes never asks for the caller's own record.      *)
LEMMA PlainRoutes ==
  /\ \A roles : Open(roles).then = "serve"
  /\ \A l, g, w : \A guard \in Crud(l, g, w) : guard.then = "serve"
  /\ \A x : /\ \A guard \in Closed(x) : guard.then = "serve"
            /\ \A guard \in Readable(x) : guard.then = "serve"
            /\ \A guard \in Public(x) : guard.then = "serve"
<1>1. \A roles : Open(roles).then = "serve"
  BY DEF Open, Guard
<1>2. \A l, g, w : \A guard \in Crud(l, g, w) : guard.then = "serve"
  BY <1>1 DEF Crud, Removal
<1> QED BY <1>1, <1>2 DEF Closed, Readable, Public

(* A route that scopes to the caller asks for a role of roles.ts, so nobody  *)
(* without one gets as far as the data scope.                                *)
ScopesAll(router) ==
  \A guard \in router :
    guard.then = "scope" => guard.roles \subseteq ALL_AUTHENTICATED

LEMMA OwnRecordRoutes ==
  /\ ScopesAll(StudentsRouter) /\ ScopesAll(ApplicationsRouter)
  /\ ScopesAll(EnrolmentsRouter) /\ ScopesAll(ModuleRegistrationsRouter)
  /\ ScopesAll(MarksRouter) /\ ScopesAll(FinanceRouter)
  /\ ScopesAll(AttendanceRouter) /\ ScopesAll(SupportRouter)
  /\ ScopesAll(EcClaimsRouter) /\ ScopesAll(DocumentsRouter)
<1>1. \A roles, then :
        roles \subseteq ALL_AUTHENTICATED \/ then # "scope"
          => ScopesAll({Guard(roles, then)})
  BY DEF ScopesAll, Guard
<1>2. /\ \A roles : ScopesAll({Open(roles)})
      /\ ScopesAll({Removal})
  BY <1>1 DEF Open, Removal
<1>3. \A A, B : ScopesAll(A) /\ ScopesAll(B) => ScopesAll(A \cup B)
  BY DEF ScopesAll
<1>4. /\ ADMIN_STAFF \cup STUDENTS \subseteq ALL_AUTHENTICATED
      /\ ADMIN_STAFF \cup TEACHING \cup STUDENTS \subseteq ALL_AUTHENTICATED
      /\ SUPPORT \cup STUDENTS \subseteq ALL_AUTHENTICATED
      /\ ADMIN_STAFF \cup TEACHING \cup SUPPORT \cup STUDENTS
           \subseteq ALL_AUTHENTICATED
  BY DEF ALL_AUTHENTICATED
<1>5. /\ ScopesAll(StudentsRouter) /\ ScopesAll(ApplicationsRouter)
      /\ ScopesAll(EnrolmentsRouter) /\ ScopesAll(ModuleRegistrationsRouter)
      /\ ScopesAll(FinanceRouter)
  BY DEF ScopesAll, Guard, Open, Removal, StudentsRouter, ApplicationsRouter,
     EnrolmentsRouter, ModuleRegistrationsRouter, FinanceRouter
<1>6. ScopesAll(AttendanceRouter)
  BY DEF ScopesAll, Guard, Open, Removal, AttendanceRouter
<1>7. /\ ScopesAll(MarksRouter) /\ ScopesAll(SupportRouter)
      /\ ScopesAll(EcClaimsRouter) /\ ScopesAll(DocumentsRouter)
  BY <1>4 DEF ScopesAll, Guard, Open, Removal, MarksRouter, SupportRouter,
     EcClaimsRouter, DocumentsRouter
<1> QED BY <1>5, <1>6, <1>7

LEMMA RoutesScopeAll == ScopesAll(Route)
<1>1. /\ \A roles : ScopesAll({Open(roles)}) /\ ScopesAll(Closed(roles))
      /\ \A roles : ScopesAll(Readable(roles)) /\ ScopesAll(Public(roles))
      /\ \A l, g, w : ScopesAll(Crud(l, g, w))
      /\ ScopesAll({Removal})
  BY PlainRoutes DEF ScopesAll, Removal
<1>2. \A A, B : ScopesAll(A) /\ ScopesAll(B) => ScopesAll(A \cup B)
  BY DEF ScopesAll
<1>3. /\ ScopesAll(AdmissionsEventsRouter) /\ ScopesAll(AppealsRouter)
      /\ ScopesAll(AssessmentsRouter) /\ ScopesAll(AwardsRouter)
      /\ ScopesAll(ModuleResultsRouter) /\ ScopesAll(ProgrammeApprovalsRouter)
      /\ ScopesAll(ProgrammeModulesRouter) /\ ScopesAll(ProgrammeRoutesRouter)
      /\ ScopesAll(ProgressionsRouter) /\ ScopesAll(TranscriptsRouter)
  BY <1>1 DEF AdmissionsEventsRouter, AppealsRouter, AssessmentsRouter,
     AwardsRouter, ModuleResultsRouter, ProgrammeApprovalsRouter,
     ProgrammeModulesRouter, ProgrammeRoutesRouter, ProgressionsRouter,
     TranscriptsRouter
<1>4. /\ ScopesAll(ClearanceChecksRouter) /\ ScopesAll(ConfigRouter)
      /\ ScopesAll(DemographicsRouter) /\ ScopesAll(ExamBoardsRouter)
      /\ ScopesAll(HesaRouter) /\ ScopesAll(InterviewsRouter)
      /\ ScopesAll(OffersRouter) /\ ScopesAll(QualificationsRouter)
      /\ ScopesAll(ReferencesRouter) /\ ScopesAll(UkviRouter)
      /\ ScopesAll(WebhooksRouter) /\ ScopesAll(IdentifiersRouter)
      /\ ScopesAll(PersonsRouter)
  BY <1>1 DEF ClearanceChecksRouter, ConfigRouter, DemographicsRouter,
     ExamBoardsRouter, HesaRouter, InterviewsRouter, OffersRouter,
     QualificationsRouter, ReferencesRouter, UkviRouter, WebhooksRouter,
     IdentifiersRouter, PersonsRouter
<1>5. /\ ScopesAll(DepartmentsRouter) /\ ScopesAll(FacultiesRouter)
      /\ ScopesAll(ModulesRouter) /\ ScopesAll(ProgrammesRouter)
      /\ ScopesAll(SchoolsRouter) /\ ScopesAll(SubmissionsRouter)
  BY <1>1 DEF DepartmentsRouter, FacultiesRouter, ModulesRouter,
     ProgrammesRouter, SchoolsRouter, SubmissionsRouter
<1>6. /\ ScopesAll(AccommodationRouter) /\ ScopesAll(GovernanceRouter)
      /\ ScopesAll(AuditRouter) /\ ScopesAll(CommunicationsRouter)
      /\ ScopesAll(ReportsRouter)
  BY PlainRoutes DEF ScopesAll, Removal, AccommodationRouter,
     GovernanceRouter, AuditRouter, CommunicationsRouter, ReportsRouter
<1>7. SUFFICES ASSUME NEW guard \in Route, guard.then = "scope"
               PROVE  guard.roles \subseteq ALL_AUTHENTICATED
  BY DEF ScopesAll
<1>8. PICK router : guard \in router /\ ScopesAll(router)
  BY <1>3, <1>4, <1>5, <1>6, OwnRecordRoutes DEF Route
<1> QED BY <1>7, <1>8 DEF ScopesAll

(* Whoever is let through and is neither staff nor a person of his own to    *)
(* the data scope holds the role of a tutor of admissions: whatever the      *)
(* roles in the token, and so in whatever way Keycloak composes them         *)
(* (data-scope.ts:78-98).                                                    *)
LEMMA OnlyTutorsAreUnknown ==
  ASSUME NEW roles, "unknown" \in Outcomes(roles)
  PROVE  "admissions_tutor" \in roles
<1>1. PICK guard \in Route : "unknown" \in Hears(roles, guard)
  BY DEF Outcomes
<1>2. /\ MayPass(roles, guard) /\ guard.then = "scope"
      /\ "unknown" \in Scoped(roles)
  <2>1. "unknown" \notin Owned(roles) \cup ModuleFiltered(roles)
    BY DEF Owned, ModuleFiltered
  <2>2. MayPass(roles, guard)
    BY <1>1 DEF Hears
  <2> QED BY <1>1, <2>1, <2>2 DEF Hears
<1>3. ~ SeesAll(roles) /\ roles \cap {"student", "applicant"} = {}
  BY <1>2 DEF Scoped
<1>4. "super_admin" \notin roles
  BY <1>3 DEF SeesAll, ADMIN_STAFF, SUPER_ADMIN
<1>5. PICK role \in roles : role \in ALL_AUTHENTICATED
  BY <1>2, <1>4, RoutesScopeAll DEF MayPass, ScopesAll
<1> QED BY <1>3, <1>5, WhoIsLeft DEF SeesAll

Puzzled(x) == x.pc = "Answered" /\ x.answer = "unknown"

(* Only the guard of a route answers that a caller is unknown.               *)
PuzzledInv == \A r \in Request : Puzzled(req[r]) => "unknown" \in Heard[who]

LEMMA OtherAnswers ==
  /\ \A x, a : a # "unknown" => ~ Puzzled(Answered(x, a))
  /\ \A x : ~ Puzzled(Counted(x))
  /\ \A x, over : ~ Puzzled(Judged(x, over))
  /\ \A t : ~ Puzzled(Fresh(t))
  /\ ~ Puzzled(Idle) /\ ~ Puzzled(Queued) /\ ~ Puzzled(Refreshing)
  /\ \A x \in RequestState : ~ Puzzled(Forgotten(x))
<1>1. ASSUME NEW x \in RequestState PROVE ~ Puzzled(Forgotten(x))
  BY Shape DEF Forgotten, OnServer, Puzzled, Idle
<1> QED BY <1>1 DEF Answered, Counted, Judged, Fresh, Idle, Queued,
       Refreshing, Puzzled

LEMMA SamePuzzled ==
  ASSUME PuzzledInv, who' = who,
         \A q \in Request : req'[q] = req[q] \/ ~ Puzzled(req'[q])
  PROVE  PuzzledInv'
  BY DEF PuzzledInv, Puzzled, Heard

LEMMA BrowserPuzzled ==
  ASSUME TypeOK, PuzzledInv,
         Starting \/ \E r \in Request : InBrowser(r)
  PROVE  PuzzledInv'
<1>1. who' = who
  BY DEF Starting, KeycloakAnswers, KeycloakAnswersLate, InitTimesOut, Retry,
     SignOut, SignIn, Open_, Load, InBrowser, Send, Settle, JoinQueue,
     StartRefresh, GiveUp, RefreshSucceeds, RefreshFails
<1>2. ASSUME NEW p, NEW route, Load(p, route) PROVE PuzzledInv'
  <2>1. \A q \in Request : ~ Puzzled(req'[q])
    BY <1>2, OtherAnswers DEF Load, TypeOK
  <2> QED BY <1>1, <2>1, SamePuzzled
<1>3. CASE Starting
  <2>1. CASE Retry \/ SignOut \/ \E p \in Portal : SignIn(p)
    BY <1>2, <2>1 DEF Retry, SignOut, SignIn
  <2>2. CASE UNCHANGED req
    BY <1>1, <2>2, SamePuzzled
  <2> QED BY <1>3, <2>1, <2>2 DEF Starting, KeycloakAnswers,
       KeycloakAnswersLate, InitTimesOut, Open_
<1>4. ASSUME NEW r \in Request, InBrowser(r) PROVE PuzzledInv'
  <2>1. \A q \in Request : req'[q] = req[q] \/ ~ Puzzled(req'[q])
    BY <1>4, OtherAnswers DEF InBrowser, Send, Settle, JoinQueue,
       StartRefresh, GiveUp, RefreshSucceeds, RefreshFails, TypeOK
  <2> QED BY <1>1, <2>1, SamePuzzled
<1> QED BY <1>3, <1>4

LEMMA ServerPuzzled ==
  ASSUME TypeOK, PuzzledInv, NEW r \in Request, Handled(r) \/ RedisFails(r)
  PROVE  PuzzledInv'
<1>1. who' = who
  BY DEF Handled, Hit, SetExpiry, Reject, AnswerAtOnce, AnswerFromCache,
     AskDirectory, Look, Remember, LookFails, RedisFails
<1>2. \A is : "unknown" \notin Replies(is)
  BY DEF Replies
<1>3. CASE AnswerAtOnce(r)
  <2>1. PICK a \in Heard[who] : req' = [req EXCEPT ![r] = Answered(@, a)]
    BY <1>3 DEF AnswerAtOnce
  <2>2. CASE a = "unknown"
    <3>1. "unknown" \in Heard[who]'
      BY <1>1, <2>2 DEF Heard
    <3> QED BY <1>1, <3>1 DEF PuzzledInv
  <2>3. CASE a # "unknown"
    <3>1. \A q \in Request : req'[q] = req[q] \/ ~ Puzzled(req'[q])
      BY <2>1, <2>3, OtherAnswers DEF TypeOK
    <3> QED BY <1>1, <3>1, SamePuzzled
  <2> QED BY <2>2, <2>3
<1>4. CASE ~ AnswerAtOnce(r)
  <2>1. PICK x : req' = [req EXCEPT ![r] = x] /\ ~ Puzzled(x)
    <3>1. CASE Hit(r) \/ SetExpiry(r) \/ RedisFails(r)
      BY <3>1, OtherAnswers DEF Hit, SetExpiry, RedisFails, Puzzled
    <3>2. CASE AnswerFromCache(r) \/ Remember(r)
      BY <1>2, <3>2, OtherAnswers DEF AnswerFromCache, Remember
    <3>3. CASE Reject(r) \/ LookFails(r)
      BY <3>3, OtherAnswers DEF Reject, LookFails
    <3>4. CASE AskDirectory(r) \/ Look(r)
      BY <3>4 DEF AskDirectory, Look, Puzzled
    <3> QED BY <1>4, <3>1, <3>2, <3>3, <3>4 DEF Handled
  <2>2. \A q \in Request : req'[q] = req[q] \/ ~ Puzzled(req'[q])
    BY <2>1 DEF TypeOK
  <2> QED BY <1>1, <2>2, SamePuzzled
<1> QED BY <1>3, <1>4

LEMMA WorldPuzzled ==
  ASSUME TypeOK, PuzzledInv, World PROVE PuzzledInv'
<1>1. who' = who
  BY DEF World, Relink, TokenExpires, AutoRefresh, Tick
<1>2. \A q \in Request : req'[q] = req[q] \/ ~ Puzzled(req'[q])
  <2>1. CASE Relink \/ AutoRefresh
    BY <2>1 DEF Relink, AutoRefresh
  <2>2. CASE TokenExpires
    <3> SUFFICES ASSUME NEW q \in Request, req'[q] # req[q]
                 PROVE  ~ Puzzled(req'[q])
      OBVIOUS
    <3>1. /\ req[q].pc \in {"Sent", "Expiring", "Counted"}
          /\ req'[q] = [req[q] EXCEPT !.token = "stale"]
      BY <2>2 DEF TokenExpires
    <3>2. req'[q].pc = req[q].pc
      BY <3>1, Shape DEF TypeOK
    <3> QED BY <3>1, <3>2 DEF Puzzled
  <2>3. CASE Tick
    <3> SUFFICES ASSUME NEW q \in Request, req'[q] # req[q]
                 PROVE  ~ Puzzled(req'[q])
      OBVIOUS
    <3>1. /\ req[q].pc = "Looked"
          /\ req'[q] = [req[q] EXCEPT !.ago = @ + 1]
      BY <2>3 DEF Tick
    <3>2. req'[q].pc = req[q].pc
      BY <3>1, Shape DEF TypeOK
    <3> QED BY <3>1, <3>2 DEF Puzzled
  <2> QED BY <2>1, <2>2, <2>3 DEF World
<1> QED BY <1>1, <1>2, SamePuzzled

(* Whoever the guard of a route lets through is known to the data scope      *)
(* behind it, but for the tutors of admissions, whatever roles the users     *)
(* of the system were given: the lists of roles.ts, the guards of every      *)
(* router and the three groups of data-scope.ts fit together.                *)
THEOREM GuardsKnowTheScope == Spec => []KnownToScope
<1>1. Init => PuzzledInv
  BY DEF Init, PuzzledInv, Puzzled, Idle
<1>2. TypeOK /\ PuzzledInv /\ [Next]_vars => PuzzledInv'
  <2> SUFFICES ASSUME TypeOK, PuzzledInv, [Next]_vars PROVE PuzzledInv'
    OBVIOUS
  <2>1. CASE UNCHANGED vars
    BY <2>1, SamePuzzled DEF vars
  <2> QED BY <2>1, BrowserPuzzled, ServerPuzzled, WorldPuzzled DEF Next
<1>3. TypeOK /\ PuzzledInv => KnownToScope
  <2> SUFFICES ASSUME TypeOK, PuzzledInv PROVE KnownToScope
    OBVIOUS
  <2>1. \A role \in Strangers : "admissions_tutor" \in InToken(role)
    BY OnlyTutorsAreUnknown DEF Strangers
  <2>2. ASSUME NEW r \in Request, Puzzled(req[r])
        PROVE  "admissions_tutor" \in RolesOf[who]
    <3>1. "unknown" \in Outcomes(RolesOf[who])
      BY <2>2 DEF PuzzledInv, Heard, TypeOK
    <3> QED BY <3>1, OnlyTutorsAreUnknown
  <2> QED BY <2>1, <2>2 DEF KnownToScope, Puzzled
<1> QED BY <1>1, <1>2, <1>3, TypeCorrect, PTL DEF Spec
===============================================================================
