------------------------------- MODULE Access --------------------------------
(****************************************************************************)
(* One signed-in browser and the server in front of its controllers: the    *)
(* start of the client (AuthContext.tsx, lib/auth.ts), the requests with    *)
(* their one shared token refresh (lib/api.ts), and what each meets on the  *)
(* server: the rate limiter with its counter in Redis (rate-limit.ts), the  *)
(* token (auth.ts), the guard of its route (Routes) and the cache of who is *)
(* who (data-scope.ts).                                                     *)
(*                                                                          *)
(* Time is counted in ticks; what matters of a moment is how long ago it    *)
(* was.  Keycloak, Redis and the database answer, late or with an error.    *)
(****************************************************************************)
EXTENDS Routes, Integers

CONSTANTS Request,    \* places for requests of the browser
          User,       \* who may be signed in
          RolesOf,    \* the roles in their token
          Portal,     \* the portals that are tried
          TTL,        \* CACHE_TTL
          MaxLookup,  \* how long the query for a person may take
          Horizon,    \* times longer ago than this are not told apart
          Window,     \* windowMs
          Max,        \* requests of one browser in a window
          MaxFaults   \* bound: how often Redis fails

ASSUME AccessAssumption ==
  /\ RolesOf \in [User -> SUBSET ALL_AUTHENTICATED]
  /\ Portal \subseteq DOMAIN PortalRoles
  /\ {TTL, MaxLookup, Window, Max, MaxFaults, Horizon} \subseteq Nat
  /\ Window > 0
  /\ TTL + MaxLookup < Horizon

VARIABLES who,         \* the user of the browser
          page,        \* what the client shows
          search,      \* ?portal= in the address
          hash,        \* the route in the address
          token,       \* the access token, as the server would judge it
          refreshing,  \* isRefreshing
          req,         \* the requests, in the browser and on the server
          directory,   \* whether the tables link the user's e-mail to a record
          trueAgo,     \* history: when each answer of directory was last true
          entry,       \* identityCache and cacheTimestamps of the user
          redis,       \* the counter of the window
          faults       \* history: how often Redis has failed

browser == <<page, search, hash>>
identity == <<directory, trueAgo, entry>>
limiter == <<redis, faults>>
vars == <<who, browser, token, refreshing, req, identity, limiter>>

Nowhere == ""
Unset == -1
NoKey == [hits |-> 0, left |-> Unset]
NoEntry == [is |-> "nobody", age |-> 0]
Identity == {"linked", "unlinked"}
Age == 0 .. Horizon
Older(ago) == IF ago < Horizon THEN ago + 1 ELSE ago

Idle == [pc |-> "Idle"]
Queued == [pc |-> "Queued"]
Refreshing == [pc |-> "Refreshing"]

\* try: the first, the one after a refresh (original._retry), or one that the
\* browser does not wait for any more.
Try == {"first", "second", "lost"}
OnServer == {"Sent", "Expiring", "Counted", "Lookup", "Looked"}
Answer == {"served", "forbidden", "unknown", "limited", "unauthorised",
           "refused", "invalid", "failed"}
RequestState ==
  {Idle, Queued, Refreshing}
  \cup [pc : {"Sent", "Counted"}, try : Try, token : {"good", "stale"}]
  \cup [pc : {"Expiring"}, try : Try, token : {"good", "stale"},
        over : BOOLEAN]
  \cup [pc : {"Lookup"}, try : Try]
  \cup [pc : {"Looked"}, try : Try, seen : Identity, ago : Age]
  \cup [pc : {"Answered"}, answer : Answer]

Init ==
  /\ who \in User
  /\ page = "loading" /\ search = Nowhere /\ hash = Nowhere
  /\ token = "none" /\ refreshing = FALSE
  /\ req = [r \in Request |-> Idle]
  /\ directory \in Identity
  /\ trueAgo = [i \in Identity |-> IF i = directory THEN 0 ELSE Horizon]
  /\ entry = NoEntry
  /\ redis = NoKey /\ faults = 0

------------------------------------------------------------------------------
(* The start of the client.                                                 *)

\* A request that only the browser knows of is gone with its page; one that
\* the server has goes on there.
Forgotten(x) ==
  IF x.pc \in OnServer THEN [x EXCEPT !.try = "lost"] ELSE Idle

\* The page is loaded (again): nothing of the old one is left.
Load(portal, route) ==
  /\ page' = "loading" /\ search' = portal /\ hash' = route
  /\ token' = "none" /\ refreshing' = FALSE
  /\ req' = [r \in Request |-> Forgotten(req[r])]
  /\ UNCHANGED <<who, identity, limiter>>

\* Dashboard sends everybody but staff and unknown roles to a portal.
HomeOf(roles) ==
  IF roles \cap PortalRoles["admin"] # {} THEN "dashboard"
  ELSE IF roles \cap PortalRoles["academic"] # {} THEN "academic"
  ELSE IF "student" \in roles THEN "student"
  ELSE IF "applicant" \in roles THEN "applicant"
  ELSE "dashboard"

\* initKeycloak removes the query from the address when Keycloak has answered,
\* and only then AuthContext looks into it for the portal to go to.
Cleaned(query) == Nowhere
Chosen(query, route) == IF query = Nowhere THEN route ELSE query
\* The login page sends who is signed in to the dashboard.
Shown(route) == IF route = "login" THEN HomeOf(RolesOf[who]) ELSE route

KeycloakAnswers(signedIn) ==
  /\ page = "loading"
  /\ page' = IF signedIn THEN "in" ELSE "out"
  /\ search' = Cleaned(search)
  /\ hash' = IF signedIn THEN Shown(Chosen(search', hash)) ELSE hash
  /\ token' = IF signedIn THEN "good" ELSE "none"
  /\ UNCHANGED <<who, refreshing, req, identity, limiter>>

\* AUTH_INIT_TIMEOUT_MS: the retry card.
InitTimesOut ==
  /\ page = "loading"
  /\ page' = "error"
  /\ UNCHANGED <<who, search, hash, token, refreshing, req, identity,
                 limiter>>

\* The late answer fills keycloak's token and cleans the address; AuthContext
\* ignores it.
KeycloakAnswersLate(signedIn) ==
  /\ page = "error" /\ token = "none"
  /\ token' = IF signedIn THEN "good" ELSE "none"
  /\ search' = Cleaned(search)
  /\ UNCHANGED <<who, page, hash, refreshing, req, identity, limiter>>

\* The button of the retry card.
Retry ==
  /\ page = "error"
  /\ Load(search, hash)

\* A portal is chosen on the login page; Keycloak's own form sends the browser
\* back to /?portal=..., with no route.
SignIn(portal) ==
  /\ page = "out"
  /\ Load(portal, Nowhere)

SignOut ==
  /\ page = "in"
  /\ Load(Nowhere, "login")

\* usePortalGuard
Landing(roles, portal) ==
  IF roles \cap PortalRoles[portal] # {} THEN portal ELSE HomeOf(roles)

Open_(portal) ==
  /\ page = "in"
  /\ hash' = Landing(RolesOf[who], portal)
  /\ UNCHANGED <<who, page, search, token, refreshing, req, identity,
                 limiter>>

------------------------------------------------------------------------------
(* Requests, in the browser.                                                *)

Fresh(try) == [pc |-> "Sent", try |-> try, token |-> token']

\* The interceptor adds the token; a page that is not found asks for nothing.
Send(r) ==
  /\ page = "in" /\ hash \notin {Nowhere, "login"} /\ req[r] = Idle
  /\ UNCHANGED <<who, browser, token, refreshing, identity, limiter>>
  /\ req' = [req EXCEPT ![r] = Fresh("first")]

Unauthorised(r) ==
  req[r].pc = "Answered" /\ req[r].answer = "unauthorised"

\* Everything but a first 401 goes to the caller.
Settle(r) ==
  /\ req[r].pc = "Answered"
  /\ ~Unauthorised(r)
  /\ req' = [req EXCEPT ![r] = Idle]
  /\ UNCHANGED <<who, browser, token, refreshing, identity, limiter>>

JoinQueue(r) ==
  /\ Unauthorised(r) /\ refreshing
  /\ req' = [req EXCEPT ![r] = Queued]
  /\ UNCHANGED <<who, browser, token, refreshing, identity, limiter>>

StartRefresh(r) ==
  /\ Unauthorised(r) /\ ~refreshing
  /\ refreshing' = TRUE
  /\ req' = [req EXCEPT ![r] = Refreshing]
  /\ UNCHANGED <<who, browser, token, identity, limiter>>

\* updateToken answers with a new token, or with the old one if it thinks that
\* good for another 30 seconds.  Then, without a pause in between, the queue is
\* sent again, the request that refreshed is, and isRefreshing is reset.
RefreshSucceeds(r, new) ==
  /\ req[r] = Refreshing /\ token # "none"
  /\ token' = new /\ refreshing' = FALSE
  /\ req' = [q \in Request |-> IF q = r THEN Fresh("second")
                               ELSE IF req[q] = Queued THEN Fresh("first")
                               ELSE req[q]]
  /\ UNCHANGED <<who, browser, identity, limiter>>

\* Whom processQueue and the rejection itself send back to the caller.
MutantRejectsAlone(q, r) == q = r
Rejected(q, r) == q = r \/ req[q] = Queued

\* The queue is rejected and the browser sent to the login page, which sends a
\* session that Keycloak did not end back to the dashboard.
RefreshFails(r, over) ==
  /\ req[r] = Refreshing /\ (token = "none" => over)
  /\ refreshing' = FALSE
  /\ req' = [q \in Request |-> IF Rejected(q, r) THEN Idle ELSE req[q]]
  /\ page' = IF over THEN "out" ELSE page
  /\ hash' = IF over THEN "login" ELSE HomeOf(RolesOf[who])
  /\ token' = IF over THEN "none" ELSE token
  /\ UNCHANGED <<who, search, identity, limiter>>

\* onTokenExpired
AutoRefresh ==
  /\ page = "in" /\ token = "stale"
  /\ token' = "good"
  /\ UNCHANGED <<who, browser, refreshing, req, identity, limiter>>

\* The timeout of 30 seconds, or the connection breaks; the server goes on.
GiveUp(r) ==
  /\ req[r].pc \in OnServer /\ req[r].try # "lost"
  /\ req' = [req EXCEPT ![r] = Forgotten(@)]
  /\ UNCHANGED <<who, browser, token, refreshing, identity, limiter>>

------------------------------------------------------------------------------
(* Requests, on the server.                                                 *)

\* An answer that nobody waits for any more is lost.
Answered(x, answer) ==
  IF x.try = "lost" THEN Idle ELSE [pc |-> "Answered", answer |-> answer]
Counted(x) == [pc |-> "Counted", try |-> x.try, token |-> x.token]
Judged(x, over) == IF over THEN Answered(x, "limited") ELSE Counted(x)

\* incr and pttl in one transaction; counts beyond Max + 1 are not told apart.
Hits == IF redis.hits > Max THEN redis.hits ELSE redis.hits + 1
MutantFirstHit == redis.hits = 0
NeedsExpiry == redis.left = Unset

Incremented == [redis EXCEPT !.hits = Hits]

Hit(r) ==
  /\ req[r].pc = "Sent"
  /\ redis' = Incremented
  /\ req' = [req EXCEPT ![r] =
       IF NeedsExpiry
         THEN [pc |-> "Expiring", try |-> @.try, token |-> @.token,
               over |-> Hits > Max]
         ELSE Judged(@, Hits > Max)]
  /\ UNCHANGED <<who, browser, token, refreshing, identity, faults>>

\* pexpire, a call of its own; it does nothing to a key that is gone.
Bounded == IF redis.hits > 0 THEN [redis EXCEPT !.left = Window] ELSE redis

SetExpiry(r) ==
  /\ req[r].pc = "Expiring"
  /\ redis' = Bounded
  /\ req' = [req EXCEPT ![r] = Judged(@, @.over)]
  /\ UNCHANGED <<who, browser, token, refreshing, identity, faults>>

\* Redis does not answer one of the calls, whether it came through or not: the
\* request is let through.
RedisFails(r) ==
  /\ req[r].pc \in {"Sent", "Expiring"}
  /\ faults < MaxFaults
  /\ faults' = faults + 1
  /\ redis' \in {redis, IF req[r].pc = "Sent" THEN Incremented ELSE Bounded}
  /\ req' = [req EXCEPT ![r] = Counted(@)]
  /\ UNCHANGED <<who, browser, token, refreshing, identity>>

\* authenticateJWT; a second 401 is for the caller (original._retry).
Reject(r) ==
  /\ req[r].pc = "Counted" /\ req[r].token = "stale"
  /\ req' = [req EXCEPT ![r] =
               Answered(@, IF @.try = "second" THEN "refused" ELSE "unauthorised")]
  /\ UNCHANGED <<who, browser, token, refreshing, identity, limiter>>

Heard == [u \in User |-> Outcomes(RolesOf[u])]
\* The ways in which a route that asks who the caller is may ask.
Needs == Heard[who] \cap {"identity", "owner"}

\* scopeToUser lets through who has a record; requireOwnership refuses a record
\* of somebody else, and not one that has no owner or does not exist.
Replies(is) ==
  (IF "owner" \in Needs THEN {"served", "forbidden"} ELSE {})
  \cup (IF "identity" \notin Needs THEN {}
        ELSE IF is = "linked" THEN {"served"} ELSE {"forbidden"})

MutantExpiresLater == entry.age > TTL + 1
Expired == entry.age > TTL
Hitting == entry # NoEntry /\ ~Expired

\* The guard of the route answers by itself.
AnswerAtOnce(r) ==
  /\ req[r].pc = "Counted" /\ req[r].token = "good"
  /\ \E answer \in Heard[who] \ {"identity", "owner"} :
       req' = [req EXCEPT ![r] = Answered(@, answer)]
  /\ UNCHANGED <<who, browser, token, refreshing, identity, limiter>>

\* getCachedIdentity finds an entry that has not expired.
AnswerFromCache(r) ==
  /\ req[r].pc = "Counted" /\ req[r].token = "good"
  /\ Hitting
  /\ \E answer \in Replies(entry.is) :
       req' = [req EXCEPT ![r] = Answered(@, answer)]
  /\ UNCHANGED <<who, browser, token, refreshing, identity, limiter>>

\* It finds none, or drops the one that has expired.
AskDirectory(r) ==
  /\ req[r].pc = "Counted" /\ req[r].token = "good"
  /\ Needs # {} /\ ~Hitting
  /\ req' = [req EXCEPT ![r] = [pc |-> "Lookup", try |-> @.try]]
  /\ entry' = NoEntry
  /\ UNCHANGED <<who, browser, token, refreshing, directory, trueAgo, limiter>>

\* The database reads ...
Look(r) ==
  /\ req[r].pc = "Lookup"
  /\ req' = [req EXCEPT ![r] = [pc |-> "Looked", try |-> @.try,
                               seen |-> directory, ago |-> 0]]
  /\ UNCHANGED <<who, browser, token, refreshing, identity, limiter>>

\* ... and its answer is put into the cache, whatever was put there meanwhile.
Remember(r) ==
  /\ req[r].pc = "Looked"
  /\ entry' = [is |-> req[r].seen, age |-> 0]
  /\ \E answer \in Replies(req[r].seen) :
       req' = [req EXCEPT ![r] = Answered(@, answer)]
  /\ UNCHANGED <<who, browser, token, refreshing, directory, trueAgo, limiter>>

\* The query is refused: Express passes the rejection to the error handler.
LookFails(r) ==
  /\ req[r].pc = "Lookup"
  /\ req' = [req EXCEPT ![r] = Answered(@, "failed")]
  /\ UNCHANGED <<who, browser, token, refreshing, identity, limiter>>

------------------------------------------------------------------------------
(* The world.                                                               *)

\* An applicant becomes a student, a contact is changed, a record removed.
Relink ==
  /\ directory' \in Identity \ {directory}
  /\ trueAgo' = [trueAgo EXCEPT ![directory'] = 0]
  /\ UNCHANGED <<who, browser, token, refreshing, req, entry, limiter>>

\* The token expires or is no longer accepted, in every request under way.
TokenExpires ==
  /\ token = "good"
  /\ token' = "stale"
  /\ req' = [r \in Request |->
               IF req[r].pc \in {"Sent", "Expiring", "Counted"}
                 THEN [req[r] EXCEPT !.token = "stale"] ELSE req[r]]
  /\ UNCHANGED <<who, browser, refreshing, identity, limiter>>

\* What is left of the key in Redis.
Ageing(key) ==
  IF key.left = Unset THEN key
  ELSE IF key.left = 1 THEN NoKey ELSE [key EXCEPT !.left = @ - 1]

\* Time passes, but no query for a person takes longer than MaxLookup.
Tick ==
  /\ \A r \in Request : req[r].pc = "Looked" => req[r].ago < MaxLookup
  /\ req' = [r \in Request |-> IF req[r].pc = "Looked"
                                 THEN [req[r] EXCEPT !.ago = @ + 1]
                                 ELSE req[r]]
  /\ trueAgo' = [i \in Identity |->
                   IF i = directory THEN 0 ELSE Older(trueAgo[i])]
  /\ entry' = IF entry = NoEntry THEN entry
              ELSE [entry EXCEPT !.age = IF @ > TTL THEN @ ELSE @ + 1]
  /\ redis' = Ageing(redis)
  /\ UNCHANGED <<who, browser, token, refreshing, directory, faults>>

Starting ==
  \/ \E b \in BOOLEAN : KeycloakAnswers(b) \/ KeycloakAnswersLate(b)
  \/ InitTimesOut \/ Retry \/ SignOut
  \/ \E p \in Portal : SignIn(p) \/ Open_(p)

InBrowser(r) ==
  \/ Send(r) \/ Settle(r) \/ JoinQueue(r) \/ StartRefresh(r) \/ GiveUp(r)
  \/ \E new \in {"good", token} : RefreshSucceeds(r, new)
  \/ \E over \in BOOLEAN : RefreshFails(r, over)

Handled(r) ==
  \/ Hit(r) \/ SetExpiry(r) \/ Reject(r)
  \/ AnswerAtOnce(r) \/ AnswerFromCache(r) \/ AskDirectory(r)
  \/ Look(r) \/ Remember(r) \/ LookFails(r)

World == Relink \/ TokenExpires \/ AutoRefresh \/ Tick

Next ==
  \/ Starting
  \/ \E r \in Request : InBrowser(r) \/ Handled(r) \/ RedisFails(r)
  \/ World

\* Time passes, and Node goes on with what Redis and the database answered.
Fairness ==
  /\ WF_vars(Tick)
  /\ \A r \in Request : WF_vars(Hit(r) \/ SetExpiry(r) \/ Remember(r))

Spec == Init /\ [][Next]_vars /\ Fairness

------------------------------------------------------------------------------
(* The type invariant.                                                      *)
TypeOK ==
  /\ who \in User
  /\ page \in {"loading", "in", "out", "error"}
  /\ search \in Portal \cup {Nowhere}
  /\ hash \in DOMAIN PortalRoles \cup {Nowhere, "login", "dashboard"}
  /\ token \in {"none", "good", "stale"}
  /\ refreshing \in BOOLEAN
  /\ req \in [Request -> RequestState]
  /\ directory \in Identity
  /\ trueAgo \in [Identity -> Age]
  /\ entry \in [is : Identity, age : 0 .. (TTL + 1)] \cup {NoEntry}
  /\ redis \in [hits : 0 .. (Max + 1), left : (1 .. Window) \cup {Unset}]
  /\ faults \in 0 .. MaxFaults

\* However many requests find their token refused at once, one of them
\* refreshes it, and as long as somebody is in failedQueue one does: nobody is
\* put there after processQueue has been through it (api.ts:51-80).
OneRefreshForAll ==
  /\ \A q, r \in Request : req[q] = Refreshing /\ req[r] = Refreshing => q = r
  /\ (\E q \in Request : req[q] = Queued)
       => \E r \in Request : req[r] = Refreshing

\* What the cache answers with was true at most TTL and one query ago, although
\* lookups overtake one another between the query and setCachedIdentity, and
\* however often the entry is used (data-scope.ts:16-35).
EntryIsRecent ==
  Hitting => trueAgo[entry.is] <= TTL + MaxLookup

\* Nobody is shut out for good: a browser that goes on asking is let through
\* again and again, although the expiry of the counter is set by a second call
\* that may fail or come late (rate-limit.ts:21-40).
BlockedIsReleased ==
  []<>(\E r \in Request : req[r].pc = "Sent") => []<>(redis.hits <= Max)

\* What the tables say of one who was given a role.
Strangers ==
  {role \in ALL_AUTHENTICATED : "unknown" \in Outcomes(InToken(role))}

\* Whoever the guard of a route lets through is known to the data scope behind
\* it, except for the tutors of admissions: roles.ts, the routers and the three
\* groups of data-scope.ts:78-98 are kept in step by hand.
KnownToScope ==
  /\ \A role \in Strangers : "admissions_tutor" \in InToken(role)
  /\ \A r \in Request :
       req[r].pc = "Answered" /\ req[r].answer = "unknown"
         => "admissions_tutor" \in RolesOf[who]
==============================================================================
