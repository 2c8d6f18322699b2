--------------------------- MODULE DashboardAuth ---------------------------
(***************************************************************************)
(* The browser's side of dashboard sessions: several tabs of one browser,  *)
(* each with the module state of web/default/src/lib/api.ts (access token, *)
(* one shared refresh promise), sharing the refresh cookie, localStorage   *)
(* and a BroadcastChannel. web/classic/src/helpers/api.js is the same      *)
(* protocol. The server is the atomic view of UserSession: what a refresh  *)
(* or a logout with a given secret does to a session.                      *)
(*                                                                         *)
(* Time is in events, and they come at any moment: the replay window of a  *)
(* rotation closes (30 s), the lease runs out (15 s), access tokens expire *)
(* (15 min), whatever is under way then. Broadcasts are delivered in any   *)
(* order. A refresh that its tab gives up reaches the server before that   *)
(* or never.                                                               *)
(***************************************************************************)
EXTENDS Naturals, FiniteSets

CONSTANTS Tabs,        \* tabs of one browser
          Nobody,      \* not a tab
          Reqs,        \* concurrent requests of a tab
          MaxLogins,   \* bound: sessions, numbered as they begin
          MaxSecret,   \* bound: secrets of a session
          MaxEvents    \* bound: what people, network, clock and server do

ASSUME DashboardAssumption ==
    /\ Nobody \notin Tabs
    /\ MaxLogins \in Nat \ {0} /\ MaxSecret \in Nat \ {0} /\ MaxEvents \in Nat

VARIABLES
    locks,     \* the browser has navigator.locks
    srv,       \* the sessions on the server
    cookie,    \* the refresh_token cookie
    user,      \* localStorage 'user' is set
    tok,       \* accessToken of every tab
    inbox,     \* broadcast tokens, None for a logout, a tab has not handled
    rf,        \* refreshPromise of every tab: what its refresh is doing
    holder,    \* tab holding the web lock
    lease,     \* the lease in localStorage
    req,       \* the requests of every tab
    events,    \* requests, logins, reloads, failures, timers so far
    lost,      \* history: sessions with a rotation whose answer no tab saw
    crowded    \* history: sessions two tabs were refreshing at once

vars == <<locks, srv, cookie, user, tok, inbox, rf, holder, lease, req, events,
          lost, crowded>>

Sessions == 1..MaxLogins

\* A secret, or a token issued with it: the session and how many it has had.
Secrets == [ses: Sessions, gen: 1..MaxSecret]
None == [ses |-> 0, gen |-> 0]
Maybe == Secrets \cup {None}

Free == [st |-> "none", kind |-> "api", token |-> None, secret |-> None,
         retried |-> FALSE]
Off == [st |-> "off", secret |-> None, ans |-> None]
Wait == [st |-> "wait", secret |-> None, ans |-> None]
NoLease == [owner |-> Nobody, live |-> FALSE]

\* A session that begins. Its tokens up to aged have expired.
Begun == [st |-> "active", cur |-> 1, grace |-> FALSE, aged |-> 0]
NotBegun == [Begun EXCEPT !.st = "none"]

TypeOK ==
    /\ locks \in BOOLEAN /\ user \in BOOLEAN
    /\ events \in 0..MaxEvents
    /\ lost \in SUBSET Sessions /\ crowded \in SUBSET Sessions
    /\ srv \in [Sessions -> [st: {"none", "active", "revoked", "reused"},
                             cur: 1..MaxSecret, grace: BOOLEAN, aged: 0..MaxSecret]]
    /\ cookie \in Maybe
    /\ tok \in [Tabs -> Maybe]
    /\ inbox \in [Tabs -> SUBSET Maybe]
    /\ rf \in [Tabs -> [st: {"off", "wait", "claim", "claimed", "sent", "answered"},
                        secret: Maybe, ans: Maybe]]
    /\ holder \in Tabs \cup {Nobody}
    /\ lease \in [owner: Tabs \cup {Nobody}, live: BOOLEAN]
    /\ req \in [Tabs -> [Reqs ->
          [st: {"none", "wait", "again", "sent", "left", "failed", "bye"},
           kind: {"api", "logout"}, token: Maybe, secret: Maybe, retried: BOOLEAN]]]

\* Signed in, every page just loaded.
Init ==
    /\ locks \in BOOLEAN
    /\ srv = [k \in Sessions |-> IF k = 1 THEN Begun ELSE NotBegun]
    /\ cookie = [ses |-> 1, gen |-> 1] /\ user = TRUE
    /\ tok = [t \in Tabs |-> None]
    /\ inbox = [t \in Tabs |-> {}]
    /\ rf = [t \in Tabs |-> Off]
    /\ holder = Nobody /\ lease = NoLease
    /\ req = [t \in Tabs |-> [r \in Reqs |-> Free]]
    /\ events = 0 /\ lost = {} /\ crowded = {}

----------------------------------------------------------------------------
(* Helpers. *)

SetRequest(t, r, q) == req' = [req EXCEPT ![t] = [req[t] EXCEPT ![r] = q]]
SetRequests(t, qs) == req' = [req EXCEPT ![t] = qs]
SetRefresh(t, x) == rf' = [rf EXCEPT ![t] = x]
SetToken(t, token) == tok' = [tok EXCEPT ![t] = token]
SetSession(k, s) == srv' = [srv EXCEPT ![k] = s]

\* setAccessToken with broadcast: the other tabs get a message.
Broadcast(t, m) ==
    inbox' = [u \in Tabs |-> IF u = t THEN inbox[u] ELSE inbox[u] \cup {m}]

\* The server takes the token: neither it nor its session has ended.
Accepts(token) ==
    token # None /\ srv[token.ses].st = "active" /\ token.gen > srv[token.ses].aged

\* clearExpiredAccessToken.
Unexpired(token) ==
    IF token # None /\ token.gen <= srv[token.ses].aged THEN None ELSE token

\* refreshDashboardAccessToken: the tab's refresh under way, or a new one.
AwaitRefresh(t) == SetRefresh(t, IF rf[t].st = "off" THEN Wait ELSE rf[t])

\* The request leaves the tab with its token and the cookie c.
Sent(q, token, c) ==
    [q EXCEPT !.st = "sent", !.token = IF q.kind = "api" THEN token ELSE None,
              !.secret = IF q.kind = "logout" THEN c ELSE None]

\* A request is rejected; handleSignOut goes on all the same.
Rejected(q) == IF q.kind = "logout" THEN [Free EXCEPT !.st = "bye", !.kind = "logout"]
                                    ELSE Free

\* The requests that await the refresh promise of their tab.
Waiting(t) == {r \in Reqs : req[t][r].st \in {"wait", "again"}}

\* Sent by the interceptor that awaited the token, or, sent once more, through
\* the request interceptor again, which may have to await another refresh.
Resumed(q, token, c) ==
    IF q.st = "again" /\ Unexpired(token) = None /\ user
    THEN [q EXCEPT !.st = "wait"] ELSE Sent(q, token, c)

\* The refresh promise resolves: the awaiting requests go on.
Resolve(t, token, c) ==
    LET again == {r \in Reqs : req[t][r].st = "again"}
        fresh == IF again = {} THEN token ELSE Unexpired(token)
    IN  /\ SetRequests(t, [r \in Reqs |-> IF r \in Waiting(t)
                                          THEN Resumed(req[t][r], token, c) ELSE req[t][r]])
        /\ SetToken(t, fresh)
        /\ SetRefresh(t, IF again # {} /\ fresh = None /\ user THEN Wait ELSE Off)

\* ... or rejects, and they with it.
Failed(t) ==
    [r \in Reqs |-> IF r \in Waiting(t) THEN Rejected(req[t][r]) ELSE req[t][r]]

\* The lock is given back when the callback ends; a lease only by its owner.
Release(t) ==
    /\ holder' = IF holder = t THEN Nobody ELSE holder
    /\ lease' = IF ~locks /\ lease.owner = t THEN NoLease ELSE lease

\* isTerminalDashboardAuthError: the token goes, the others are told, reset.
SignOff(t) ==
    /\ SetToken(t, None)
    /\ Broadcast(t, None)
    /\ user' = FALSE

\* The tab gives up its refresh: an answer with a new secret is lost.
GivesUp(t) == lost' = IF rf[t].ans = None THEN lost ELSE lost \cup {rf[t].ans.ses}

\* Something the protocol does not do by itself.
Event == events < MaxEvents /\ events' = events + 1

----------------------------------------------------------------------------
(* Requests. *)

\* The request interceptor: an expired token is dropped; without a token but
\* with a stored user the request first awaits the tab's refresh promise.
Start(t, r, kind) ==
    LET token == Unexpired(tok[t])
        q == [Free EXCEPT !.kind = kind]
    IN  /\ Event
        /\ req[t][r].st = "none"
        /\ kind = "logout" => user
        /\ SetToken(t, token)
        /\ IF token = None /\ user
           THEN SetRequest(t, r, [q EXCEPT !.st = "wait"]) /\ AwaitRefresh(t)
           ELSE SetRequest(t, r, Sent(q, token, cookie)) /\ UNCHANGED rf
        /\ UNCHANGED <<locks, srv, cookie, user, inbox, holder, lease, lost, crowded>>

\* An API request is answered, or the network fails.
Answered(t, r) ==
    /\ req[t][r].st = "sent" /\ req[t][r].kind = "api" /\ Accepts(req[t][r].token)
    /\ SetRequest(t, r, Free)
    /\ UNCHANGED <<locks, srv, cookie, user, tok, inbox, rf, holder, lease, events, lost, crowded>>

NetworkError(t, r) ==
    /\ Event
    /\ req[t][r].st \in {"sent", "left", "failed"}
    /\ SetRequest(t, r, Rejected(req[t][r]))
    /\ UNCHANGED <<locks, srv, cookie, user, tok, inbox, rf, holder, lease, lost, crowded>>

\* A 401 not yet retried, with a stored user: drop the token, await the
\* refresh, send once more. Any other 401 signs the browser off.
Unauthorized(t, r) ==
    LET q == req[t][r]
    IN  /\ q.st = "sent" /\ q.kind = "api" /\ ~Accepts(q.token)
        /\ IF ~q.retried /\ user
           THEN /\ SetRequest(t, r, [Free EXCEPT !.st = "again", !.retried = TRUE])
                /\ SetToken(t, None) /\ AwaitRefresh(t)
                /\ UNCHANGED <<inbox, user>>
           ELSE /\ SetRequest(t, r, Free)
                /\ SignOff(t) /\ UNCHANGED rf
        /\ UNCHANGED <<locks, srv, cookie, holder, lease, events, lost, crowded>>

----------------------------------------------------------------------------
(* withCrossTabRefreshLock. *)

\* A refresh of the tab is with the server.
Busy(t) == rf[t].st \in {"sent", "answered"}

\* Under the lock: refresh unless another tab's token has arrived meanwhile.
UnderLock(t) ==
    \/ /\ tok[t] = None
       /\ SetRefresh(t, [st |-> "sent", secret |-> cookie, ans |-> None])
       /\ crowded' = crowded \cup {k \in Sessions : cookie.ses = k /\
                         \E u \in Tabs \ {t} : Busy(u) /\ rf[u].secret.ses = k}
       /\ UNCHANGED <<req, tok>>
    \/ /\ tok[t] # None
       /\ Resolve(t, tok[t], cookie)
       /\ UNCHANGED crowded

\* Mutant: the refresh does not wait for the lock.
AcquireHeld(t) ==
    /\ locks /\ rf[t].st = "wait"
    /\ UnderLock(t)
    /\ holder' = IF tok[t] = None THEN t ELSE Nobody
    /\ UNCHANGED <<locks, srv, cookie, user, inbox, lease, events, lost>>

\* Under navigator.locks: one callback at a time.
Acquire(t) ==
    /\ locks /\ rf[t].st = "wait" /\ holder = Nobody
    /\ UnderLock(t)
    /\ holder' = IF tok[t] = None THEN t ELSE Nobody
    /\ UNCHANGED <<locks, srv, cookie, user, inbox, lease, events, lost>>

\* Without web locks: look at the lease, claim it, look again after 25 ms.
LeaseLook(t) ==
    /\ ~locks /\ rf[t].st = "wait"
    /\ \/ tok[t] # None /\ Resolve(t, tok[t], cookie)
       \/ /\ tok[t] = None /\ ~lease.live
          /\ SetRefresh(t, [rf[t] EXCEPT !.st = "claim"]) /\ UNCHANGED <<req, tok>>
    /\ UNCHANGED <<locks, srv, cookie, user, inbox, holder, lease, events, lost, crowded>>

LeaseClaim(t) ==
    /\ rf[t].st = "claim"
    /\ lease' = [owner |-> t, live |-> TRUE]
    /\ SetRefresh(t, [rf[t] EXCEPT !.st = "claimed"])
    /\ UNCHANGED <<locks, srv, cookie, user, tok, inbox, holder, req, events, lost, crowded>>

LeaseCheck(t) ==
    /\ rf[t].st = "claimed"
    /\ \/ /\ lease.owner = t /\ UnderLock(t)
          /\ lease' = IF tok[t] = None THEN lease ELSE NoLease
       \/ /\ lease.owner # t
          /\ SetRefresh(t, Wait) /\ UNCHANGED <<req, tok, lease, crowded>>
    /\ UNCHANGED <<locks, srv, cookie, user, inbox, holder, events, lost>>

----------------------------------------------------------------------------
(* POST /api/user/refresh. *)

\* RefreshLoginSession: rotate, replay inside the window, or refuse; a
\* superseded secret after the window revokes the session.
ServerRefresh(t) ==
    LET s == rf[t].secret
        now == srv[s.ses]
        ours == s # None /\ now.st = "active"
        next == [s EXCEPT !.gen = s.gen + 1]
    IN  /\ rf[t].st = "sent"
        /\ \/ /\ ours /\ s.gen = now.cur /\ s.gen < MaxSecret
              /\ SetSession(s.ses, [now EXCEPT !.cur = s.gen + 1, !.grace = TRUE])
              /\ SetRefresh(t, [rf[t] EXCEPT !.st = "answered", !.ans = next])
           \/ /\ ours /\ s.gen + 1 = now.cur /\ now.grace
              /\ SetRefresh(t, [rf[t] EXCEPT !.st = "answered", !.ans = next])
              /\ UNCHANGED srv
           \/ /\ ours /\ s.gen + 1 = now.cur /\ ~now.grace
              /\ SetSession(s.ses, [now EXCEPT !.st = "reused"])
              /\ SetRefresh(t, [rf[t] EXCEPT !.st = "answered"])
           \/ /\ ours => s.gen + 1 < now.cur
              /\ SetRefresh(t, [rf[t] EXCEPT !.st = "answered"]) /\ UNCHANGED srv
    /\ UNCHANGED <<locks, cookie, user, tok, inbox, holder, lease, req, events, lost, crowded>>

\* The bundle arrives: the cookie is replaced, the token shared.
RefreshArrives(t) ==
    /\ rf[t].st = "answered" /\ rf[t].ans # None
    /\ cookie' = rf[t].ans
    /\ Broadcast(t, rf[t].ans)
    /\ Resolve(t, rf[t].ans, rf[t].ans)
    /\ Release(t)
    /\ UNCHANGED <<locks, srv, user, events, lost, crowded>>

\* A refusal signs the browser off.
RefreshRefused(t) ==
    /\ rf[t].st = "answered" /\ rf[t].ans = None
    /\ SignOff(t) /\ Release(t)
    /\ SetRefresh(t, Off) /\ SetRequests(t, Failed(t))
    /\ UNCHANGED <<locks, srv, cookie, events, lost, crowded>>

\* Mutant: every failed refresh is taken for terminal.
RefreshFailsTerminal(t) ==
    /\ Event
    /\ Busy(t) /\ GivesUp(t)
    /\ SignOff(t) /\ Release(t)
    /\ SetRefresh(t, Off) /\ SetRequests(t, Failed(t))
    /\ UNCHANGED <<locks, srv, cookie, crowded>>

\* The network or the server fails, before or after the rotation.
RefreshFails(t) ==
    /\ Event
    /\ Busy(t) /\ GivesUp(t)
    /\ Release(t)
    /\ SetRefresh(t, Off) /\ SetRequests(t, Failed(t))
    /\ UNCHANGED <<locks, srv, cookie, user, tok, inbox, crowded>>

----------------------------------------------------------------------------
(* Broadcasts, logout, login, pages. *)

Deliver(t) ==
    \E m \in inbox[t] :
        /\ inbox' = [inbox EXCEPT ![t] = inbox[t] \ {m}]
        /\ SetToken(t, m)
        /\ UNCHANGED <<locks, srv, cookie, user, rf, holder, lease, req, events, lost, crowded>>

\* Mutant: only the current secret logs out.
LogoutCurrentOnly(s) ==
    s # None /\ srv[s.ses].st = "active" /\ s.gen = srv[s.ses].cur

\* RevokeByRefreshToken: the current secret, or the previous one in its window.
LogoutAccepted(s) ==
    /\ s # None /\ srv[s.ses].st = "active"
    /\ \/ s.gen = srv[s.ses].cur
       \/ s.gen + 1 = srv[s.ses].cur /\ srv[s.ses].grace

\* A secret that is not accepted is no error. When the deny fence or the
\* transaction fails the answer is success: false, and the session mostly lives.
ServerLogout(t, r) ==
    LET s == req[t][r].secret
        ends == IF LogoutAccepted(s) THEN SetSession(s.ses, [srv[s.ses] EXCEPT !.st = "revoked"])
                                     ELSE UNCHANGED srv
    IN  /\ req[t][r].st = "sent" /\ req[t][r].kind = "logout"
        /\ \/ ends /\ SetRequest(t, r, [req[t][r] EXCEPT !.st = "left"]) /\ UNCHANGED events
           \/ /\ Event /\ s # None /\ (ends \/ UNCHANGED srv)
              /\ SetRequest(t, r, [req[t][r] EXCEPT !.st = "failed"])
        /\ UNCHANGED <<locks, cookie, user, tok, inbox, rf, holder, lease, lost, crowded>>

\* Either answer has status 200: the token goes, handleSignOut goes on. Only a
\* successful one clears the cookie.
LogoutArrives(t, r) ==
    /\ req[t][r].st \in {"left", "failed"}
    /\ cookie' = IF req[t][r].st = "left" THEN None ELSE cookie
    /\ SetToken(t, None) /\ Broadcast(t, None)
    /\ SetRequest(t, r, Rejected(req[t][r]))
    /\ UNCHANGED <<locks, srv, user, rf, holder, lease, events, lost, crowded>>

\* The memory of a page goes with it, and so does the answer it waited for.
Unload(t) ==
    /\ SetToken(t, None)
    /\ inbox' = [inbox EXCEPT ![t] = {}]
    /\ SetRefresh(t, Off) /\ GivesUp(t)
    /\ SetRequests(t, [r \in Reqs |-> Free])
    /\ holder' = IF holder = t THEN Nobody ELSE holder

\* handleSignOut: reset and reload, whatever became of the request.
SignedOut(t, r) ==
    /\ req[t][r].st = "bye"
    /\ user' = FALSE
    /\ Unload(t)
    /\ UNCHANGED <<locks, srv, cookie, lease, crowded, events>>

Reload(t) ==
    /\ Event
    /\ Unload(t)
    /\ UNCHANGED <<locks, srv, cookie, user, lease, crowded>>

\* A login answer: a new session, its cookie and its token.
Login(t) ==
    \E k \in Sessions :
        /\ Event
        /\ ~user
        /\ srv[k].st = "none" /\ \A j \in Sessions : j < k => srv[j].st # "none"
        /\ SetSession(k, Begun)
        /\ cookie' = [ses |-> k, gen |-> 1]
        /\ user' = TRUE
        /\ SetToken(t, [ses |-> k, gen |-> 1]) /\ Broadcast(t, [ses |-> k, gen |-> 1])
        /\ UNCHANGED <<locks, rf, holder, lease, req, lost, crowded>>

----------------------------------------------------------------------------
(* Time and the server. *)

GraceEnds(k) ==
    /\ Event
    /\ srv[k].grace
    /\ SetSession(k, [srv[k] EXCEPT !.grace = FALSE])
    /\ UNCHANGED <<locks, cookie, user, tok, inbox, rf, holder, lease, req, lost, crowded>>

LeaseExpires ==
    /\ Event
    /\ lease.live
    /\ lease' = [lease EXCEPT !.live = FALSE]
    /\ UNCHANGED <<locks, srv, cookie, user, tok, inbox, rf, holder, req, lost, crowded>>

\* The tokens issued with a secret, wherever they are; those of the current
\* one outlive its replay window.
TokensExpire(k) ==
    /\ Event
    /\ srv[k].st # "none"
    /\ srv[k].aged + 1 < srv[k].cur \/ (srv[k].aged < srv[k].cur /\ ~srv[k].grace)
    /\ SetSession(k, [srv[k] EXCEPT !.aged = srv[k].aged + 1])
    /\ UNCHANGED <<locks, cookie, user, tok, inbox, rf, holder, lease, req, lost, crowded>>

\* The user is disabled, changes the password, or the session expires.
ServerRevokes(k) ==
    /\ Event
    /\ srv[k].st = "active"
    /\ SetSession(k, [srv[k] EXCEPT !.st = "revoked"])
    /\ UNCHANGED <<locks, cookie, user, tok, inbox, rf, holder, lease, req, lost, crowded>>

Browser(t) ==
    \/ Acquire(t) \/ LeaseLook(t) \/ LeaseClaim(t) \/ LeaseCheck(t)
    \/ ServerRefresh(t) \/ RefreshArrives(t) \/ RefreshRefused(t)
    \/ Deliver(t)
    \/ \E r \in Reqs :
         \/ Answered(t, r) \/ Unauthorized(t, r)
         \/ ServerLogout(t, r) \/ LogoutArrives(t, r) \/ SignedOut(t, r)

Environment(t) ==
    \/ \E r \in Reqs, kind \in {"api", "logout"} : Start(t, r, kind)
    \/ \E r \in Reqs : NetworkError(t, r)
    \/ RefreshFails(t) \/ Reload(t) \/ Login(t)

Time(k) == GraceEnds(k) \/ TokensExpire(k) \/ ServerRevokes(k)

Next ==
    \/ \E t \in Tabs : Browser(t) \/ Environment(t)
    \/ LeaseExpires
    \/ \E k \in Sessions : Time(k)

Spec == Init /\ [][Next]_vars

----------------------------------------------------------------------------
(* Properties. *)

\* The secret of k that the browser presents can have been superseded: an
\* answer was lost, or, without web locks, the lease ran out under a slow
\* refresh or was claimed late, and two tabs refreshed at once.
Slipped(k) == k \in lost \/ (~locks /\ k \in crowded)

\* The server takes a session for stolen only if the answer of a rotation was
\* lost, or two tabs refreshed at once in a browser without web locks: under
\* navigator.locks tabs never present a superseded secret after the replay
\* window, however slow the answers are, whoever logs in meanwhile
\* (withCrossTabRefreshLock, RefreshReplayWindow).
ReuseNeedsLoss == \A k \in Sessions : srv[k].st = "reused" => Slipped(k)

\* A logout the server has answered with success has ended the session, also
\* when another tab's refresh rotated the secret while it was on its way
\* (RevokeUserSessionByRefreshHash accepts the previous secret): unless the
\* secret was superseded twice, or once and the replay window has closed.
LogoutEndsSession ==
    \A t \in Tabs, r \in Reqs :
       LET s == req[t][r].secret
       IN  req[t][r].st = "left" /\ s # None /\ srv[s.ses].st = "active"
              => \/ s.gen + 1 < srv[s.ses].cur
                 \/ s.gen + 1 = srv[s.ses].cur /\ ~srv[s.ses].grace

\* The stored user is removed only by a sign-out; by a request refused a second
\* time, after its retry with a token that is no good any more; or by a refused
\* refresh, without a cookie or of a session that has ended or slipped: no
\* race of tokens, broadcasts, expiries and retries makes the refresh of a live
\* session fail (the response interceptor, isTerminalDashboardAuthError).
SignOffHasCause ==
    [][ user /\ ~user' =>
          \/ \E t \in Tabs, r \in Reqs :
                \/ req[t][r].st = "bye"
                \/ req[t][r].st = "sent" /\ req[t][r].retried /\ ~Accepts(req[t][r].token)
          \/ \E t \in Tabs :
                /\ rf[t].st = "answered" /\ rf[t].ans = None
                /\ LET s == rf[t].secret
                   IN  s = None \/ srv[s.ses].st # "active" \/ Slipped(s.ses) ]_vars
=============================================================================
