------------------------ MODULE DashboardAuthProofs -------------------------
(***************************************************************************)
(* TLAPS proofs about DashboardAuth, for any number of tabs, requests,     *)
(* sessions and secrets, with either lock, and timers that go off at any   *)
(* moment.                                                                 *)
(*                                                                         *)
(* As long as no answer of a session is lost and no two tabs refresh it at *)
(* once, the cookie is the secret the server expects, or the one answer    *)
(* under way carries it; so what a tab presents is never superseded.  The  *)
(* web lock rules the second out by itself.                                *)
(***************************************************************************)
EXTENDS DashboardAuth, TLAPS

\* What a request, a refresh and a session can be.
Requests == [st: {"none", "wait", "again", "sent", "left", "failed", "bye"},
             kind: {"api", "logout"}, token: Maybe, secret: Maybe, retried: BOOLEAN]
Refreshes == [st: {"off", "wait", "claim", "claimed", "sent", "answered"},
              secret: Maybe, ans: Maybe]
Records == [st: {"none", "active", "revoked", "reused"},
            cur: 1..MaxSecret, grace: BOOLEAN, aged: 0..MaxSecret]

\* Nothing of the session has slipped.
Safe(k) == k \notin lost /\ k \notin crowded

\* The session of a secret has begun, and the secret was handed out.
Known(s) == s # None => srv[s.ses].st # "none" /\ s.gen <= srv[s.ses].cur

\* Under web locks whoever is busy has the lock; two tabs busy with one
\* session are recorded.
LockOK ==
  /\ locks => crowded = {}
  /\ \A t \in Tabs : /\ Busy(t) /\ locks => holder = t
                     /\ rf[t].st \in {"claim", "claimed"} => ~locks
  /\ \A t \in Tabs, u \in Tabs :
       t # u /\ Busy(t) /\ Busy(u) /\ rf[t].secret # None /\ rf[u].secret.ses = rf[t].secret.ses
          => rf[t].secret.ses \in crowded

\* The browser has the secret the server expects, or it is on its way.
CookieOK ==
  /\ Known(cookie)
  /\ cookie # None /\ Safe(cookie.ses) =>
       \/ cookie.gen = srv[cookie.ses].cur
       \/ \E t \in Tabs : /\ rf[t].st = "answered" /\ rf[t].ans # None
                          /\ rf[t].ans.ses = cookie.ses

\* What a refresh under way carries, and what its answer means.
RefreshOK(t) ==
  LET x == rf[t]
  IN  /\ Known(x.secret) /\ Known(x.ans)
      /\ ~Busy(t) => x.secret = None
      /\ x.st # "answered" => x.ans = None
      /\ x.ans # None => x.secret # None /\ x.ans.ses = x.secret.ses
      /\ x.secret # None /\ Safe(x.secret.ses) =>
           /\ x.st = "sent" => x.secret.gen = srv[x.secret.ses].cur
           /\ x.ans # None => x.ans.gen = srv[x.secret.ses].cur
           /\ x.st = "answered" /\ x.ans = None => srv[x.secret.ses].st # "active"

\* A logout answered with success has ended its session, or came too late.
RequestOK(q) ==
  /\ Known(q.secret)
  /\ q.st = "left" /\ q.secret # None /\ srv[q.secret.ses].st = "active" =>
       \/ q.secret.gen + 1 < srv[q.secret.ses].cur
       \/ q.secret.gen + 1 = srv[q.secret.ses].cur /\ ~srv[q.secret.ses].grace

\* The inductive invariant.
BrowserInv ==
  /\ TypeOK /\ LockOK /\ CookieOK /\ ReuseNeedsLoss
  /\ \A t \in Tabs : RefreshOK(t)
  /\ \A t \in Tabs, r \in Reqs : RequestOK(req[t][r])

-----------------------------------------------------------------------------
(* The operators. *)

\* Secrets and tokens.
LEMMA SecretFields ==
  ASSUME NEW s \in Maybe
  PROVE  /\ None \in Maybe /\ None.ses \notin Sessions
         /\ s # None => s \in Secrets /\ s.ses \in Sessions /\ s.gen \in 1..MaxSecret
         /\ s.gen \in Nat
<1>1. None.ses \notin Sessions /\ None.gen \in Nat
  BY DEF None, Sessions
<1>2. s # None => s \in Secrets
  BY DEF Maybe
<1>3. s # None => s.ses \in Sessions /\ s.gen \in 1..MaxSecret
  BY <1>2 DEF Secrets
<1> QED
  BY <1>1, <1>2, <1>3, DashboardAssumption DEF Maybe

\* The types, in parts.
LEMMA Typed ==
  ASSUME TypeOK
  PROVE  /\ rf \in [Tabs -> Refreshes] /\ req \in [Tabs -> [Reqs -> Requests]]
         /\ srv \in [Sessions -> Records] /\ tok \in [Tabs -> Maybe]
         /\ inbox \in [Tabs -> SUBSET Maybe] /\ cookie \in Maybe
         /\ lost \in SUBSET Sessions /\ crowded \in SUBSET Sessions
         /\ locks \in BOOLEAN /\ user \in BOOLEAN /\ events \in 0..MaxEvents
  BY DEF TypeOK, Requests, Refreshes, Records

\* The elements.
LEMMA Elements ==
  ASSUME TypeOK
  PROVE  /\ \A t \in Tabs : rf[t] \in Refreshes /\ req[t] \in [Reqs -> Requests] /\ tok[t] \in Maybe
         /\ \A t \in Tabs, r \in Reqs : req[t][r] \in Requests
         /\ \A k \in Sessions : srv[k] \in Records
  BY Typed

\* The fields of a request.
LEMMA RequestFields ==
  ASSUME NEW q \in Requests
  PROVE  /\ q.st \in {"none", "wait", "again", "sent", "left", "failed", "bye"}
         /\ q.kind \in {"api", "logout"} /\ q.token \in Maybe /\ q.secret \in Maybe
         /\ q.retried \in BOOLEAN
  BY DEF Requests

\* The fields of a refresh.
LEMMA RefreshFields ==
  ASSUME NEW x \in Refreshes
  PROVE  /\ x.st \in {"off", "wait", "claim", "claimed", "sent", "answered"}
         /\ x.secret \in Maybe /\ x.ans \in Maybe
  BY DEF Refreshes

\* The fields of a session.
LEMMA SessionFields ==
  ASSUME NEW s \in Records
  PROVE  /\ s.st \in {"none", "active", "revoked", "reused"}
         /\ s.cur \in 1..MaxSecret /\ s.cur \in Nat /\ s.grace \in BOOLEAN
         /\ s.aged \in 0..MaxSecret /\ s.aged \in Nat
  BY DashboardAssumption DEF Records

\* One tab's refresh changes.
LEMMA SetRefreshEffect ==
  ASSUME TypeOK, NEW t \in Tabs, NEW x \in Refreshes, SetRefresh(t, x)
  PROVE  /\ rf' \in [Tabs -> Refreshes] /\ rf'[t] = x
         /\ \A u \in Tabs : u # t => rf'[u] = rf[u]
<1>1. rf \in [Tabs -> Refreshes]
  BY Typed
<1> QED
  BY <1>1 DEF SetRefresh

\* One request changes.
LEMMA SetRequestEffect ==
  ASSUME TypeOK, NEW t \in Tabs, NEW r \in Reqs, NEW q \in Requests, SetRequest(t, r, q)
  PROVE  /\ req' \in [Tabs -> [Reqs -> Requests]] /\ req'[t][r] = q
         /\ \A u \in Tabs, s \in Reqs : u # t \/ s # r => req'[u][s] = req[u][s]
<1>1. req \in [Tabs -> [Reqs -> Requests]] /\ req[t] \in [Reqs -> Requests]
  BY Typed
<1>2. [req[t] EXCEPT ![r] = q] \in [Reqs -> Requests]
  BY <1>1
<1>3. req' \in [Tabs -> [Reqs -> Requests]]
  BY <1>1, <1>2 DEF SetRequest
<1>4. req'[t] = [req[t] EXCEPT ![r] = q] /\ \A u \in Tabs : u # t => req'[u] = req[u]
  BY <1>1 DEF SetRequest
<1> QED
  BY <1>1, <1>3, <1>4

\* All requests of a tab change.
LEMMA SetRequestsEffect ==
  ASSUME TypeOK, NEW t \in Tabs, NEW qs \in [Reqs -> Requests], SetRequests(t, qs)
  PROVE  /\ req' \in [Tabs -> [Reqs -> Requests]] /\ req'[t] = qs
         /\ \A u \in Tabs : u # t => req'[u] = req[u]
<1>1. req \in [Tabs -> [Reqs -> Requests]]
  BY Typed
<1> QED
  BY <1>1 DEF SetRequests

\* One tab's token changes.
LEMMA SetTokenEffect ==
  ASSUME TypeOK, NEW t \in Tabs, NEW token \in Maybe, SetToken(t, token)
  PROVE  tok' \in [Tabs -> Maybe]
<1>1. tok \in [Tabs -> Maybe]
  BY Typed
<1> QED
  BY <1>1 DEF SetToken

\* One session changes.
LEMMA SetSessionEffect ==
  ASSUME TypeOK, NEW k \in Sessions, NEW s \in Records, SetSession(k, s)
  PROVE  /\ srv' \in [Sessions -> Records] /\ srv'[k] = s
         /\ \A j \in Sessions : j # k => srv'[j] = srv[j]
<1>1. srv \in [Sessions -> Records]
  BY Typed
<1> QED
  BY <1>1 DEF SetSession

\* A message for the others.
LEMMA BroadcastType ==
  ASSUME TypeOK, NEW t \in Tabs, NEW m \in Maybe, Broadcast(t, m)
  PROVE  inbox' \in [Tabs -> SUBSET Maybe]
<1>1. inbox \in [Tabs -> SUBSET Maybe]
  BY Typed
<1> QED
  BY <1>1 DEF Broadcast

\* An event is counted.
LEMMA EventType ==
  ASSUME TypeOK, Event
  PROVE  events' \in 0..MaxEvents
<1>1. events \in 0..MaxEvents /\ MaxEvents \in Nat
  BY Typed, DashboardAssumption
<1> QED
  BY <1>1 DEF Event

\* The records without a history.
LEMMA PlainTypes ==
  /\ Free \in Requests /\ Off \in Refreshes /\ Wait \in Refreshes
  /\ Free.st = "none" /\ Free.secret = None /\ ~Free.retried
  /\ Off.st = "off" /\ Off.secret = None /\ Off.ans = None
  /\ Wait.st = "wait" /\ Wait.secret = None /\ Wait.ans = None
<1>1. None \in Maybe
  BY DEF Maybe
<1> QED
  BY <1>1 DEF Free, Off, Wait, Requests, Refreshes

\* A request that leaves the tab.
LEMMA SentFields ==
  ASSUME NEW q \in Requests, NEW token \in Maybe, NEW c \in Maybe
  PROVE  /\ Sent(q, token, c) \in Requests /\ Sent(q, token, c).st = "sent"
         /\ Sent(q, token, c).secret \in {c, None}
<1>1. None \in Maybe
  BY DEF Maybe
<1> QED
  BY <1>1 DEF Sent, Requests

\* A request that is rejected.
LEMMA RejectedFields ==
  ASSUME NEW q \in Requests
  PROVE  /\ Rejected(q) \in Requests /\ Rejected(q).st \in {"none", "bye"}
         /\ Rejected(q).secret = None
<1>1. None \in Maybe
  BY DEF Maybe
<1> QED
  BY <1>1 DEF Rejected, Free, Requests

\* A token that may have expired.
LEMMA UnexpiredType ==
  ASSUME NEW token \in Maybe
  PROVE  Unexpired(token) \in Maybe
  BY DEF Unexpired, Maybe

\* The requests of a tab after its refresh has failed.
LEMMA FailedFields ==
  ASSUME TypeOK, NEW t \in Tabs
  PROVE  /\ Failed(t) \in [Reqs -> Requests]
         /\ \A r \in Reqs : \/ Failed(t)[r] = req[t][r]
                            \/ Failed(t)[r].st # "left" /\ Failed(t)[r].secret = None
<1>1. \A r \in Reqs : req[t][r] \in Requests
  BY Elements
<1>2. ASSUME NEW r \in Reqs
      PROVE  Rejected(req[t][r]) \in Requests /\ Rejected(req[t][r]).st # "left"
             /\ Rejected(req[t][r]).secret = None
  BY <1>1, RejectedFields
<1> QED
  BY <1>1, <1>2 DEF Failed

\* A request that goes on.
LEMMA ResumedFields ==
  ASSUME NEW q \in Requests, NEW token \in Maybe, NEW c \in Maybe
  PROVE  /\ Resumed(q, token, c) \in Requests /\ Resumed(q, token, c).st # "left"
         /\ Resumed(q, token, c).secret \in {c, None, q.secret}
<1>1. [q EXCEPT !.st = "wait"] \in Requests /\ [q EXCEPT !.st = "wait"].st = "wait"
      /\ [q EXCEPT !.st = "wait"].secret = q.secret
  BY DEF Requests
<1> QED
  BY <1>1, SentFields DEF Resumed

\* The refresh promise of a tab resolves.
LEMMA ResolveEffect ==
  ASSUME TypeOK, NEW t \in Tabs, NEW token \in Maybe, NEW c \in Maybe, Resolve(t, token, c)
  PROVE  /\ tok' \in [Tabs -> Maybe]
         /\ rf' \in [Tabs -> Refreshes] /\ rf'[t] \in {Off, Wait}
         /\ \A u \in Tabs : u # t => rf'[u] = rf[u]
         /\ req' \in [Tabs -> [Reqs -> Requests]]
         /\ \A u \in Tabs, r \in Reqs :
              \/ req'[u][r] = req[u][r]
              \/ req'[u][r].st # "left" /\ req'[u][r].secret \in {c, None, req[u][r].secret}
<1> DEFINE again == {r \in Reqs : req[t][r].st = "again"}
           fresh == IF again = {} THEN token ELSE Unexpired(token)
           qs == [r \in Reqs |-> IF r \in Waiting(t)
                                THEN Resumed(req[t][r], token, c) ELSE req[t][r]]
           x == IF again # {} /\ fresh = None /\ user THEN Wait ELSE Off
<1>1. SetRequests(t, qs) /\ SetToken(t, fresh) /\ SetRefresh(t, x)
  BY DEF Resolve
<1>2. fresh \in Maybe /\ x \in Refreshes /\ x \in {Off, Wait}
  BY UnexpiredType, PlainTypes
<1>3. \A r \in Reqs : req[t][r] \in Requests
  BY Elements
<1>4. \A r \in Reqs : /\ Resumed(req[t][r], token, c) \in Requests
                      /\ Resumed(req[t][r], token, c).st # "left"
                      /\ Resumed(req[t][r], token, c).secret \in {c, None, req[t][r].secret}
  BY <1>3, ResumedFields
<1>5. /\ qs \in [Reqs -> Requests]
      /\ \A r \in Reqs : \/ qs[r] = req[t][r]
                         \/ qs[r].st # "left" /\ qs[r].secret \in {c, None, req[t][r].secret}
  BY <1>3, <1>4
<1> HIDE DEF qs, x, fresh
<1>6. /\ req' \in [Tabs -> [Reqs -> Requests]] /\ req'[t] = qs
      /\ \A u \in Tabs : u # t => req'[u] = req[u]
  BY <1>1, <1>5, SetRequestsEffect
<1>7. tok' \in [Tabs -> Maybe]
  BY <1>1, <1>2, SetTokenEffect
<1>8. /\ rf' \in [Tabs -> Refreshes] /\ rf'[t] = x
      /\ \A u \in Tabs : u # t => rf'[u] = rf[u]
  BY <1>1, <1>2, SetRefreshEffect
<1> QED
  BY <1>2, <1>5, <1>6, <1>7, <1>8

-----------------------------------------------------------------------------
(* What the parts of the invariant depend on. *)

\* What is known before a step.
LEMMA Before ==
  ASSUME BrowserInv
  PROVE  /\ TypeOK /\ LockOK /\ CookieOK /\ ReuseNeedsLoss
         /\ cookie \in Maybe /\ \A t \in Tabs : tok[t] \in Maybe
         /\ \A t \in Tabs : /\ RefreshOK(t) /\ rf[t] \in Refreshes
                            /\ rf[t].secret \in Maybe /\ rf[t].ans \in Maybe
         /\ \A t \in Tabs, r \in Reqs : /\ RequestOK(req[t][r]) /\ req[t][r] \in Requests
                                        /\ req[t][r].secret \in Maybe
         /\ \A k \in Sessions : srv[k] \in Records
<1>1. TypeOK
  BY DEF BrowserInv
<1>2. /\ \A t \in Tabs : rf[t] \in Refreshes /\ tok[t] \in Maybe
      /\ \A t \in Tabs, r \in Reqs : req[t][r] \in Requests
      /\ \A k \in Sessions : srv[k] \in Records
  BY <1>1, Elements
<1> QED
  BY <1>1, <1>2, Typed, RefreshFields, RequestFields DEF BrowserInv

\* The parts together.
LEMMA Together ==
  ASSUME TypeOK', LockOK', CookieOK', ReuseNeedsLoss', \A t \in Tabs : RefreshOK(t)',
         \A t \in Tabs, r \in Reqs : RequestOK(req[t][r])'
  PROVE  BrowserInv'
  BY DEF BrowserInv

\* Sessions that have begun only go on: none comes back to life, and a replay
\* window opens with a new secret.
Onward == \A k \in Sessions : srv[k].st # "none" =>
  /\ srv'[k].st # "none" /\ (srv'[k].st = "active" => srv[k].st = "active")
  /\ srv[k].cur <= srv'[k].cur
  /\ srv[k].cur = srv'[k].cur /\ srv'[k].grace => srv[k].grace

\* The requests, while the sessions go on.
LEMMA RequestsKept ==
  ASSUME BrowserInv, TypeOK', Onward,
         \A u \in Tabs, s \in Reqs :
            req'[u][s] = req[u][s] \/ RequestOK(req[u][s])'
  PROVE  \A u \in Tabs, s \in Reqs : RequestOK(req[u][s])'
<1> SUFFICES ASSUME NEW u \in Tabs, NEW s \in Reqs PROVE RequestOK(req[u][s])'
  OBVIOUS
<1>1. CASE req'[u][s] = req[u][s]
  <2> DEFINE q == req[u][s]
             k == req[u][s].secret.ses
  <2>1. RequestOK(q) /\ q.secret \in Maybe
    BY Before
  <2>2. CASE q.secret = None
    BY <1>1, <2>2 DEF RequestOK, Known
  <2>3. CASE q.secret # None
    <3>1. k \in Sessions /\ q.secret.gen \in Nat
      BY <2>1, <2>3, SecretFields
    <3>2. srv[k].st # "none"
      BY <2>1, <2>3 DEF RequestOK, Known
    <3>3. srv[k].cur \in Nat /\ srv'[k].cur \in Nat
      <4>1. srv[k] \in Records /\ srv'[k] \in Records
        BY <3>1, Before DEF TypeOK, Records
      <4> QED
        BY <4>1, SessionFields
    <3>4. /\ srv'[k].st # "none" /\ (srv'[k].st = "active" => srv[k].st = "active")
          /\ srv[k].cur <= srv'[k].cur
          /\ srv[k].cur = srv'[k].cur /\ srv'[k].grace => srv[k].grace
      BY <3>1, <3>2 DEF Onward
    <3> QED
      BY <1>1, <2>1, <2>3, <3>1, <3>3, <3>4 DEF RequestOK, Known
  <2> QED
    BY <2>2, <2>3
<1> QED
  BY <1>1

\* A server at rest goes on.
LEMMA AtRest ==
  ASSUME BrowserInv, UNCHANGED srv
  PROVE  Onward
<1>1. \A k \in Sessions : srv[k].cur \in Nat
  BY Before, SessionFields
<1> QED
  BY <1>1 DEF Onward

\* The browser's part, while cookie and refreshes rest and nothing is rotated.
LEMMA BrowserRests ==
  ASSUME BrowserInv, UNCHANGED <<locks, cookie, rf, holder, lost, crowded>>,
         \A k \in Sessions : /\ srv'[k].cur = srv[k].cur
                             /\ srv[k].st # "none" => srv'[k].st # "none"
                             /\ srv'[k].st = "active" => srv[k].st = "active"
                             /\ srv'[k].st = "reused" => srv[k].st = "reused"
  PROVE  LockOK' /\ CookieOK' /\ ReuseNeedsLoss' /\ \A t \in Tabs : RefreshOK(t)'
<1>1. LockOK'
  BY Before DEF LockOK, Busy
<1>2. CookieOK'
  <2>1. CookieOK /\ cookie \in Maybe
    BY Before
  <2>2. cookie # None => cookie.ses \in Sessions
    BY <2>1, SecretFields
  <2> QED
    BY <2>1, <2>2 DEF CookieOK, Known, Safe
<1>3. ReuseNeedsLoss'
  BY Before DEF ReuseNeedsLoss, Slipped
<1>4. ASSUME NEW t \in Tabs PROVE RefreshOK(t)'
  <2>1. RefreshOK(t) /\ rf[t].secret \in Maybe
    BY Before
  <2>2. /\ rf[t].secret # None => rf[t].secret.ses \in Sessions
        /\ rf[t].ans # None => rf[t].ans.ses \in Sessions
    BY <2>1, SecretFields, Before
  <2> QED
    BY <2>1, <2>2 DEF RefreshOK, Known, Safe, Busy
<1> QED
  BY <1>1, <1>2, <1>3, <1>4

\* The browser's part, while the server rests and no refresh leaves or ends.
LEMMA ServerRests ==
  ASSUME BrowserInv, UNCHANGED <<locks, srv, holder, lost, crowded>>,
         cookie' \in {cookie, None},
         \A u \in Tabs :
            \/ rf'[u] = rf[u]
            \/ /\ ~Busy(u) /\ rf'[u].secret = None /\ rf'[u].ans = None
               /\ rf'[u].st \in {"off", "wait"} \/ (rf'[u].st \in {"claim", "claimed"} /\ ~locks)
  PROVE  LockOK' /\ CookieOK' /\ ReuseNeedsLoss' /\ \A t \in Tabs : RefreshOK(t)'
<1>1. LockOK'
  BY Before DEF LockOK, Busy
<1>2. CookieOK'
  <2>1. CookieOK
    BY Before
  <2>2. CASE cookie' = None
    BY <2>2 DEF CookieOK, Known
  <2>3. CASE cookie' = cookie
    BY <2>1, <2>3 DEF CookieOK, Known, Safe, Busy
  <2> QED
    BY <2>2, <2>3
<1>3. ReuseNeedsLoss'
  BY Before DEF ReuseNeedsLoss, Slipped
<1>4. ASSUME NEW t \in Tabs PROVE RefreshOK(t)'
  <2>1. RefreshOK(t)
    BY Before
  <2> QED
    BY <2>1 DEF RefreshOK, Known, Safe, Busy
<1> QED
  BY <1>1, <1>2, <1>3, <1>4

\* The secrets a request may have got while the server rests.
LEMMA SecretsKnown ==
  ASSUME BrowserInv, UNCHANGED srv, NEW u \in Tabs, NEW s \in Reqs,
         req'[u][s].secret \in {cookie, None, req[u][s].secret}
  PROVE  Known(req[u][s].secret)'
<1>1. Known(cookie) /\ Known(req[u][s].secret)
  BY Before DEF CookieOK, RequestOK
<1> QED
  BY <1>1 DEF Known

\* A step within the browser.
LEMMA QuietStep ==
  ASSUME BrowserInv, TypeOK', UNCHANGED <<locks, srv, holder, lost, crowded>>,
         cookie' \in {cookie, None},
         \A u \in Tabs :
            \/ rf'[u] = rf[u]
            \/ /\ ~Busy(u) /\ rf'[u].secret = None /\ rf'[u].ans = None
               /\ rf'[u].st \in {"off", "wait"} \/ (rf'[u].st \in {"claim", "claimed"} /\ ~locks),
         \A u \in Tabs, s \in Reqs :
            \/ req'[u][s] = req[u][s]
            \/ req'[u][s].st # "left" /\ req'[u][s].secret \in {cookie, None, req[u][s].secret}
  PROVE  BrowserInv'
<1>1. \A u \in Tabs, s \in Reqs : req'[u][s] = req[u][s] \/ RequestOK(req[u][s])'
  BY SecretsKnown DEF RequestOK
<1>2. \A u \in Tabs, s \in Reqs : RequestOK(req[u][s])'
  BY <1>1, AtRest, RequestsKept
<1>3. LockOK' /\ CookieOK' /\ ReuseNeedsLoss' /\ \A t \in Tabs : RefreshOK(t)'
  BY ServerRests
<1> QED
  BY <1>2, <1>3, Together

\* A request, and perhaps the refresh it awaits, changes within the browser.
LEMMA RequestStep ==
  ASSUME BrowserInv, NEW t \in Tabs, NEW r \in Reqs, NEW q \in Requests, SetRequest(t, r, q),
         q.st # "left", q.secret \in {cookie, None, req[t][r].secret},
         AwaitRefresh(t) \/ UNCHANGED rf, cookie' \in {cookie, None},
         tok' \in [Tabs -> Maybe], inbox' \in [Tabs -> SUBSET Maybe], user' \in BOOLEAN,
         events' \in 0..MaxEvents, UNCHANGED <<locks, srv, holder, lease, lost, crowded>>
  PROVE  BrowserInv'
<1>1. TypeOK /\ rf[t] \in Refreshes /\ cookie \in Maybe /\ None \in Maybe
  BY Before DEF Maybe
<1>2. /\ req' \in [Tabs -> [Reqs -> Requests]] /\ req'[t][r] = q
      /\ \A u \in Tabs, s \in Reqs : u # t \/ s # r => req'[u][s] = req[u][s]
  BY <1>1, SetRequestEffect
<1>3. /\ rf' \in [Tabs -> Refreshes]
      /\ \A u \in Tabs : rf'[u] = rf[u] \/ (rf[u].st = "off" /\ rf'[u] = Wait)
  <2>1. CASE UNCHANGED rf
    BY <1>1, <2>1, Typed
  <2>2. CASE AwaitRefresh(t)
    <3>1. (IF rf[t].st = "off" THEN Wait ELSE rf[t]) \in Refreshes
      BY <1>1, PlainTypes
    <3>2. /\ rf' \in [Tabs -> Refreshes] /\ rf'[t] = (IF rf[t].st = "off" THEN Wait ELSE rf[t])
          /\ \A u \in Tabs : u # t => rf'[u] = rf[u]
      BY <1>1, <2>2, <3>1, SetRefreshEffect DEF AwaitRefresh
    <3> QED
      BY <3>2
  <2> QED
    BY <2>1, <2>2
<1>4. TypeOK'
  BY <1>1, <1>2, <1>3 DEF TypeOK, Requests, Refreshes
<1>5. \A u \in Tabs :
         \/ rf'[u] = rf[u]
         \/ /\ ~Busy(u) /\ rf'[u].secret = None /\ rf'[u].ans = None
            /\ rf'[u].st \in {"off", "wait"} \/ (rf'[u].st \in {"claim", "claimed"} /\ ~locks)
  BY <1>3, PlainTypes DEF Busy
<1> QED
  BY <1>2, <1>4, <1>5, QuietStep

-----------------------------------------------------------------------------
(* One lemma per operation. *)

\* The request interceptor.
LEMMA StartInv ==
  ASSUME BrowserInv, NEW t \in Tabs, NEW r \in Reqs, NEW kind \in {"api", "logout"}, Start(t, r, kind)
  PROVE  BrowserInv'
<1> DEFINE token == Unexpired(tok[t])
           q == [Free EXCEPT !.kind = kind]
           w == [q EXCEPT !.st = "wait"]
           n == IF token = None /\ user THEN w ELSE Sent(q, token, cookie)
<1>1. TypeOK /\ cookie \in Maybe /\ token \in Maybe
  BY Before, UnexpiredType
<1>2. q \in Requests /\ w \in Requests /\ w.st = "wait" /\ w.secret = None
  BY PlainTypes DEF Free, Requests
<1>3. n \in Requests /\ n.st # "left" /\ n.secret \in {cookie, None, req[t][r].secret}
  BY <1>1, <1>2, SentFields
<1>4. SetToken(t, token) /\ Event /\ SetRequest(t, r, n) /\ (AwaitRefresh(t) \/ UNCHANGED rf)
      /\ UNCHANGED <<locks, srv, cookie, user, inbox, holder, lease, lost, crowded>>
  BY DEF Start
<1> HIDE DEF n, token
<1>5. tok' \in [Tabs -> Maybe] /\ events' \in 0..MaxEvents
  BY <1>1, <1>4, SetTokenEffect, EventType
<1>6. inbox' \in [Tabs -> SUBSET Maybe] /\ user' \in BOOLEAN
  BY <1>1, <1>4, Typed
<1> QED
  BY <1>3, <1>4, <1>5, <1>6, RequestStep

\* An answer to a request, or none.
LEMMA AnswerInv ==
  ASSUME BrowserInv, NEW t \in Tabs, NEW r \in Reqs, Answered(t, r) \/ NetworkError(t, r)
  PROVE  BrowserInv'
<1>1. TypeOK /\ req[t][r] \in Requests
  BY Before
<1>2. PICK q \in {Free, Rejected(req[t][r])} : SetRequest(t, r, q)
  BY DEF Answered, NetworkError
<1>3. q \in Requests /\ q.st # "left" /\ q.secret = None
  BY <1>1, <1>2, PlainTypes, RejectedFields
<1>4. UNCHANGED <<locks, srv, cookie, user, tok, inbox, rf, holder, lease, lost, crowded>>
  BY DEF Answered, NetworkError
<1>5. events' \in 0..MaxEvents
  BY <1>1, EventType, Typed DEF Answered, NetworkError
<1>6. tok' \in [Tabs -> Maybe] /\ inbox' \in [Tabs -> SUBSET Maybe] /\ user' \in BOOLEAN
  BY <1>1, <1>4, Typed
<1> QED
  BY <1>2, <1>3, <1>4, <1>5, <1>6, RequestStep

\* A 401.
LEMMA UnauthorizedInv ==
  ASSUME BrowserInv, NEW t \in Tabs, NEW r \in Reqs, Unauthorized(t, r)
  PROVE  BrowserInv'
<1> DEFINE w == [Free EXCEPT !.st = "again", !.retried = TRUE]
<1>1. TypeOK /\ None \in Maybe
  BY Before DEF Maybe
<1>2. w \in Requests /\ w.st = "again" /\ w.secret = None
  BY PlainTypes DEF Free, Requests
<1>3. PICK q \in {w, Free} : SetRequest(t, r, q)
  BY DEF Unauthorized
<1>4. q \in Requests /\ q.st # "left" /\ q.secret = None
  BY <1>2, <1>3, PlainTypes
<1>5. /\ SetToken(t, None) /\ (Broadcast(t, None) \/ UNCHANGED inbox) /\ (user' = FALSE \/ UNCHANGED user)
      /\ AwaitRefresh(t) \/ UNCHANGED rf
      /\ UNCHANGED <<locks, srv, cookie, holder, lease, events, lost, crowded>>
  BY DEF Unauthorized, SignOff
<1>6. /\ tok' \in [Tabs -> Maybe] /\ inbox' \in [Tabs -> SUBSET Maybe] /\ user' \in BOOLEAN
      /\ events' \in 0..MaxEvents
  BY <1>1, <1>5, SetTokenEffect, BroadcastType, Typed
<1> QED
  BY <1>3, <1>4, <1>5, <1>6, RequestStep

\* The answer of a logout arrives.
LEMMA LogoutArrivesInv ==
  ASSUME BrowserInv, NEW t \in Tabs, NEW r \in Reqs, LogoutArrives(t, r)
  PROVE  BrowserInv'
<1> DEFINE q == Rejected(req[t][r])
<1>1. TypeOK /\ req[t][r] \in Requests /\ None \in Maybe
  BY Before DEF Maybe
<1>2. q \in Requests /\ q.st # "left" /\ q.secret = None
  BY <1>1, RejectedFields
<1>3. /\ SetRequest(t, r, q) /\ SetToken(t, None) /\ Broadcast(t, None)
      /\ cookie' \in {cookie, None}
      /\ UNCHANGED <<locks, srv, user, rf, holder, lease, events, lost, crowded>>
  BY DEF LogoutArrives
<1> HIDE DEF q
<1>4. /\ tok' \in [Tabs -> Maybe] /\ inbox' \in [Tabs -> SUBSET Maybe] /\ user' \in BOOLEAN
      /\ events' \in 0..MaxEvents
  BY <1>1, <1>3, SetTokenEffect, BroadcastType, Typed
<1> QED
  BY <1>2, <1>3, <1>4, RequestStep

\* A broadcast is handled, the lease runs out, or nothing happens.
LEMMA RestInv ==
  ASSUME BrowserInv, (\E t \in Tabs : Deliver(t)) \/ LeaseExpires \/ UNCHANGED vars
  PROVE  BrowserInv'
<1>1. TypeOK
  BY Before
<1>2. UNCHANGED <<locks, srv, cookie, user, rf, holder, req, lost, crowded>>
  BY DEF Deliver, LeaseExpires, vars
<1>3. tok' \in [Tabs -> Maybe] /\ inbox' \in [Tabs -> SUBSET Maybe]
  <2>1. ASSUME NEW t \in Tabs, Deliver(t) PROVE tok' \in [Tabs -> Maybe] /\ inbox' \in [Tabs -> SUBSET Maybe]
    <3>1. PICK m \in inbox[t] : inbox' = [inbox EXCEPT ![t] = inbox[t] \ {m}] /\ SetToken(t, m)
      BY <2>1 DEF Deliver
    <3>2. inbox \in [Tabs -> SUBSET Maybe]
      BY <1>1, Typed
    <3>3. m \in Maybe
      BY <3>1, <3>2
    <3> QED
      BY <1>1, <3>1, <3>2, <3>3, SetTokenEffect
  <2>2. CASE LeaseExpires \/ UNCHANGED vars
    BY <1>1, <2>2, Typed DEF LeaseExpires, vars
  <2> QED
    BY <2>1, <2>2
<1>4. lease' \in [owner: Tabs \cup {Nobody}, live: BOOLEAN] /\ events' \in 0..MaxEvents
  <2>1. lease \in [owner: Tabs \cup {Nobody}, live: BOOLEAN]
    BY <1>1 DEF TypeOK
  <2> QED
    BY <1>1, <2>1, EventType, Typed DEF Deliver, LeaseExpires, vars
<1>5. TypeOK'
  BY <1>1, <1>2, <1>3, <1>4 DEF TypeOK
<1> QED
  BY <1>2, <1>5, QuietStep

\* The lease is claimed.
LEMMA ClaimInv ==
  ASSUME BrowserInv, NEW t \in Tabs, LeaseClaim(t)
  PROVE  BrowserInv'
<1> DEFINE x == [rf[t] EXCEPT !.st = "claimed"]
<1>1. TypeOK /\ rf[t] \in Refreshes /\ RefreshOK(t) /\ LockOK
  BY Before
<1>2. x \in Refreshes /\ x.st = "claimed" /\ x.secret = rf[t].secret /\ x.ans = rf[t].ans
  BY <1>1 DEF Refreshes
<1>3. /\ SetRefresh(t, x) /\ rf[t].st = "claim" /\ lease' = [owner |-> t, live |-> TRUE]
      /\ UNCHANGED <<locks, srv, cookie, user, tok, inbox, holder, req, events, lost, crowded>>
  BY DEF LeaseClaim
<1> HIDE DEF x
<1>4. /\ rf' \in [Tabs -> Refreshes] /\ rf'[t] = x
      /\ \A u \in Tabs : u # t => rf'[u] = rf[u]
  BY <1>1, <1>2, <1>3, SetRefreshEffect
<1>5. TypeOK'
  BY <1>1, <1>3, <1>4 DEF TypeOK, Refreshes
<1>6. x.secret = None /\ x.ans = None /\ ~locks /\ ~Busy(t)
  BY <1>1, <1>2, <1>3 DEF RefreshOK, LockOK, Busy
<1> QED
  BY <1>2, <1>3, <1>4, <1>5, <1>6, QuietStep

\* The awaited token is there.
LEMMA TokenFound ==
  ASSUME BrowserInv, NEW t \in Tabs, ~Busy(t), Resolve(t, tok[t], cookie),
         lease' \in [owner: Tabs \cup {Nobody}, live: BOOLEAN],
         UNCHANGED <<locks, srv, cookie, user, inbox, holder, events, lost, crowded>>
  PROVE  BrowserInv'
<1>1. TypeOK /\ cookie \in Maybe /\ tok[t] \in Maybe
  BY Before
<1>2. /\ tok' \in [Tabs -> Maybe]
      /\ rf' \in [Tabs -> Refreshes] /\ rf'[t] \in {Off, Wait}
      /\ \A u \in Tabs : u # t => rf'[u] = rf[u]
      /\ req' \in [Tabs -> [Reqs -> Requests]]
      /\ \A u \in Tabs, r \in Reqs :
           \/ req'[u][r] = req[u][r]
           \/ req'[u][r].st # "left" /\ req'[u][r].secret \in {cookie, None, req[u][r].secret}
  BY <1>1, ResolveEffect
<1>3. TypeOK'
  BY <1>1, <1>2 DEF TypeOK, Requests, Refreshes
<1>4. \A u \in Tabs :
         \/ rf'[u] = rf[u]
         \/ /\ ~Busy(u) /\ rf'[u].secret = None /\ rf'[u].ans = None
            /\ rf'[u].st \in {"off", "wait"} \/ (rf'[u].st \in {"claim", "claimed"} /\ ~locks)
  BY <1>2, PlainTypes
<1> QED
  BY <1>2, <1>3, <1>4, QuietStep

\* A refresh leaves with the cookie: when its session is safe, nobody else has
\* a newer secret.
LEMMA RefreshLeaves ==
  ASSUME BrowserInv, NEW t \in Tabs, ~Busy(t),
         SetRefresh(t, [st |-> "sent", secret |-> cookie, ans |-> None]),
         crowded' = crowded \cup {k \in Sessions : cookie.ses = k /\
                       \E u \in Tabs \ {t} : Busy(u) /\ rf[u].secret.ses = k},
         lease' \in [owner: Tabs \cup {Nobody}, live: BOOLEAN],
         holder' \in Tabs \cup {Nobody}, locks => holder = Nobody /\ holder' = t,
         UNCHANGED <<locks, srv, cookie, user, tok, inbox, req, events, lost>>
  PROVE  BrowserInv'
<1> DEFINE x == [st |-> "sent", secret |-> cookie, ans |-> None]
<1>1. /\ TypeOK /\ cookie \in Maybe /\ LockOK /\ CookieOK /\ ReuseNeedsLoss
      /\ \A u \in Tabs : RefreshOK(u) /\ rf[u].secret \in Maybe
  BY Before
<1>2. x \in Refreshes /\ x.st = "sent" /\ x.secret = cookie /\ x.ans = None
  BY <1>1 DEF Refreshes, Maybe
<1>3. SetRefresh(t, x)
  OBVIOUS
<1> HIDE DEF x
<1>4. /\ rf' \in [Tabs -> Refreshes] /\ rf'[t] = x
      /\ \A u \in Tabs : u # t => rf'[u] = rf[u]
  BY <1>1, <1>2, <1>3, SetRefreshEffect
<1>5. crowded' \in SUBSET Sessions /\ crowded \subseteq crowded'
  BY <1>1, Typed
<1>6. TypeOK'
  BY <1>1, <1>4, <1>5 DEF TypeOK, Refreshes
<1>7. \A k \in Sessions : Safe(k)' => Safe(k)
  BY <1>5 DEF Safe
<1>8. ASSUME locks PROVE \A u \in Tabs : ~Busy(u)
  BY <1>1, <1>8, DashboardAssumption DEF LockOK
<1>9. cookie # None => cookie.ses \in Sessions
  BY <1>1, SecretFields
<1>10. ASSUME NEW u \in Tabs, u # t, Busy(u), cookie # None, rf[u].secret.ses = cookie.ses
       PROVE  cookie.ses \in crowded'
  BY <1>9, <1>10
<1>11. LockOK'
  <2>1. locks' => crowded' = {}
    BY <1>1, <1>8 DEF LockOK
  <2>2. ASSUME NEW u \in Tabs
        PROVE  /\ Busy(u)' /\ locks' => holder' = u
               /\ rf'[u].st \in {"claim", "claimed"} => ~locks'
    BY <1>1, <1>2, <1>4, <1>8 DEF LockOK, Busy
  <2>3. ASSUME NEW u \in Tabs, NEW v \in Tabs, u # v, Busy(u)', Busy(v)', rf'[u].secret # None,
               rf'[v].secret.ses = rf'[u].secret.ses
        PROVE  rf'[u].secret.ses \in crowded'
    <3>1. CASE u # t /\ v # t
      <4>1. Busy(u) /\ Busy(v) /\ rf'[u] = rf[u] /\ rf'[v] = rf[v]
        BY <1>4, <2>3, <3>1 DEF Busy
      <4> QED
        BY <1>1, <1>5, <2>3, <4>1 DEF LockOK
    <3>2. CASE u = t
      <4>1. Busy(v) /\ rf'[v] = rf[v] /\ rf'[u].secret = cookie
        BY <1>2, <1>4, <2>3, <3>2 DEF Busy
      <4> QED
        BY <1>10, <2>3, <3>2, <4>1
    <3>3. CASE v = t
      <4>1. Busy(u) /\ rf'[u] = rf[u] /\ rf'[v].secret = cookie
        BY <1>2, <1>4, <2>3, <3>3 DEF Busy
      <4>2. rf[u].secret.ses \in Sessions
        BY <1>1, <2>3, <4>1, SecretFields
      <4>3. cookie # None
        BY <1>1, <2>3, <4>1, <4>2, SecretFields
      <4> QED
        BY <1>10, <2>3, <3>3, <4>1, <4>3
    <3> QED
      BY <3>1, <3>2, <3>3
  <2> QED
    BY <2>1, <2>2, <2>3 DEF LockOK
<1>12. ASSUME cookie # None, Safe(cookie.ses)' PROVE cookie.gen = srv[cookie.ses].cur
  <2>1. Safe(cookie.ses)
    BY <1>7, <1>9, <1>12
  <2>2. ASSUME NEW u \in Tabs, rf[u].st = "answered", rf[u].ans # None, rf[u].ans.ses = cookie.ses
        PROVE  FALSE
    <3>1. Busy(u) /\ u # t
      BY <2>2 DEF Busy
    <3>2. rf[u].secret.ses = cookie.ses
      BY <1>1, <2>2 DEF RefreshOK
    <3>3. cookie.ses \in crowded'
      BY <1>10, <1>12, <3>1, <3>2
    <3> QED
      BY <1>12, <3>3 DEF Safe
  <2> QED
    BY <1>1, <1>12, <2>1, <2>2 DEF CookieOK
<1>13. CookieOK'
  <2>1. Known(cookie)'
    BY <1>1 DEF CookieOK, Known
  <2> QED
    BY <1>12, <2>1 DEF CookieOK
<1>14. ReuseNeedsLoss'
  BY <1>1, <1>5 DEF ReuseNeedsLoss, Slipped
<1>15. ASSUME NEW u \in Tabs PROVE RefreshOK(u)'
  <2>1. CASE u = t
    BY <1>1, <1>2, <1>4, <1>12, <2>1 DEF RefreshOK, CookieOK, Known, Busy
  <2>2. CASE u # t
    <3>1. rf'[u] = rf[u] /\ RefreshOK(u)
      BY <1>1, <1>4, <2>2
    <3>2. rf[u].secret # None => rf[u].secret.ses \in Sessions
      BY <1>1, SecretFields
    <3> QED
      BY <1>7, <3>1, <3>2 DEF RefreshOK, Known, Busy
  <2> QED
    BY <2>1, <2>2
<1>16. \A u \in Tabs, s \in Reqs : RequestOK(req[u][s])'
  BY <1>6, AtRest, RequestsKept
<1> QED
  BY <1>6, <1>11, <1>13, <1>14, <1>15, <1>16, Together

\* The web lock is granted.
LEMMA AcquireInv ==
  ASSUME BrowserInv, NEW t \in Tabs, Acquire(t)
  PROVE  BrowserInv'
<1>1. ~Busy(t) /\ lease' \in [owner: Tabs \cup {Nobody}, live: BOOLEAN]
  BY Before DEF Acquire, Busy, TypeOK
<1>2. CASE tok[t] = None
  BY <1>1, <1>2, RefreshLeaves DEF Acquire, UnderLock
<1>3. CASE tok[t] # None
  BY <1>1, <1>3, TokenFound DEF Acquire, UnderLock
<1> QED
  BY <1>2, <1>3

\* The lease is looked at.
LEMMA LookInv ==
  ASSUME BrowserInv, NEW t \in Tabs, LeaseLook(t)
  PROVE  BrowserInv'
<1> DEFINE x == [rf[t] EXCEPT !.st = "claim"]
<1>1. TypeOK /\ rf[t] \in Refreshes /\ RefreshOK(t)
  BY Before
<1>2. ~Busy(t) /\ lease' \in [owner: Tabs \cup {Nobody}, live: BOOLEAN]
  BY <1>1 DEF LeaseLook, Busy, TypeOK
<1>3. CASE Resolve(t, tok[t], cookie)
  BY <1>2, <1>3, TokenFound DEF LeaseLook
<1>4. CASE SetRefresh(t, x) /\ UNCHANGED <<req, tok>>
  <2>1. x \in Refreshes /\ x.st = "claim" /\ x.secret = rf[t].secret /\ x.ans = rf[t].ans
    BY <1>1 DEF Refreshes
  <2> HIDE DEF x
  <2>2. /\ rf' \in [Tabs -> Refreshes] /\ rf'[t] = x
        /\ \A u \in Tabs : u # t => rf'[u] = rf[u]
    BY <1>1, <1>4, <2>1, SetRefreshEffect
  <2>3. /\ UNCHANGED <<locks, srv, cookie, user, inbox, holder, lease, events, lost, crowded>>
        /\ ~locks /\ rf[t].st = "wait"
    BY DEF LeaseLook
  <2>4. TypeOK'
    BY <1>1, <1>4, <2>2, <2>3 DEF TypeOK, Refreshes
  <2>5. x.secret = None /\ x.ans = None
    BY <1>1, <1>2, <2>1, <2>3 DEF RefreshOK
  <2> QED
    BY <1>2, <1>4, <2>1, <2>2, <2>3, <2>4, <2>5, QuietStep
<1> QED
  BY <1>3, <1>4 DEF LeaseLook

\* The lease is looked at again.
LEMMA CheckInv ==
  ASSUME BrowserInv, NEW t \in Tabs, LeaseCheck(t)
  PROVE  BrowserInv'
<1>1. TypeOK /\ LockOK
  BY Before
<1>2. ~Busy(t) /\ ~locks /\ NoLease \in [owner: Tabs \cup {Nobody}, live: BOOLEAN]
      /\ lease \in [owner: Tabs \cup {Nobody}, live: BOOLEAN] /\ holder \in Tabs \cup {Nobody}
  BY <1>1 DEF LeaseCheck, Busy, LockOK, NoLease, TypeOK
<1>3. UNCHANGED <<locks, srv, cookie, user, inbox, holder, events, lost>>
  BY DEF LeaseCheck
<1>4. CASE UnderLock(t) /\ tok[t] = None /\ lease' \in {lease, NoLease}
  BY <1>2, <1>3, <1>4, RefreshLeaves DEF UnderLock
<1>5. CASE UnderLock(t) /\ tok[t] # None /\ lease' \in {lease, NoLease}
  BY <1>2, <1>3, <1>5, TokenFound DEF UnderLock
<1>6. CASE SetRefresh(t, Wait) /\ UNCHANGED <<req, tok, lease, crowded>>
  <2>1. /\ rf' \in [Tabs -> Refreshes] /\ rf'[t] = Wait
        /\ \A u \in Tabs : u # t => rf'[u] = rf[u]
    BY <1>1, <1>6, PlainTypes, SetRefreshEffect
  <2>2. TypeOK'
    BY <1>1, <1>3, <1>6, <2>1 DEF TypeOK, Refreshes
  <2> QED
    BY <1>2, <1>3, <1>6, <2>1, <2>2, PlainTypes, QuietStep
<1> QED
  BY <1>4, <1>5, <1>6 DEF LeaseCheck

\* A session's record changes without a rotation.
LEMMA SessionStep ==
  ASSUME BrowserInv, NEW k \in Sessions, NEW s \in Records, SetSession(k, s),
         s.cur = srv[k].cur, srv[k].st # "none" => s.st # "none",
         s.st = "active" => srv[k].st = "active", s.st = "reused" => srv[k].st = "reused",
         s.grace => srv[k].grace,
         req' \in [Tabs -> [Reqs -> Requests]], events' \in 0..MaxEvents,
         \A u \in Tabs, r \in Reqs : req'[u][r] = req[u][r] \/ RequestOK(req[u][r])',
         UNCHANGED <<locks, cookie, user, tok, inbox, rf, holder, lease, lost, crowded>>
  PROVE  BrowserInv'
<1>1. TypeOK
  BY Before
<1>2. /\ srv' \in [Sessions -> Records] /\ srv'[k] = s
      /\ \A j \in Sessions : j # k => srv'[j] = srv[j]
  BY <1>1, SetSessionEffect
<1>3. TypeOK'
  BY <1>1, <1>2 DEF TypeOK, Requests, Records
<1>4. \A j \in Sessions : srv[j].cur \in Nat
  BY Before, SessionFields
<1>5. Onward
  BY <1>2, <1>4 DEF Onward
<1>6. \A u \in Tabs, r \in Reqs : RequestOK(req[u][r])'
  BY <1>3, <1>5, RequestsKept
<1>7. LockOK' /\ CookieOK' /\ ReuseNeedsLoss' /\ \A t \in Tabs : RefreshOK(t)'
  BY <1>2, BrowserRests
<1> QED
  BY <1>3, <1>6, <1>7, Together

\* The clock, and the revocations.
LEMMA TimeInv ==
  ASSUME BrowserInv, NEW k \in Sessions, Time(k)
  PROVE  BrowserInv'
<1>1. TypeOK /\ srv[k] \in Records /\ MaxSecret \in Nat
  BY Before, DashboardAssumption
<1>2. /\ srv[k].st \in {"none", "active", "revoked", "reused"} /\ srv[k].cur \in 1..MaxSecret
      /\ srv[k].aged \in 0..MaxSecret
  BY <1>1, SessionFields
<1>3. /\ UNCHANGED <<locks, cookie, user, tok, inbox, rf, holder, lease, req, lost, crowded>>
      /\ Event
  BY DEF Time, GraceEnds, TokensExpire, ServerRevokes
<1>4. events' \in 0..MaxEvents /\ req' \in [Tabs -> [Reqs -> Requests]]
  BY <1>1, <1>3, EventType, Typed
<1>5. CASE GraceEnds(k)
  <2> DEFINE s == [srv[k] EXCEPT !.grace = FALSE]
  <2>1. s \in Records /\ s.st = srv[k].st /\ s.cur = srv[k].cur /\ ~s.grace
    BY <1>1 DEF Records
  <2>2. SetSession(k, s)
    BY <1>5 DEF GraceEnds
  <2> HIDE DEF s
  <2> QED
    BY <1>2, <1>3, <1>4, <1>5, <2>1, <2>2, SessionStep
<1>6. CASE TokensExpire(k)
  <2> DEFINE s == [srv[k] EXCEPT !.aged = srv[k].aged + 1]
  <2>1. srv[k].aged + 1 \in 0..MaxSecret
    BY <1>1, <1>2, <1>6 DEF TokensExpire
  <2>2. s \in Records /\ s.st = srv[k].st /\ s.cur = srv[k].cur /\ s.grace = srv[k].grace
    BY <1>1, <2>1 DEF Records
  <2>3. SetSession(k, s) /\ srv[k].st # "none"
    BY <1>6 DEF TokensExpire
  <2> HIDE DEF s
  <2> QED
    BY <1>2, <1>3, <1>4, <2>2, <2>3, SessionStep
<1>7. CASE ServerRevokes(k)
  <2> DEFINE s == [srv[k] EXCEPT !.st = "revoked"]
  <2>1. s \in Records /\ s.st = "revoked" /\ s.cur = srv[k].cur /\ s.grace = srv[k].grace
    BY <1>1 DEF Records
  <2>2. SetSession(k, s) /\ srv[k].st = "active"
    BY <1>7 DEF ServerRevokes
  <2> HIDE DEF s
  <2> QED
    BY <1>2, <1>3, <1>4, <2>1, <2>2, SessionStep
<1> QED
  BY <1>5, <1>6, <1>7 DEF Time

\* The server answers a logout: what it accepts has ended.
LEMMA LogoutInv ==
  ASSUME BrowserInv, NEW t \in Tabs, NEW r \in Reqs, ServerLogout(t, r)
  PROVE  BrowserInv'
<1> DEFINE s == req[t][r].secret
           k == req[t][r].secret.ses
           z == [srv[k] EXCEPT !.st = "revoked"]
<1>1. TypeOK /\ req[t][r] \in Requests /\ s \in Maybe /\ RequestOK(req[t][r])
  BY Before
<1>2. PICK q \in {[req[t][r] EXCEPT !.st = "left"], [req[t][r] EXCEPT !.st = "failed"]} :
         /\ SetRequest(t, r, q)
         /\ q.st = "left" => IF LogoutAccepted(s) THEN SetSession(k, z) ELSE UNCHANGED srv
         /\ (SetSession(k, z) /\ LogoutAccepted(s)) \/ UNCHANGED srv
  <2>1. [req[t][r] EXCEPT !.st = "failed"].st # "left"
    BY <1>1 DEF Requests
  <2> QED
    BY <2>1 DEF ServerLogout
<1>3. q \in Requests /\ q.secret = s
  BY <1>1 DEF Requests
<1>4. /\ req' \in [Tabs -> [Reqs -> Requests]] /\ req'[t][r] = q
      /\ \A u \in Tabs, v \in Reqs : u # t \/ v # r => req'[u][v] = req[u][v]
  BY <1>1, <1>2, <1>3, SetRequestEffect
<1>5. UNCHANGED <<locks, cookie, user, tok, inbox, rf, holder, lease, lost, crowded>>
  BY DEF ServerLogout
<1>6. events' \in 0..MaxEvents
  BY <1>1, EventType, Typed DEF ServerLogout
<1>7. s # None => k \in Sessions /\ s.gen \in Nat /\ srv[k].st # "none" /\ srv[k] \in Records
  BY <1>1, SecretFields, Before DEF RequestOK, Known
<1>8. CASE SetSession(k, z) /\ LogoutAccepted(s)
  <2>1. s # None /\ srv[k].st = "active"
    BY <1>8 DEF LogoutAccepted
  <2>2. z \in Records /\ z.st = "revoked" /\ z.cur = srv[k].cur /\ z.grace = srv[k].grace
    BY <1>7, <2>1 DEF Records
  <2> HIDE DEF z
  <2>3. srv'[k] = z
    BY <1>1, <1>7, <1>8, <2>1, <2>2, SetSessionEffect
  <2>4. RequestOK(req[t][r])'
    BY <1>1, <1>3, <1>4, <2>1, <2>2, <2>3 DEF RequestOK, Known
  <2>5. \A u \in Tabs, v \in Reqs : req'[u][v] = req[u][v] \/ RequestOK(req[u][v])'
    BY <1>4, <2>4
  <2> QED
    BY <1>4, <1>5, <1>6, <1>7, <1>8, <2>1, <2>2, <2>5, SessionStep
<1>9. CASE UNCHANGED srv
  <2>1. TypeOK'
    BY <1>1, <1>4, <1>5, <1>6, <1>9 DEF TypeOK, Requests
  <2>2. RequestOK(req[t][r])'
    <3>1. CASE q.st # "left" \/ s = None
      BY <1>1, <1>3, <1>4, <1>9, <3>1 DEF RequestOK, Known
    <3>2. CASE q.st = "left" /\ s # None
      <4>1. srv[k].cur \in Nat /\ s.gen \in Nat
        BY <1>7, <3>2, SessionFields
      <4>2. s.gen <= srv[k].cur
        BY <1>1, <3>2 DEF RequestOK, Known
      <4>3. CASE LogoutAccepted(s)
        <5>1. SetSession(k, z) /\ srv[k].st = "active"
          BY <1>2, <3>2, <4>3 DEF LogoutAccepted
        <5>2. z \in Records /\ z.st = "revoked"
          BY <1>7, <3>2 DEF Records
        <5>3. srv'[k] = z
          BY <1>1, <1>7, <3>2, <5>1, <5>2, SetSessionEffect
        <5> QED
          BY <1>9, <5>1, <5>2, <5>3
      <4>4. CASE ~LogoutAccepted(s)
        <5>1. srv[k].st = "active" => s.gen # srv[k].cur /\ (s.gen + 1 = srv[k].cur => ~srv[k].grace)
          BY <3>2, <4>4 DEF LogoutAccepted
        <5>2. srv[k].st = "active" =>
                s.gen + 1 < srv[k].cur \/ (s.gen + 1 = srv[k].cur /\ ~srv[k].grace)
          BY <4>1, <4>2, <5>1
        <5> QED
          BY <1>1, <1>3, <1>4, <1>9, <5>2 DEF RequestOK, Known
      <4> QED
        BY <4>3, <4>4
    <3> QED
      BY <3>1, <3>2
  <2>3. \A u \in Tabs, v \in Reqs : req'[u][v] = req[u][v] \/ RequestOK(req[u][v])'
    BY <1>4, <2>2
  <2>4. \A u \in Tabs, v \in Reqs : RequestOK(req[u][v])'
    BY <1>9, <2>1, <2>3, AtRest, RequestsKept
  <2>5. LockOK' /\ CookieOK' /\ ReuseNeedsLoss' /\ \A u \in Tabs : RefreshOK(u)'
    BY <1>5, <1>9, BrowserRests
  <2> QED
    BY <2>1, <2>4, <2>5, Together
<1> QED
  BY <1>2, <1>8, <1>9

\* A refresh that is with the server leaves no other of a safe session there.
LEMMA Alone ==
  ASSUME BrowserInv, NEW t \in Tabs, NEW u \in Tabs, t # u, Busy(t), Busy(u),
         rf[t].secret # None, rf[u].secret.ses = rf[t].secret.ses
  PROVE  ~Safe(rf[t].secret.ses)
<1>1. rf[t].secret.ses \in crowded
  BY Before DEF LockOK
<1> QED
  BY <1>1 DEF Safe

\* A refresh of a safe session is refused only when the session has ended, and
\* rotated otherwise.
LEMMA SafePresents ==
  ASSUME BrowserInv, NEW t \in Tabs, rf[t].st = "sent", rf[t].secret # None,
         Safe(rf[t].secret.ses)
  PROVE  rf[t].secret.gen = srv[rf[t].secret.ses].cur
  BY Before DEF RefreshOK

\* The server answers a refresh.
LEMMA ServerRefreshInv ==
  ASSUME BrowserInv, NEW t \in Tabs, ServerRefresh(t)
  PROVE  BrowserInv'
<1> DEFINE s == rf[t].secret
           k == rf[t].secret.ses
           now == srv[k]
           next == [s EXCEPT !.gen = s.gen + 1]
           no == [rf[t] EXCEPT !.st = "answered"]
           yes == [rf[t] EXCEPT !.st = "answered", !.ans = next]
           turned == [now EXCEPT !.cur = s.gen + 1, !.grace = TRUE]
           ended == [now EXCEPT !.st = "reused"]
<1>1. /\ TypeOK /\ LockOK /\ CookieOK /\ ReuseNeedsLoss /\ cookie \in Maybe
      /\ \A u \in Tabs : /\ RefreshOK(u) /\ rf[u] \in Refreshes
                         /\ rf[u].secret \in Maybe /\ rf[u].ans \in Maybe
      /\ s \in Maybe /\ rf[t].st = "sent"
  BY Before DEF ServerRefresh
<1>2. /\ rf[t].ans = None /\ Known(s) /\ Busy(t)
      /\ s # None => k \in Sessions /\ s.gen \in 1..MaxSecret /\ s \in Secrets /\ now \in Records
  BY <1>1, SecretFields, Before DEF RefreshOK, Busy
<1>3. s # None => now.cur \in Nat /\ now.cur \in 1..MaxSecret /\ s.gen \in Nat
  BY <1>2, SessionFields, DashboardAssumption
<1>4. UNCHANGED <<locks, cookie, user, tok, inbox, holder, lease, req, events, lost, crowded>>
  BY DEF ServerRefresh
<1>5. no \in Refreshes /\ no.st = "answered" /\ no.secret = s /\ no.ans = None
  BY <1>1, <1>2 DEF Refreshes
<1>6. ASSUME s # None, s.gen + 1 \in 1..MaxSecret
      PROVE  /\ next \in Maybe /\ next # None /\ next.ses = k /\ next.gen = s.gen + 1
             /\ yes \in Refreshes /\ yes.st = "answered" /\ yes.secret = s /\ yes.ans = next
  <2>1. next \in Secrets /\ next.ses = k /\ next.gen = s.gen + 1
    BY <1>2, <1>6 DEF Secrets
  <2>2. next \in Maybe
    BY <2>1 DEF Maybe
  <2>3. next # None
    BY <1>2, <1>6, <2>1, <2>2, SecretFields
  <2> HIDE DEF next
  <2> QED
    BY <1>1, <2>1, <2>2, <2>3 DEF Refreshes
<1>7. ASSUME NEW x \in Refreshes, SetRefresh(t, x), x.st = "answered", x.secret = s
      PROVE  /\ rf' \in [Tabs -> Refreshes] /\ rf'[t] = x
             /\ \A u \in Tabs : u # t => rf'[u] = rf[u]
             /\ \A u \in Tabs : Busy(u)' = Busy(u) /\ rf'[u].secret = rf[u].secret
             /\ LockOK'
  <2>1. /\ rf' \in [Tabs -> Refreshes] /\ rf'[t] = x
        /\ \A u \in Tabs : u # t => rf'[u] = rf[u]
    BY <1>1, <1>7, SetRefreshEffect
  <2>2. \A u \in Tabs : /\ Busy(u)' = Busy(u) /\ rf'[u].secret = rf[u].secret
                        /\ rf'[u].st \in {"claim", "claimed"} => rf[u].st \in {"claim", "claimed"}
    BY <1>1, <1>2, <1>7, <2>1 DEF Busy
  <2>3. LockOK'
    BY <1>1, <1>4, <2>2 DEF LockOK
  <2> QED
    BY <2>1, <2>2, <2>3
<1>8. CASE UNCHANGED srv /\ SetRefresh(t, no) /\
           (s # None /\ now.st = "active" => s.gen + 1 < now.cur)
  <2>1. /\ rf' \in [Tabs -> Refreshes] /\ rf'[t] = no /\ LockOK'
        /\ \A u \in Tabs : u # t => rf'[u] = rf[u]
        /\ \A u \in Tabs : Busy(u)' = Busy(u) /\ rf'[u].secret = rf[u].secret
    BY <1>5, <1>7, <1>8
  <2>2. TypeOK'
    BY <1>1, <1>4, <1>8, <2>1 DEF TypeOK, Refreshes
  <2>3. CookieOK'
    BY <1>1, <1>2, <1>4, <1>8, <2>1 DEF CookieOK, Known, Safe
  <2>4. ReuseNeedsLoss'
    BY <1>1, <1>4, <1>8 DEF ReuseNeedsLoss, Slipped
  <2>5. s # None /\ Safe(k) => now.st # "active"
    BY <1>1, <1>3, <1>8, SafePresents
  <2>6. ASSUME NEW u \in Tabs PROVE RefreshOK(u)'
    <3>1. CASE u = t
      BY <1>2, <1>4, <1>5, <1>8, <2>1, <2>5, <3>1 DEF RefreshOK, Known, Safe, Busy
    <3>2. CASE u # t
      BY <1>1, <1>4, <1>8, <2>1, <3>2 DEF RefreshOK, Known, Safe, Busy
    <3> QED
      BY <3>1, <3>2
  <2>7. \A u \in Tabs, v \in Reqs : RequestOK(req[u][v])'
    BY <1>4, <1>8, <2>2, AtRest, RequestsKept
  <2> QED
    BY <2>1, <2>2, <2>3, <2>4, <2>6, <2>7, Together
<1>9. CASE /\ s # None /\ now.st = "active" /\ s.gen + 1 = now.cur
           /\ UNCHANGED srv /\ SetRefresh(t, yes)
  <2>1. /\ next # None /\ next.ses = k /\ next.gen = s.gen + 1
        /\ yes \in Refreshes /\ yes.st = "answered" /\ yes.secret = s /\ yes.ans = next
    BY <1>3, <1>6, <1>9
  <2> HIDE DEF next, yes
  <2>2. /\ rf' \in [Tabs -> Refreshes] /\ rf'[t] = yes /\ LockOK'
        /\ \A u \in Tabs : u # t => rf'[u] = rf[u]
        /\ \A u \in Tabs : Busy(u)' = Busy(u) /\ rf'[u].secret = rf[u].secret
    BY <1>7, <1>9, <2>1
  <2>3. TypeOK'
    BY <1>1, <1>4, <1>9, <2>2 DEF TypeOK, Refreshes
  <2>4. ~Safe(k)
    BY <1>1, <1>3, <1>9, SafePresents
  <2>5. CookieOK'
    BY <1>1, <1>2, <1>4, <1>9, <2>2, <2>4 DEF CookieOK, Known, Safe
  <2>6. ReuseNeedsLoss'
    BY <1>1, <1>4, <1>9 DEF ReuseNeedsLoss, Slipped
  <2>7. ASSUME NEW u \in Tabs PROVE RefreshOK(u)'
    <3>1. CASE u = t
      BY <1>2, <1>3, <1>4, <1>9, <2>1, <2>2, <2>4, <3>1 DEF RefreshOK, Known, Safe, Busy
    <3>2. CASE u # t
      BY <1>1, <1>4, <1>9, <2>2, <3>2 DEF RefreshOK, Known, Safe, Busy
    <3> QED
      BY <3>1, <3>2
  <2>8. \A u \in Tabs, v \in Reqs : RequestOK(req[u][v])'
    BY <1>4, <1>9, <2>3, AtRest, RequestsKept
  <2> QED
    BY <2>2, <2>3, <2>5, <2>6, <2>7, <2>8, Together
<1>10. CASE /\ s # None /\ now.st = "active" /\ s.gen + 1 = now.cur
            /\ SetSession(k, ended) /\ SetRefresh(t, no)
  <2>1. ended \in Records /\ ended.st = "reused" /\ ended.cur = now.cur /\ ended.grace = now.grace
    BY <1>2, <1>10 DEF Records
  <2> HIDE DEF ended
  <2>2. /\ srv' \in [Sessions -> Records] /\ srv'[k] = ended
        /\ \A j \in Sessions : j # k => srv'[j] = srv[j]
    BY <1>1, <1>2, <1>10, <2>1, SetSessionEffect
  <2>3. /\ rf' \in [Tabs -> Refreshes] /\ rf'[t] = no /\ LockOK'
        /\ \A u \in Tabs : u # t => rf'[u] = rf[u]
        /\ \A u \in Tabs : Busy(u)' = Busy(u) /\ rf'[u].secret = rf[u].secret
    BY <1>5, <1>7, <1>10
  <2>4. TypeOK'
    BY <1>1, <1>4, <2>2, <2>3 DEF TypeOK, Refreshes, Records
  <2>5. ~Safe(k)
    BY <1>1, <1>3, <1>10, SafePresents
  <2>6. \A j \in Sessions : srv'[j].cur = srv[j].cur /\ (srv[j].st # "none" => srv'[j].st # "none")
    BY <2>1, <2>2
  <2>7. CookieOK'
    <3>1. cookie # None => cookie.ses \in Sessions
      BY <1>1, SecretFields
    <3> QED
      BY <1>1, <1>2, <1>4, <2>3, <2>5, <2>6, <3>1 DEF CookieOK, Known, Safe
  <2>8. ReuseNeedsLoss'
    <3>1. Slipped(k)
      BY <1>1, <1>2, <2>5 DEF Safe, Slipped, LockOK
    <3> QED
      BY <1>1, <1>4, <2>2, <3>1 DEF ReuseNeedsLoss, Slipped
  <2>9. ASSUME NEW u \in Tabs PROVE RefreshOK(u)'
    <3>1. CASE u = t
      BY <1>2, <1>4, <1>5, <1>10, <2>3, <2>5, <2>6, <3>1 DEF RefreshOK, Known, Safe, Busy
    <3>2. CASE u # t
      <4>1. /\ rf[u].secret # None => rf[u].secret.ses \in Sessions
            /\ rf[u].ans # None => rf[u].ans.ses \in Sessions
        BY <1>1, SecretFields
      <4>2. \A j \in Sessions : srv'[j].st = "active" => srv[j].st = "active"
        BY <2>1, <2>2
      <4> QED
        BY <1>1, <1>4, <2>3, <2>6, <3>2, <4>1, <4>2 DEF RefreshOK, Known, Safe, Busy
    <3> QED
      BY <3>1, <3>2
  <2>10. Onward
    <3>1. \A j \in Sessions : srv[j].cur \in Nat
      BY Before, SessionFields
    <3> QED
      BY <2>1, <2>2, <3>1 DEF Onward
  <2>11. \A u \in Tabs, v \in Reqs : RequestOK(req[u][v])'
    BY <1>4, <2>4, <2>10, RequestsKept
  <2> QED
    BY <2>3, <2>4, <2>7, <2>8, <2>9, <2>11, Together
<1>11. CASE /\ s # None /\ now.st = "active" /\ s.gen = now.cur /\ s.gen < MaxSecret
            /\ SetSession(k, turned) /\ SetRefresh(t, yes)
  <2>1. s.gen + 1 \in 1..MaxSecret
    BY <1>3, <1>11, DashboardAssumption
  <2>2. /\ next # None /\ next.ses = k /\ next.gen = s.gen + 1
        /\ yes \in Refreshes /\ yes.st = "answered" /\ yes.secret = s /\ yes.ans = next
    BY <1>6, <1>11, <2>1
  <2>3. turned \in Records /\ turned.st = "active" /\ turned.cur = s.gen + 1
    BY <1>2, <1>11, <2>1 DEF Records
  <2> HIDE DEF next, yes, turned
  <2>4. /\ srv' \in [Sessions -> Records] /\ srv'[k] = turned
        /\ \A j \in Sessions : j # k => srv'[j] = srv[j]
    BY <1>1, <1>2, <1>11, <2>3, SetSessionEffect
  <2>5. /\ rf' \in [Tabs -> Refreshes] /\ rf'[t] = yes /\ LockOK'
        /\ \A u \in Tabs : u # t => rf'[u] = rf[u]
        /\ \A u \in Tabs : Busy(u)' = Busy(u) /\ rf'[u].secret = rf[u].secret
    BY <1>7, <1>11, <2>2
  <2>6. TypeOK'
    BY <1>1, <1>4, <2>4, <2>5 DEF TypeOK, Refreshes, Records
  <2>7. \A j \in Sessions : srv[j].cur \in Nat /\ srv'[j].cur \in Nat /\ srv[j].cur <= srv'[j].cur
    <3>1. \A j \in Sessions : srv[j].cur \in Nat
      BY Before, SessionFields
    <3> QED
      BY <1>3, <1>11, <2>3, <2>4, <3>1
  <2>8. \A j \in Sessions : /\ srv'[j].st = "none" => srv[j].st = "none"
                            /\ srv'[j].st = "active" => srv[j].st = "active"
                            /\ srv'[j].st = "reused" => srv[j].st = "reused"
    BY <1>11, <2>3, <2>4
  <2>9. ASSUME NEW z \in Maybe, Known(z)
        PROVE  z # None => srv'[z.ses].st # "none" /\ z.gen <= srv'[z.ses].cur
    <3>1. z # None => z.ses \in Sessions /\ z.gen \in Nat
      BY SecretFields
    <3> QED
      BY <2>7, <2>8, <2>9, <3>1 DEF Known
  <2>10. CookieOK'
    <3>1. Known(cookie)'
      BY <1>1, <1>4, <2>9 DEF Known, CookieOK
    <3>2. cookie # None => cookie.ses \in Sessions
      BY <1>1, SecretFields
    <3>3. CASE cookie.ses = k
      BY <2>2, <2>5, <1>4, <3>1, <3>3 DEF CookieOK
    <3>4. CASE cookie.ses # k
      <4>1. cookie # None => srv'[cookie.ses] = srv[cookie.ses]
        BY <2>4, <3>2, <3>4
      <4>2. \A u \in Tabs : rf[u].st = "answered" => rf'[u] = rf[u]
        BY <1>1, <2>5
      <4> QED
        BY <1>1, <1>4, <3>1, <4>1, <4>2 DEF CookieOK, Safe
    <3> QED
      BY <3>3, <3>4
  <2>11. ReuseNeedsLoss'
    BY <1>1, <1>4, <2>8 DEF ReuseNeedsLoss, Slipped
  <2>12. ASSUME NEW u \in Tabs PROVE RefreshOK(u)'
    <3>1. CASE u = t
      <4>1. srv'[k].st # "none" /\ next.gen <= srv'[k].cur /\ s.gen <= srv'[k].cur
        BY <1>2, <1>3, <1>11, <2>2, <2>3, <2>4
      <4>2. Busy(t)' /\ rf'[t].st = "answered" /\ rf'[t].secret = s /\ rf'[t].ans = next
        BY <1>2, <2>2, <2>5
      <4>3. srv'[k].cur = next.gen
        BY <2>2, <2>3, <2>4
      <4>4. Known(rf[t].secret)' /\ Known(rf[t].ans)'
        BY <2>2, <4>1, <4>2 DEF Known
      <4> QED
        BY <1>11, <2>2, <3>1, <4>2, <4>3, <4>4 DEF RefreshOK
    <3>2. CASE u # t
      <4>1. rf'[u] = rf[u] /\ RefreshOK(u) /\ rf[u].secret \in Maybe /\ rf[u].ans \in Maybe
        BY <1>1, <2>5, <3>2
      <4>2. Known(rf[u].secret)' /\ Known(rf[u].ans)'
        BY <2>9, <4>1 DEF RefreshOK, Known
      <4>3. rf[u].secret # None => rf[u].secret.ses \in Sessions
        BY <4>1, SecretFields
      <4>4. CASE rf[u].secret # None /\ rf[u].secret.ses = k
        <5>1. Busy(u)
          BY <4>1, <4>4 DEF RefreshOK
        <5>2. ~Safe(k)
          BY <1>2, <1>11, <3>2, <4>4, <5>1, Alone
        <5> QED
          BY <1>4, <2>5, <4>1, <4>2, <4>4, <5>2 DEF RefreshOK, Safe
      <4>5. CASE rf[u].secret # None /\ rf[u].secret.ses # k
        <5>1. srv'[rf[u].secret.ses] = srv[rf[u].secret.ses]
          BY <2>4, <4>3, <4>5
        <5> QED
          BY <1>4, <2>5, <4>1, <4>2, <4>5, <5>1 DEF RefreshOK, Safe
      <4>6. CASE rf[u].secret = None
        BY <2>5, <4>1, <4>2, <4>6 DEF RefreshOK
      <4> QED
        BY <4>4, <4>5, <4>6
    <3> QED
      BY <3>1, <3>2
  <2>13. Onward
    <3>1. srv'[k].cur # srv[k].cur
      BY <1>3, <1>11, <2>3, <2>4
    <3> QED
      BY <2>4, <2>7, <2>8, <3>1 DEF Onward
  <2>14. \A u \in Tabs, v \in Reqs : RequestOK(req[u][v])'
    BY <1>4, <2>6, <2>13, RequestsKept
  <2> QED
    BY <2>5, <2>6, <2>10, <2>11, <2>12, <2>14, Together
<1> QED
  BY <1>8, <1>9, <1>10, <1>11 DEF ServerRefresh

\* A tab's refresh is over: the lock is given back.
LEMMA TabEnds ==
  ASSUME BrowserInv, NEW t \in Tabs, rf'[t] \in {Off, Wait},
         \A u \in Tabs : u # t => rf'[u] = rf[u],
         holder' = (IF holder = t THEN Nobody ELSE holder),
         UNCHANGED <<locks, srv, crowded>>, lost \subseteq lost'
  PROVE  LockOK' /\ \A u \in Tabs : RefreshOK(u)'
<1>1. LockOK /\ \A u \in Tabs : RefreshOK(u)
  BY Before
<1>2. /\ rf'[t].st \in {"off", "wait"} /\ rf'[t].secret = None /\ rf'[t].ans = None
      /\ ~Busy(t)'
  BY PlainTypes DEF Busy
<1>3. \A u \in Tabs : u # t => Busy(u)' = Busy(u)
  BY DEF Busy
<1>4. LockOK'
  <2>1. locks' => crowded' = {}
    BY <1>1 DEF LockOK
  <2>2. ASSUME NEW u \in Tabs
        PROVE  /\ Busy(u)' /\ locks' => holder' = u
               /\ rf'[u].st \in {"claim", "claimed"} => ~locks'
    BY <1>1, <1>2, <1>3 DEF LockOK
  <2>3. ASSUME NEW u \in Tabs, NEW v \in Tabs, u # v, Busy(u)', Busy(v)', rf'[u].secret # None,
               rf'[v].secret.ses = rf'[u].secret.ses
        PROVE  rf'[u].secret.ses \in crowded'
    <3>1. u # t /\ v # t
      BY <1>2, <2>3
    <3>2. Busy(u) /\ Busy(v) /\ rf'[u] = rf[u] /\ rf'[v] = rf[v]
      BY <1>3, <2>3, <3>1
    <3> QED
      BY <1>1, <2>3, <3>2 DEF LockOK
  <2> QED
    BY <2>1, <2>2, <2>3 DEF LockOK
<1>5. ASSUME NEW u \in Tabs PROVE RefreshOK(u)'
  <2>1. CASE u = t
    BY <1>2, <2>1 DEF RefreshOK, Known
  <2>2. CASE u # t
    <3>1. rf'[u] = rf[u] /\ RefreshOK(u) /\ Busy(u)' = Busy(u)
      BY <1>1, <1>3, <2>2
    <3> QED
      BY <3>1 DEF RefreshOK, Known, Safe
  <2> QED
    BY <2>1, <2>2
<1> QED
  BY <1>4, <1>5

\* The sessions with a lost answer.
LEMMA LostType ==
  ASSUME TypeOK, NEW t \in Tabs, GivesUp(t)
  PROVE  lost' \in SUBSET Sessions
<1>1. lost \in SUBSET Sessions /\ rf[t].ans \in Maybe
  BY Typed, RefreshFields
<1>2. rf[t].ans # None => rf[t].ans.ses \in Sessions
  BY <1>1, SecretFields
<1> QED
  BY <1>1, <1>2 DEF GivesUp

\* The bundle arrives: the cookie is the newest secret of a safe session.
LEMMA ArrivesInv ==
  ASSUME BrowserInv, NEW t \in Tabs, RefreshArrives(t)
  PROVE  BrowserInv'
<1> DEFINE a == rf[t].ans
<1>1. /\ TypeOK /\ LockOK /\ ReuseNeedsLoss /\ a \in Maybe /\ rf[t].secret \in Maybe
      /\ \A u \in Tabs : RefreshOK(u)
  BY Before
<1>2. /\ rf[t].st = "answered" /\ a # None /\ cookie' = a /\ Broadcast(t, a)
      /\ Resolve(t, a, a) /\ Release(t)
      /\ UNCHANGED <<locks, srv, user, events, lost, crowded>>
  BY DEF RefreshArrives
<1> HIDE DEF a
<1>3. /\ tok' \in [Tabs -> Maybe]
      /\ rf' \in [Tabs -> Refreshes] /\ rf'[t] \in {Off, Wait}
      /\ \A u \in Tabs : u # t => rf'[u] = rf[u]
      /\ req' \in [Tabs -> [Reqs -> Requests]]
      /\ \A u \in Tabs, r \in Reqs :
           \/ req'[u][r] = req[u][r]
           \/ req'[u][r].st # "left" /\ req'[u][r].secret \in {a, None, req[u][r].secret}
  BY <1>1, <1>2, ResolveEffect
<1>4. inbox' \in [Tabs -> SUBSET Maybe]
  BY <1>1, <1>2, BroadcastType
<1>5. /\ holder' \in Tabs \cup {Nobody} /\ lease' \in [owner: Tabs \cup {Nobody}, live: BOOLEAN]
      /\ holder' = (IF holder = t THEN Nobody ELSE holder)
  BY <1>1, <1>2 DEF Release, NoLease, TypeOK
<1>6. TypeOK'
  BY <1>1, <1>2, <1>3, <1>4, <1>5 DEF TypeOK, Requests, Refreshes
<1>7. Known(a) /\ (Safe(a.ses) => a.gen = srv[a.ses].cur)
  <2>1. RefreshOK(t)
    BY <1>1
  <2> QED
    BY <1>2, <2>1 DEF RefreshOK, a
<1>8. LockOK' /\ \A u \in Tabs : RefreshOK(u)'
  BY <1>1, <1>2, <1>3, <1>5, TabEnds
<1>9. CookieOK'
  BY <1>2, <1>7 DEF CookieOK, Known, Safe
<1>10. ReuseNeedsLoss'
  BY <1>1, <1>2 DEF ReuseNeedsLoss, Slipped
<1>11. ASSUME NEW u \in Tabs, NEW r \in Reqs PROVE req'[u][r] = req[u][r] \/ RequestOK(req[u][r])'
  <2>1. RequestOK(req[u][r])
    BY Before
  <2> QED
    BY <1>2, <1>3, <1>7, <2>1 DEF RequestOK, Known
<1>12. \A u \in Tabs, r \in Reqs : RequestOK(req[u][r])'
  BY <1>2, <1>6, <1>11, AtRest, RequestsKept
<1> QED
  BY <1>6, <1>8, <1>9, <1>10, <1>12, Together

\* A tab gives its refresh up, or is refused: what it has not seen is recorded.
LEMMA RefreshEnds ==
  ASSUME BrowserInv, NEW t \in Tabs, TypeOK', SetRefresh(t, Off), GivesUp(t),
         holder' = (IF holder = t THEN Nobody ELSE holder),
         UNCHANGED <<locks, srv, cookie, crowded>>,
         \A u \in Tabs, r \in Reqs :
            \/ req'[u][r] = req[u][r]
            \/ req'[u][r].st # "left" /\ req'[u][r].secret = None
  PROVE  BrowserInv'
<1>1. /\ TypeOK /\ LockOK /\ CookieOK /\ ReuseNeedsLoss /\ cookie \in Maybe
      /\ \A u \in Tabs : RefreshOK(u) /\ rf[u].secret \in Maybe /\ rf[u].ans \in Maybe
  BY Before
<1>2. /\ rf' \in [Tabs -> Refreshes] /\ rf'[t] = Off
      /\ \A u \in Tabs : u # t => rf'[u] = rf[u]
  BY <1>1, PlainTypes, SetRefreshEffect
<1>3. /\ lost \subseteq lost' /\ (rf[t].ans # None => rf[t].ans.ses \in lost')
  BY DEF GivesUp
<1>4. LockOK' /\ \A u \in Tabs : RefreshOK(u)'
  BY <1>1, <1>2, <1>3, TabEnds
<1>5. CookieOK'
  <2>1. Known(cookie)'
    BY <1>1 DEF CookieOK, Known
  <2>2. ASSUME cookie # None, Safe(cookie.ses)'
        PROVE  \/ cookie.gen = srv[cookie.ses].cur
               \/ \E u \in Tabs : /\ rf'[u].st = "answered" /\ rf'[u].ans # None
                                  /\ rf'[u].ans.ses = cookie.ses
    <3>1. Safe(cookie.ses)
      BY <1>3, <2>2 DEF Safe
    <3>2. rf[t].ans # None => rf[t].ans.ses # cookie.ses
      BY <1>3, <2>2 DEF Safe
    <3> QED
      BY <1>1, <1>2, <2>2, <3>1, <3>2 DEF CookieOK
  <2> QED
    BY <2>1, <2>2 DEF CookieOK
<1>6. ReuseNeedsLoss'
  BY <1>1, <1>3 DEF ReuseNeedsLoss, Slipped
<1>7. \A u \in Tabs, r \in Reqs : req'[u][r] = req[u][r] \/ RequestOK(req[u][r])'
  BY DEF RequestOK, Known
<1>8. \A u \in Tabs, r \in Reqs : RequestOK(req[u][r])'
  BY <1>7, AtRest, RequestsKept
<1> QED
  BY <1>4, <1>5, <1>6, <1>8, Together

\* A refused or failed refresh.
LEMMA FailsInv ==
  ASSUME BrowserInv, NEW t \in Tabs, RefreshRefused(t) \/ RefreshFails(t)
  PROVE  BrowserInv'
<1>1. TypeOK /\ Off \in Refreshes /\ None \in Maybe
  BY Before, PlainTypes DEF Maybe
<1>2. /\ SetRefresh(t, Off) /\ SetRequests(t, Failed(t)) /\ Release(t)
      /\ UNCHANGED <<locks, srv, cookie, crowded>>
  BY DEF RefreshRefused, RefreshFails
<1>3. GivesUp(t)
  BY DEF RefreshRefused, RefreshFails, GivesUp
<1>4. /\ Failed(t) \in [Reqs -> Requests]
      /\ \A r \in Reqs : \/ Failed(t)[r] = req[t][r]
                         \/ Failed(t)[r].st # "left" /\ Failed(t)[r].secret = None
  BY <1>1, FailedFields
<1>5. /\ req' \in [Tabs -> [Reqs -> Requests]] /\ req'[t] = Failed(t)
      /\ \A u \in Tabs : u # t => req'[u] = req[u]
  BY <1>1, <1>2, <1>4, SetRequestsEffect
<1>6. rf' \in [Tabs -> Refreshes]
  BY <1>1, <1>2, SetRefreshEffect
<1>7. /\ tok' \in [Tabs -> Maybe] /\ inbox' \in [Tabs -> SUBSET Maybe] /\ user' \in BOOLEAN
      /\ events' \in 0..MaxEvents
  <2>1. CASE RefreshRefused(t)
    BY <1>1, <2>1, SetTokenEffect, BroadcastType, Typed DEF RefreshRefused, SignOff
  <2>2. CASE RefreshFails(t)
    BY <1>1, <2>2, EventType, Typed DEF RefreshFails
  <2> QED
    BY <2>1, <2>2
<1>8. /\ holder' \in Tabs \cup {Nobody} /\ lease' \in [owner: Tabs \cup {Nobody}, live: BOOLEAN]
      /\ holder' = (IF holder = t THEN Nobody ELSE holder)
  BY <1>1, <1>2 DEF Release, NoLease, TypeOK
<1>9. lost' \in SUBSET Sessions
  BY <1>1, <1>3, LostType
<1>10. TypeOK'
  BY <1>1, <1>2, <1>5, <1>6, <1>7, <1>8, <1>9 DEF TypeOK, Requests, Refreshes
<1>11. \A u \in Tabs, r \in Reqs :
          \/ req'[u][r] = req[u][r]
          \/ req'[u][r].st # "left" /\ req'[u][r].secret = None
  BY <1>4, <1>5
<1> QED
  BY <1>2, <1>3, <1>8, <1>10, <1>11, RefreshEnds

\* A page goes.
LEMMA UnloadInv ==
  ASSUME BrowserInv, NEW t \in Tabs, Unload(t), user' \in BOOLEAN, events' \in 0..MaxEvents,
         UNCHANGED <<locks, srv, cookie, lease, crowded>>
  PROVE  BrowserInv'
<1> DEFINE qs == [r \in Reqs |-> Free]
<1>1. TypeOK /\ Off \in Refreshes /\ None \in Maybe
  BY Before, PlainTypes DEF Maybe
<1>2. qs \in [Reqs -> Requests] /\ \A r \in Reqs : qs[r].st # "left" /\ qs[r].secret = None
  BY PlainTypes
<1>3. /\ SetToken(t, None) /\ inbox' = [inbox EXCEPT ![t] = {}] /\ SetRefresh(t, Off) /\ GivesUp(t)
      /\ SetRequests(t, qs) /\ holder' = (IF holder = t THEN Nobody ELSE holder)
  BY DEF Unload
<1> HIDE DEF qs
<1>4. /\ req' \in [Tabs -> [Reqs -> Requests]] /\ req'[t] = qs
      /\ \A u \in Tabs : u # t => req'[u] = req[u]
  BY <1>1, <1>2, <1>3, SetRequestsEffect
<1>5. rf' \in [Tabs -> Refreshes] /\ tok' \in [Tabs -> Maybe]
  BY <1>1, <1>3, SetRefreshEffect, SetTokenEffect
<1>6. inbox' \in [Tabs -> SUBSET Maybe]
  <2>1. inbox \in [Tabs -> SUBSET Maybe]
    BY <1>1, Typed
  <2> QED
    BY <1>3, <2>1
<1>7. lost' \in SUBSET Sessions
  BY <1>1, <1>3, LostType
<1>8. TypeOK'
  BY <1>1, <1>3, <1>4, <1>5, <1>6, <1>7 DEF TypeOK, Requests, Refreshes
<1>9. \A u \in Tabs, r \in Reqs :
         \/ req'[u][r] = req[u][r]
         \/ req'[u][r].st # "left" /\ req'[u][r].secret = None
  BY <1>2, <1>4
<1> QED
  BY <1>3, <1>8, <1>9, RefreshEnds

\* A login begins a session that nothing refers to yet.
LEMMA LoginInv ==
  ASSUME BrowserInv, NEW t \in Tabs, Login(t)
  PROVE  BrowserInv'
<1>1. PICK k \in Sessions :
         /\ srv[k].st = "none" /\ SetSession(k, Begun)
         /\ cookie' = [ses |-> k, gen |-> 1]
         /\ SetToken(t, [ses |-> k, gen |-> 1]) /\ Broadcast(t, [ses |-> k, gen |-> 1])
  BY DEF Login
<1> DEFINE c == [ses |-> k, gen |-> 1]
<1>2. /\ user' = TRUE /\ Event /\ UNCHANGED <<locks, rf, holder, lease, req, lost, crowded>>
  BY DEF Login
<1>3. /\ TypeOK /\ LockOK /\ ReuseNeedsLoss
      /\ \A u \in Tabs : RefreshOK(u) /\ rf[u].secret \in Maybe /\ rf[u].ans \in Maybe
  BY Before
<1>4. /\ c \in Maybe /\ c.ses = k /\ c.gen = 1
      /\ Begun \in Records /\ Begun.st = "active" /\ Begun.cur = 1
  BY DashboardAssumption DEF Maybe, Secrets, Begun, Records
<1>5. /\ srv' \in [Sessions -> Records] /\ srv'[k] = Begun
      /\ \A j \in Sessions : j # k => srv'[j] = srv[j]
  BY <1>1, <1>3, <1>4, SetSessionEffect
<1> HIDE DEF c
<1>6. /\ tok' \in [Tabs -> Maybe] /\ inbox' \in [Tabs -> SUBSET Maybe] /\ events' \in 0..MaxEvents
      /\ cookie' = c
  BY <1>1, <1>2, <1>3, <1>4, SetTokenEffect, BroadcastType, EventType DEF c
<1>7. TypeOK'
  BY <1>2, <1>3, <1>4, <1>5, <1>6 DEF TypeOK, Records
<1>8. LockOK'
  BY <1>2, <1>3 DEF LockOK, Busy
<1>9. CookieOK'
  BY <1>4, <1>5, <1>6 DEF CookieOK, Known
<1>10. ReuseNeedsLoss'
  BY <1>2, <1>3, <1>4, <1>5 DEF ReuseNeedsLoss, Slipped
<1>11. ASSUME NEW u \in Tabs PROVE RefreshOK(u)'
  <2>1. RefreshOK(u)
    BY <1>3
  <2>2. /\ rf[u].secret # None => rf[u].secret.ses \in Sessions /\ rf[u].secret.ses # k
        /\ rf[u].ans # None => rf[u].ans.ses \in Sessions /\ rf[u].ans.ses # k
    BY <1>1, <1>3, <2>1, SecretFields DEF RefreshOK, Known
  <2>3. /\ rf[u].secret # None => srv'[rf[u].secret.ses] = srv[rf[u].secret.ses]
        /\ rf[u].ans # None => srv'[rf[u].ans.ses] = srv[rf[u].ans.ses]
    BY <1>5, <2>2
  <2> QED
    BY <1>2, <2>1, <2>3 DEF RefreshOK, Known, Safe, Busy
<1>12. Onward
  <2>1. \A j \in Sessions : srv[j].cur \in Nat
    BY Before, SessionFields
  <2> QED
    BY <1>1, <1>5, <2>1 DEF Onward
<1>13. \A u \in Tabs, r \in Reqs : RequestOK(req[u][r])'
  BY <1>2, <1>7, <1>12, RequestsKept
<1> QED
  BY <1>7, <1>8, <1>9, <1>10, <1>11, <1>13, Together

-----------------------------------------------------------------------------
(* All steps. *)

\* Signed in, every page just loaded: the cookie is the first secret.
LEMMA InitInv == Init => BrowserInv
<1> SUFFICES ASSUME Init PROVE BrowserInv
  OBVIOUS
<1>1. 0 \in 0..MaxSecret /\ 1 \in 1..MaxSecret /\ 1 \in Sessions /\ 0 \in 0..MaxEvents
  BY DashboardAssumption DEF Sessions
<1>2. None \in Maybe /\ [ses |-> 1, gen |-> 1] \in Secrets /\ [ses |-> 1, gen |-> 1] \in Maybe
  BY <1>1 DEF Maybe, Secrets
<1>3. Begun \in Records /\ NotBegun \in Records /\ Begun.st = "active" /\ Begun.cur = 1
      /\ NotBegun.st = "none"
  BY <1>1 DEF Begun, NotBegun, Records
<1>4. srv \in [Sessions -> Records] /\ srv[1] = Begun
      /\ \A k \in Sessions : srv[k].st # "reused"
  BY <1>1, <1>3 DEF Init
<1>5. /\ rf \in [Tabs -> Refreshes] /\ req \in [Tabs -> [Reqs -> Requests]]
      /\ \A t \in Tabs : rf[t] = Off
      /\ \A t \in Tabs, r \in Reqs : req[t][r] = Free
  BY PlainTypes DEF Init
<1>6. TypeOK
  <2>1. /\ tok \in [Tabs -> Maybe] /\ inbox \in [Tabs -> SUBSET Maybe] /\ cookie \in Maybe
    BY <1>2 DEF Init
  <2>2. /\ holder \in Tabs \cup {Nobody} /\ lease \in [owner: Tabs \cup {Nobody}, live: BOOLEAN]
        /\ locks \in BOOLEAN /\ user \in BOOLEAN /\ events \in 0..MaxEvents
        /\ lost \in SUBSET Sessions /\ crowded \in SUBSET Sessions
    BY <1>1 DEF Init, NoLease
  <2> QED
    BY <1>4, <1>5, <2>1, <2>2 DEF TypeOK, Requests, Refreshes, Records
<1>7. \A t \in Tabs : ~Busy(t) /\ rf[t].st = "off" /\ rf[t].secret = None /\ rf[t].ans = None
  BY <1>5, PlainTypes DEF Busy
<1>8. LockOK
  BY <1>7 DEF LockOK, Init
<1>9. CookieOK
  BY <1>3, <1>4 DEF CookieOK, Known, Init
<1>10. ReuseNeedsLoss
  BY <1>4 DEF ReuseNeedsLoss
<1>11. \A t \in Tabs : RefreshOK(t)
  BY <1>7 DEF RefreshOK, Known
<1>12. \A t \in Tabs, r \in Reqs : RequestOK(req[t][r])
  BY <1>5, PlainTypes DEF RequestOK, Known
<1> QED
  BY <1>6, <1>8, <1>9, <1>10, <1>11, <1>12 DEF BrowserInv

\* Every step keeps the invariant.
LEMMA NextInv ==
  ASSUME BrowserInv, [Next]_vars
  PROVE  BrowserInv'
<1>1. TypeOK /\ events \in 0..MaxEvents
  BY Before DEF TypeOK
<1>2. ASSUME NEW t \in Tabs, Browser(t) PROVE BrowserInv'
  <2>1. CASE Acquire(t)
    BY <2>1, AcquireInv
  <2>2. CASE LeaseLook(t)
    BY <2>2, LookInv
  <2>3. CASE LeaseClaim(t)
    BY <2>3, ClaimInv
  <2>4. CASE LeaseCheck(t)
    BY <2>4, CheckInv
  <2>5. CASE ServerRefresh(t)
    BY <2>5, ServerRefreshInv
  <2>6. CASE RefreshArrives(t)
    BY <2>6, ArrivesInv
  <2>7. CASE RefreshRefused(t)
    BY <2>7, FailsInv
  <2>8. CASE Deliver(t)
    BY <2>8, RestInv
  <2>9. ASSUME NEW r \in Reqs, Answered(t, r) PROVE BrowserInv'
    BY <2>9, AnswerInv
  <2>10. ASSUME NEW r \in Reqs, Unauthorized(t, r) PROVE BrowserInv'
    BY <2>10, UnauthorizedInv
  <2>11. ASSUME NEW r \in Reqs, ServerLogout(t, r) PROVE BrowserInv'
    BY <2>11, LogoutInv
  <2>12. ASSUME NEW r \in Reqs, LogoutArrives(t, r) PROVE BrowserInv'
    BY <2>12, LogoutArrivesInv
  <2>13. ASSUME NEW r \in Reqs, SignedOut(t, r) PROVE BrowserInv'
    BY <1>1, <2>13, UnloadInv DEF SignedOut
  <2> QED
    BY <1>2, <2>1, <2>2, <2>3, <2>4, <2>5, <2>6, <2>7, <2>8, <2>9, <2>10, <2>11, <2>12, <2>13
       DEF Browser
<1>3. ASSUME NEW t \in Tabs, Environment(t) PROVE BrowserInv'
  <2>1. ASSUME NEW r \in Reqs, NEW kind \in {"api", "logout"}, Start(t, r, kind) PROVE BrowserInv'
    BY <2>1, StartInv
  <2>2. ASSUME NEW r \in Reqs, NetworkError(t, r) PROVE BrowserInv'
    BY <2>2, AnswerInv
  <2>3. CASE RefreshFails(t)
    BY <2>3, FailsInv
  <2>4. CASE Reload(t)
    <3>1. user' \in BOOLEAN /\ events' \in 0..MaxEvents
      BY <1>1, <2>4, EventType DEF Reload, TypeOK
    <3> QED
      BY <2>4, <3>1, UnloadInv DEF Reload
  <2>5. CASE Login(t)
    BY <2>5, LoginInv
  <2> QED
    BY <1>3, <2>1, <2>2, <2>3, <2>4, <2>5 DEF Environment
<1>4. ASSUME NEW k \in Sessions, Time(k) PROVE BrowserInv'
  BY <1>4, TimeInv
<1>5. CASE LeaseExpires \/ UNCHANGED vars
  BY <1>5, RestInv
<1> QED
  BY <1>2, <1>3, <1>4, <1>5 DEF Next

\* The invariant holds, whatever the network and the clock do.
THEOREM BrowserSafe == Spec => []BrowserInv
<1>1. BrowserInv /\ [Next]_vars => BrowserInv'
  BY NextInv
<1> QED
  BY <1>1, InitInv, PTL DEF Spec

\* The browser's and the server's state keep their types.
THEOREM DashboardTypes == Spec => []TypeOK
<1>1. BrowserInv => TypeOK
  BY DEF BrowserInv
<1> QED
  BY <1>1, BrowserSafe, PTL

\* Whatever the tabs do at the same time and however slow the answers are, the
\* server takes a session for stolen only if the answer of a rotation was lost
\* or, without web locks, two tabs refreshed at once.
THEOREM ReuseOnlyAfterLoss == Spec => []ReuseNeedsLoss
<1>1. BrowserInv => ReuseNeedsLoss
  BY DEF BrowserInv
<1> QED
  BY <1>1, BrowserSafe, PTL

\* A logout the server has answered with success has ended the session, unless
\* its secret was superseded twice, or once and the replay window has closed.
THEOREM LogoutAlwaysEnds == Spec => []LogoutEndsSession
<1>1. BrowserInv => LogoutEndsSession
  BY DEF BrowserInv, LogoutEndsSession, RequestOK
<1> QED
  BY <1>1, BrowserSafe, PTL

\* What removes the stored user.
Causes ==
  \/ \E t \in Tabs, r \in Reqs :
        \/ req[t][r].st = "bye"
        \/ req[t][r].st = "sent" /\ req[t][r].retried /\ ~Accepts(req[t][r].token)
  \/ \E t \in Tabs :
        /\ rf[t].st = "answered" /\ rf[t].ans = None
        /\ LET s == rf[t].secret
           IN  s = None \/ srv[s.ses].st # "active" \/ Slipped(s.ses)

\* A step that removes the stored user has one of the causes.
LEMMA Cause ==
  ASSUME BrowserInv, Next, user, ~user'
  PROVE  Causes
<1>1. ASSUME NEW t \in Tabs, NEW r \in Reqs, Unauthorized(t, r) PROVE Causes
  <2>1. req[t][r].st = "sent" /\ req[t][r].retried /\ ~Accepts(req[t][r].token)
    BY <1>1 DEF Unauthorized
  <2> QED
    BY <2>1 DEF Causes
<1>2. ASSUME NEW t \in Tabs, RefreshRefused(t) PROVE Causes
  <2>1. RefreshOK(t) /\ LockOK
    BY Before
  <2>2. rf[t].st = "answered" /\ rf[t].ans = None
    BY <1>2 DEF RefreshRefused
  <2>3. rf[t].secret # None /\ Safe(rf[t].secret.ses) => srv[rf[t].secret.ses].st # "active"
    BY <2>1, <2>2 DEF RefreshOK
  <2>4. ~Safe(rf[t].secret.ses) => Slipped(rf[t].secret.ses)
    BY <2>1 DEF Safe, Slipped, LockOK
  <2> QED
    BY <2>2, <2>3, <2>4 DEF Causes
<1>3. ASSUME NEW t \in Tabs, NEW r \in Reqs, SignedOut(t, r) PROVE Causes
  BY <1>3 DEF SignedOut, Causes
<1>4. \/ \E t \in Tabs, r \in Reqs : Unauthorized(t, r)
      \/ \E t \in Tabs : RefreshRefused(t)
      \/ \E t \in Tabs, r \in Reqs : SignedOut(t, r)
  <2>1. ASSUME NEW t \in Tabs, NEW r \in Reqs,
               Answered(t, r) \/ ServerLogout(t, r) \/ LogoutArrives(t, r) \/ NetworkError(t, r)
        PROVE  FALSE
    BY <2>1 DEF Answered, ServerLogout, LogoutArrives, NetworkError
  <2>2. ASSUME NEW t \in Tabs,
               \/ Acquire(t) \/ LeaseLook(t) \/ LeaseClaim(t) \/ LeaseCheck(t) \/ ServerRefresh(t)
               \/ RefreshArrives(t) \/ RefreshFails(t) \/ Reload(t) \/ Login(t) \/ Deliver(t)
        PROVE  FALSE
    BY <2>2 DEF Acquire, LeaseLook, LeaseClaim, LeaseCheck, ServerRefresh, RefreshArrives,
                RefreshFails, Reload, Login, Deliver
  <2>3. ASSUME NEW t \in Tabs, NEW r \in Reqs, NEW kind \in {"api", "logout"}, Start(t, r, kind)
        PROVE  FALSE
    BY <2>3 DEF Start
  <2>4. ASSUME LeaseExpires \/ \E k \in Sessions : Time(k) PROVE FALSE
    BY <2>4 DEF LeaseExpires, Time, GraceEnds, TokensExpire, ServerRevokes
  <2> QED
    BY <2>1, <2>2, <2>3, <2>4 DEF Next, Browser, Environment
<1> QED
  BY <1>1, <1>2, <1>3, <1>4

\* The stored user is removed only by a sign-out, by a request refused again
\* after its retry, or by the refused refresh of a session that has ended or
\* slipped: no other race of tokens, broadcasts, expiries and retries does.
THEOREM SignOffAlwaysCaused == Spec => SignOffHasCause
<1>1. BrowserInv /\ [Next]_vars => [user /\ ~user' => Causes]_vars
  BY Cause DEF vars
<1> QED
  BY <1>1, BrowserSafe, PTL DEF Spec, SignOffHasCause, Causes
=============================================================================
