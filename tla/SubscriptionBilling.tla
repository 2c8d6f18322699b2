------------------------ MODULE SubscriptionBilling ------------------------
(***************************************************************************)
(* Requests and asynchronous tasks paid from subscriptions: one user with  *)
(* a limited token and several subscriptions of one bound group, bought    *)
(* one by one and used in the order of their end. model/subscription.go, the subscription side of *)
(* service/billing_session.go, model/task_refund.go, and the pollers of    *)
(* service/task_polling.go with service/task_billing.go.                   *)
(*                                                                         *)
(* Every function of model/ is one transaction and one action here. What   *)
(* interleaves is around them: handlers and their refund jobs, pollers     *)
(* with a task they read earlier, the maintenance job, an administrator,   *)
(* the clock, processes that die. A subscription has no sweeper: what a    *)
(* dead handler reserved stays used until the period is reset.             *)
(***************************************************************************)
EXTENDS Integers, FiniteSets, Functions

CONSTANTS Reqs,        \* requests of the user
          Tasks,       \* the requests that submit an asynchronous task
          NSubs,       \* subscriptions, numbered in the order they are tried
          Total,       \* amount_total of each; 0 is no limit
          TokenQuota,  \* what the token may spend
          Pollers,     \* processes that poll tasks
          Attempts,    \* refundWithRetry: three
          MaxAmount,   \* bound: amounts
          MaxResets    \* bound: ends of a period, and resets by hand

ASSUME SubscriptionAssumption ==
    /\ Tasks \subseteq Reqs /\ IsFiniteSet(Reqs)
    /\ NSubs \in Nat \ {0} /\ Total \in Nat /\ TokenQuota \in Nat
    /\ Attempts \in Nat \ {0} /\ MaxAmount \in Nat /\ MaxResets \in Nat

VARIABLES
    sub,     \* the user_subscriptions rows, in the order of their end, and
             \* (history) whether an expiry took the group of the plan while
             \* the subscription was exhausted
    token,   \* used_quota of the token
    group,   \* the user's group: the one a plan grants, its fallback, the old one
    req,     \* every request: session, pre-consume record, settled price, and
             \* (history) whether its settlement was refused and whether its
             \* charge is of the running period
    task,    \* the task rows
    poll,    \* what a poller is doing
    resets   \* bound on resets

vars == <<sub, token, group, req, task, poll, resets>>

Subs == 1..NSubs
Amounts == 1..MaxAmount
Open == {"queued", "running"}
NoTask == [st |-> "none", quota |-> 0]
Idle == [st |-> "idle"]

\* A usage the total admits.
Within(n) == Total = 0 \/ n <= Total
Usage == {n \in Nat : Within(n)}

\* prev is PrevUserGroup, the group the user had before, if another.
SubRow == [used: Usage, st: {"none", "active", "exhausted", "expired"},
           due: BOOLEAN, ended: BOOLEAN, told: BOOLEAN,
           prev: {"none", "old", "fallback"}, missed: BOOLEAN]
NotBought == [used |-> 0, st |-> "none", due |-> FALSE, ended |-> FALSE,
              told |-> FALSE, prev |-> "none", missed |-> FALSE]
Request == [ph: {"new", "refused", "held", "refunding", "settled", "over"},
            rec: {"none", "consumed", "refunded"}, sub: Subs \cup {0},
            held: 0..MaxAmount, price: 0..MaxAmount, short: BOOLEAN,
            era: {"now", "past", "mixed"}, tries: 0..(Attempts - 1)]
Task == [st: Open \cup {"none", "success", "failure"}, quota: 0..MaxAmount]
Poll == {Idle} \cup [st: {"read"}, task: Reqs, saw: Open]
               \cup [st: {"settle"}, task: Reqs]

\* The state has its types. No subscription shows more than its total as used
\* and no token more than its quota: every guard of a move has that purpose.
TypeOK ==
    /\ sub \in [Subs -> SubRow]
    /\ token \in 0..TokenQuota
    /\ group \in {"plan", "fallback", "old"}
    /\ req \in [Reqs -> Request]
    /\ task \in [Reqs -> Task]
    /\ poll \in [Pollers -> Poll]
    /\ resets \in 0..MaxResets

Init ==
    /\ sub = [s \in Subs |-> NotBought]
    /\ token = 0 /\ group = "old"
    /\ req = [r \in Reqs |-> [ph |-> "new", rec |-> "none", sub |-> 0, held |-> 0,
                              price |-> 0, short |-> FALSE, era |-> "now", tries |-> 0]]
    /\ task = [r \in Reqs |-> NoTask]
    /\ poll = [p \in Pollers |-> Idle]
    /\ resets = 0

----------------------------------------------------------------------------
(* Money. *)

\* The guards of a move by d on subscription row s and the token row.
FitsTotal(s, d) == Within(sub[s].used + d)
FitsToken(d) == token + d <= TokenQuota

\* AdjustSubscriptionTokenQuota takes d > 0 within the total and the token,
\* d < 0 only from what the rows show as used.
MayMove(s, d) ==
    IF d > 0 THEN FitsTotal(s, d) /\ FitsToken(d)
             ELSE sub[s].used >= -d /\ token >= -d

\* The two rows move together.
Move(s, d) ==
    /\ sub' = [sub EXCEPT ![s].used = @ + d]
    /\ token' = token + d

\* A move for a request whose charge a reset has wiped mixes two periods.
Late(q, d) == [q EXCEPT !.era = IF @ = "past" /\ d # 0 THEN "mixed" ELSE @]

\* The charges of a set of subscriptions are wiped by a reset.
Wiped(S) ==
    [r \in Reqs |-> IF req[r].sub \in S THEN [req[r] EXCEPT !.era = "past"] ELSE req[r]]

----------------------------------------------------------------------------
(* A request: BillingSession on SubscriptionFunding. *)

\* findEligibleSubscriptionsTx, with the reset that is due applied.
Usable(s) == sub[s].st = "active" /\ ~sub[s].ended
UsedAfterReset(s) == IF sub[s].due THEN 0 ELSE sub[s].used
Room(s, a) == Usable(s) /\ Within(UsedAfterReset(s) + a)

\* maybeResetUserSubscriptionWithPlanTx on a subscription that is due.
Rolled(x) ==
    IF x.due THEN [x EXCEPT !.used = 0, !.due = FALSE, !.told = FALSE] ELSE x

\* PreConsumeUserSubscriptionToken: the first subscription with room; those
\* tried before it have been reset if they were due.
PreConsume(r, a) == \E s \in Subs :
    LET rolled == {u \in 1..s : Usable(u) /\ sub[u].due}
    IN  /\ req[r].ph = "new"
        /\ Room(s, a) /\ \A u \in 1..(s - 1) : ~Room(u, a)
        /\ FitsToken(a)
        /\ sub' = [u \in Subs |->
                     LET x == IF u \in rolled THEN Rolled(sub[u]) ELSE sub[u]
                     IN  IF u = s THEN [x EXCEPT !.used = @ + a] ELSE x]
        /\ token' = token + a
        /\ req' = [Wiped(rolled) EXCEPT ![r] = [@ EXCEPT !.ph = "held", !.rec = "consumed",
                                                         !.sub = s, !.held = a]]
        /\ UNCHANGED <<group, task, poll, resets>>

\* No subscription has room, or the token has none: rolled back.
PreConsumeRefused(r, a) ==
    /\ req[r].ph = "new"
    /\ (\A u \in Subs : ~Room(u, a)) \/ ~FitsToken(a)
    /\ req' = [req EXCEPT ![r].ph = "refused"]
    /\ UNCHANGED <<sub, token, group, task, poll, resets>>

\* ReserveSubscriptionPreConsumeTokenQuota: record, subscription and token.
Reserve(r, d) ==
    /\ req[r].ph = "held" /\ req[r].held + d <= MaxAmount
    /\ MayMove(req[r].sub, d) /\ Move(req[r].sub, d)
    /\ req' = [req EXCEPT ![r] = [Late(req[r], d) EXCEPT !.held = @ + d]]
    /\ UNCHANGED <<group, task, poll, resets>>

\* Settle to the metered amount; a refusal is only logged. A task that was
\* submitted is recorded with the metered amount in either case, unless the
\* insert fails or the process dies before it.
Settle(r, actual) ==
    LET d == actual - req[r].held
        ok == d = 0 \/ MayMove(req[r].sub, d)
    IN  /\ req[r].ph = "held"
        /\ IF ok THEN /\ Move(req[r].sub, d)
                       /\ req' = [req EXCEPT ![r] = [Late(@, d) EXCEPT !.ph = "settled", !.price = actual]]
                 ELSE /\ req' = [req EXCEPT ![r] = [@ EXCEPT !.ph = "settled", !.short = TRUE]]
                      /\ UNCHANGED <<sub, token>>
        /\ \/ r \in Tasks /\ task' = [task EXCEPT ![r] = [st |-> "queued", quota |-> actual]]
           \/ UNCHANGED task
        /\ UNCHANGED <<group, poll, resets>>

\* The upstream failed: Refund submits its job.
Fail(r) ==
    /\ req[r].ph = "held"
    /\ req' = [req EXCEPT ![r].ph = "refunding"]
    /\ UNCHANGED <<sub, token, group, task, poll, resets>>

\* Mutant: a repeated attempt does not look at the record.
RefundableAgain(r) == req[r].rec # "none"

\* The record is still consumed.
Refundable(r) == req[r].rec = "consumed"

\* One attempt of the job: paid back, with the answer lost on the way or
\* not; found refunded by an earlier one; refused; or the database is away.
RefundAttempt(r) ==
    LET q == req[r]
        done(x) == [x EXCEPT !.tries = 0, !.ph = "over"]
        again(x) == IF q.tries + 1 = Attempts THEN done(x) ELSE [x EXCEPT !.tries = @ + 1]
        back == [Late(q, q.held) EXCEPT !.rec = "refunded"]
    IN  /\ q.ph = "refunding"
        /\ \/ /\ Refundable(r) /\ MayMove(q.sub, -q.held)
              /\ Move(q.sub, -q.held)
              /\ \E x \in {done(back), again(back)} : req' = [req EXCEPT ![r] = x]
           \/ /\ ~Refundable(r)
              /\ req' = [req EXCEPT ![r] = done(q)]
              /\ UNCHANGED <<sub, token>>
           \/ /\ req' = [req EXCEPT ![r] = again(q)]
              /\ UNCHANGED <<sub, token>>
        /\ UNCHANGED <<group, task, poll, resets>>

\* The process dies with the request or its refund job.
Die(r) ==
    /\ req[r].ph \in {"held", "refunding"}
    /\ req' = [req EXCEPT ![r] = [@ EXCEPT !.ph = "over", !.tries = 0]]
    /\ UNCHANGED <<sub, token, group, task, poll, resets>>

----------------------------------------------------------------------------
(* Asynchronous tasks. *)

\* A poller, or the sweep of timed-out tasks, reads an unfinished task.
PollRead(p, r) ==
    /\ poll[p] = Idle /\ task[r].st \in Open
    /\ poll' = [poll EXCEPT ![p] = [st |-> "read", task |-> r, saw |-> task[r].st]]
    /\ UNCHANGED <<sub, token, group, req, task, resets>>

\* Mutant: the update does not compare the status it read.
UnmovedIgnored(p) == TRUE

\* The compare of UpdateWithStatus and UpdateFailureWithRefund.
Unmoved(p) == task[poll[p].task].st = poll[p].saw

\* UpdateFailureWithRefund: status, refund record and money in one go; a
\* refused refund rolls the status back, too, for the next round.
PollFailure(p) ==
    LET r == poll[p].task
        s == req[r].sub
        q == task[r].quota
    IN  /\ poll[p].st = "read"
        /\ poll' = [poll EXCEPT ![p] = Idle]
        /\ IF Unmoved(p) /\ MayMove(s, -q)
           THEN /\ task' = [task EXCEPT ![r].st = "failure"]
                /\ Move(s, -q)
                /\ req' = [req EXCEPT ![r] = Late(@, q)]
           ELSE UNCHANGED <<task, sub, token, req>>
        /\ UNCHANGED <<group, resets>>

\* UpdateWithStatus: progress, as the upstream tells it, or success, which goes on to settle.
PollProgress(p) ==
    LET r == poll[p].task
    IN  /\ poll[p].st = "read"
        /\ poll' = [poll EXCEPT ![p] = Idle]
        /\ \E st \in Open : task' = [task EXCEPT ![r].st = IF Unmoved(p) THEN st ELSE @]
        /\ UNCHANGED <<sub, token, group, req, resets>>

PollSuccess(p) ==
    LET r == poll[p].task
    IN  /\ poll[p].st = "read"
        /\ IF Unmoved(p)
           THEN /\ task' = [task EXCEPT ![r].st = "success"]
                /\ poll' = [poll EXCEPT ![p] = [st |-> "settle", task |-> r]]
           ELSE poll' = [poll EXCEPT ![p] = Idle] /\ UNCHANGED task
        /\ UNCHANGED <<sub, token, group, req, resets>>

\* settleTaskBillingOnComplete, RecalculateTaskQuota: the difference, if the
\* rows take it; the new price stays in memory.
TaskSettle(p, actual) ==
    LET r == poll[p].task
        d == actual - task[r].quota
        ok == d = 0 \/ MayMove(req[r].sub, d)
    IN  /\ poll[p].st = "settle"
        /\ poll' = [poll EXCEPT ![p] = Idle]
        /\ IF ok THEN /\ Move(req[r].sub, d)
                       /\ req' = [req EXCEPT ![r] = [Late(@, d) EXCEPT !.price = actual]]
                 ELSE UNCHANGED <<sub, token, req>>
        /\ UNCHANGED <<group, task, resets>>

PollDies(p) ==
    /\ poll[p] # Idle
    /\ poll' = [poll EXCEPT ![p] = Idle]
    /\ UNCHANGED <<sub, token, group, req, task, resets>>

----------------------------------------------------------------------------
(* Purchase, the clock, the maintenance job, the administrator. *)

Bought(s) == sub[s].st # "none"

\* CreateUserSubscriptionFromPlanTx: the row remembers the group it takes the
\* user from, which is none if the user has the plan's already. A purchase
\* ends after now: not before one that has ended.
Buy(s) ==
    /\ ~Bought(s) /\ \A u \in Subs : u > s => ~sub[u].ended
    /\ sub' = [u \in Subs |->
                 [sub[u] EXCEPT !.missed = FALSE,
                                !.st = IF u = s THEN "active" ELSE @,
                                !.prev = IF u = s /\ group # "plan" THEN group ELSE @]]
    /\ group' = "plan"
    /\ UNCHANGED <<token, req, task, poll, resets>>

PeriodEnds(s) ==
    /\ Bought(s) /\ ~sub[s].due /\ ~sub[s].ended /\ resets < MaxResets
    /\ sub' = [sub EXCEPT ![s].due = TRUE] /\ resets' = resets + 1
    /\ UNCHANGED <<token, group, req, task, poll>>

SubscriptionEnds(s) ==
    /\ Bought(s) /\ ~sub[s].ended /\ \A u \in 1..(s - 1) : Bought(u) => sub[u].ended
    /\ sub' = [sub EXCEPT ![s].ended = TRUE]
    /\ UNCHANGED <<token, group, req, task, poll, resets>>

\* Back to the group of the plan, if the exhaustion had taken it away.
Restored(x) == IF x.st = "exhausted" /\ group = "fallback" THEN "plan" ELSE group

\* The row after a reset, which is due again or not.
Revived(x, due) == [x EXCEPT !.used = 0, !.due = due, !.told = FALSE,
                             !.st = IF @ = "exhausted" THEN "active" ELSE @]

ResetDue(s) ==
    /\ sub[s].due /\ sub[s].st \in {"active", "exhausted"}
    /\ sub' = [sub EXCEPT ![s] = Revived(@, FALSE)]
    /\ group' = Restored(sub[s]) /\ req' = Wiped({s})
    /\ UNCHANGED <<token, task, poll, resets>>

\* resetUserSubscriptionTx, with or without starting a new period.
AdminReset(s) ==
    /\ sub[s].st \in {"active", "exhausted"} /\ ~sub[s].ended /\ resets < MaxResets
    /\ \E advance \in BOOLEAN :
          sub' = [sub EXCEPT ![s] = Revived(@, @.due /\ ~advance)]
    /\ group' = Restored(sub[s]) /\ req' = Wiped({s}) /\ resets' = resets + 1
    /\ UNCHANGED <<token, task, poll>>

\* Mutant: the group is taken although a subscription is usable.
OutOfForceIgnored == TRUE

\* No subscription of the group is active and running.
OutOfForce == \A s \in Subs : ~Usable(s)

\* ExpireDueSubscriptions for the user: with none in force the last of the
\* expired ones tells the group to go back to, or has none to tell.
Expire ==
    LET gone == {s \in Subs : sub[s].ended /\ sub[s].st # "expired"}
        expired == {s \in Subs : s \in gone \/ sub[s].st = "expired"}
    IN  /\ gone # {}
        /\ \E last \in expired :
             LET lapses == group = "plan" /\ OutOfForce /\ sub[last].prev # "none"
             IN  /\ \A s \in expired : s <= last
                 /\ sub' = [s \in Subs |->
                              IF s \in gone THEN [sub[s] EXCEPT !.st = "expired"]
                              ELSE [sub[s] EXCEPT !.missed = @ \/ (lapses /\ sub[s].st = "exhausted")]]
                 /\ group' = IF lapses THEN sub[last].prev ELSE group
        /\ UNCHANGED <<token, req, task, poll, resets>>

\* Subscriptions of the same group that have not been dealt with.
StandIns(s) == {u \in Subs \ {s} : Usable(u) /\ ~sub[u].told}

\* ProcessExhaustedSubscriptions, for plans with a fallback group.
Exhaust(s) ==
    /\ Usable(s) /\ Total > 0 /\ sub[s].used >= Total /\ ~sub[s].told /\ ~sub[s].due
    /\ sub' = [sub EXCEPT ![s] = [@ EXCEPT !.told = TRUE, !.st = "exhausted"]]
    /\ group' = IF group = "plan" /\ StandIns(s) = {} THEN "fallback" ELSE group
    /\ UNCHANGED <<token, req, task, poll, resets>>

Next ==
    \/ \E r \in Reqs : Fail(r) \/ RefundAttempt(r) \/ Die(r)
    \/ \E r \in Reqs, a \in Amounts :
         PreConsume(r, a) \/ PreConsumeRefused(r, a) \/ Reserve(r, a)
    \/ \E r \in Reqs, a \in Amounts \cup {0} : Settle(r, a)
    \/ \E p \in Pollers :
         \/ PollFailure(p) \/ PollProgress(p) \/ PollSuccess(p) \/ PollDies(p)
         \/ \E r \in Reqs : PollRead(p, r)
         \/ \E a \in Amounts : TaskSettle(p, a)
    \/ \E s \in Subs : PeriodEnds(s) \/ SubscriptionEnds(s) \/ ResetDue(s)
                       \/ AdminReset(s) \/ Exhaust(s) \/ Buy(s)
    \/ Expire

Spec == Init /\ [][Next]_vars

----------------------------------------------------------------------------
(* Properties. *)

\* What a request should have cost by now: nothing once it is refunded or
\* its task has failed, the price once it is settled, else what it holds.
Cost(r) ==
    IF req[r].rec = "refunded" \/ task[r].st = "failure" THEN 0
    ELSE IF req[r].ph = "settled" /\ ~req[r].short THEN req[r].price ELSE req[r].held

\* A task was closed whose request could not be settled: its row names an
\* amount that was never charged.
Overstated(r) == req[r].short /\ task[r].st \in {"failure", "success"}

\* The token has been charged exactly what its requests cost, across resets,
\* retried refunds whose answer was lost, pollers that close one task twice
\* and refusals half-way.
TokenAccounted ==
    (\A r \in Reqs : ~Overstated(r)) => token = SumFunctionOnSet([r \in Reqs |-> Cost(r)], Reqs)

\* The usage a subscription shows is what the requests charged in this period
\* cost, as long as no request reserved before a reset was topped up, settled
\* or refunded after it.
UsageAccounted ==
    \A s \in Subs :
       LET on == {r \in Reqs : req[r].sub = s}
       IN  (\A r \in on : req[r].era # "mixed" /\ ~Overstated(r))
              => sub[s].used = SumFunctionOnSet([r \in Reqs |-> Cost(r)], {r \in on : req[r].era = "now"})

\* The last subscription that expired was bought in the plan's group: it
\* knows no group to go back to.
NoWayBack == \E s \in Subs : /\ sub[s].st = "expired" /\ sub[s].prev = "none"
                             /\ \A u \in Subs : sub[u].st = "expired" => u <= s

\* The user has the group of the plan only while some subscription is active,
\* or if the one that expired last knows no way back; and whenever one is
\* usable, unless it was exhausted when an expiry took the group: a stand-in
\* keeps it when another is exhausted or expires, the last one to be exhausted
\* gives it up, a reset or a purchase brings it back.
GroupFollowsSubscriptions ==
    /\ group = "plan" => NoWayBack \/ \E s \in Subs : sub[s].st = "active"
    /\ \A s \in Subs : Usable(s) => group = "plan" \/ (group = "old" /\ sub[s].missed)
=============================================================================
