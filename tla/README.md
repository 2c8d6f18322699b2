# A verification project for the billing and session core of beeapi

beeapi is a gateway for AI APIs: it authenticates a request with a token,
reserves money in the wallet of the token's owner, relays the request to one of
many upstream channels, and settles the reservation by the metered usage. What
it must not do is lose or invent money, whoever races, whatever fails and
whenever the process dies or is shut down. Around it stand the dashboard's login
sessions, which several tabs of a browser share and rotate, and the playground,
which shows answers while they stream. This directory models these parts in
TLA+, checks it with TLC on small instances and proves its central invariants
with TLAPS for all instances. Paths below are relative to `src/`.

## 1. Inventory

### Parts that are modelled

| Part | State | Operations | Hard behaviour | What makes it correct |
|---|---|---|---|---|
| Billing session (`service/billing_session.go`, `billing.go`, `funding_source.go`) | one in-memory session per request | pre-consume, `Reserve`, `Settle`, `Refund` and its job | balance read before the transaction; commit reported as an error; crash at any step | a request pays what was metered, or nothing |
| Pre-consume record (`model/wallet_preconsume_record.go`, `model/user.go`, `model/token.go`) | wallet, token, record per request | reserve with record, extend, finalize, claim | session, job, sweeper and deletion race for one record | money, token and record move together, once |
| Sweeper (`service/wallet_reservation_sweeper.go`) | snapshot of stale records | find, refund | refunds a live request; starves behind a record that cannot be closed | every reservation ends |
| Batch updater (`model/batch_updater.go`, `flush_operation_ledger.go`, `batch_update_delete_ledger.go`) | deltas pending and in flight, operation ids, ledgers | `AddMany`, `Flush`, `StopAndFlush`, apply, replay, discard, delete | unseen and undecided commits, retries, deletion in between, overflow, stop under load | every delta is written exactly once |
| Billing coordinator (`pkg/billinglifecycle/coordinator.go`) | tickets, producers, admission | reserve, child, submit, release, producers, drain | jobs start jobs while the drain runs | a closed coordinator is idle, a drain ends |
| Graceful shutdown (`graceful_shutdown.go`, `main.go`, `shutdown_resources.go`, `pkg/httplifecycle`, `pkg/backgroundtask`) | stage, contexts, handlers, tasks | drain HTTP, billing, batch updater, services, tasks, close | anything may hang; steps fail and the rest goes on; some work nobody stops | resources are closed behind everybody that is drained; every stream is told; the process ends |
| Subscriptions (`model/subscription.go`, `service/funding_source.go`) | usage, status and period of each subscription, record per request, the user's group | purchase, pre-consume, `Reserve`, settle, refund with retries, reset, expiry, exhaustion | a reset between reservation and refund; lost answers; several subscriptions share one group | token and subscription are charged what is held or settled; the group follows the subscriptions |
| Asynchronous tasks (`model/task_refund.go`, `service/task_polling.go`, `task_billing.go`) | task row, refund record | submit, poll, fail with refund, succeed and settle | several pollers and a timeout close one task | a failed task is refunded once |
| User sessions (`model/user_session_runtime.go`, `service/auth_session.go`) | session row, cached entry, deny fence | create, validate, refresh, logout, revoke | a stale read is published after a revocation; concurrent refreshes; Redis fails | no access after revocation; the newest refresh token is accepted |
| Dashboard authentication (`web/default/src/lib/api.ts`, `sign-out-dialog.tsx`) | access token per tab, cookie, lock or lease, broadcasts | request, 401 and retry, refresh, sign-out, login | tabs refresh, sign out and log in at the same time, answers are slow, lost or refused, tokens and leases expire under them | a live session is neither signed off nor taken for stolen without a cause; a successful logout ends it |
| Chat playground (`web/default/src/features/playground`) | messages in state, on screen and in storage, the stream | send, regenerate, edit, delete, clear, stop, reload | events of a stream that was stopped; handlers work on the last render | text lands in its own message; nothing is left unfinished |

They interact like this. A handler calls the session; the session runs database
transactions, hands refunds to the coordinator as root tickets, and books
trusted debts with the batch updater. The updater's flush starts reward jobs
under the ticket carried by its context. The sweeper, in every process, looks
only at the database. Shutdown ends admission from the outside in: handlers,
billing roots, the updater's last flush under the drain sentinel, child tickets,
services, tasks, and then the database. A request whose user has a subscription
takes the same session with another funding source, and a task that was
submitted goes on after its request in the pollers. The dashboard calls the
refresh and logout handlers of the session runtime; what UserSession does in
several steps is one step of the server in DashboardAuth.

### Parts that are not modelled yet

| Part | State and hard behaviour | Property worth stating |
|---|---|---|
| Auth flows (`service/auth_flow.go`) | one-time states | consumed at most once |
| Channel, URL and token health (`service/*_health.go`) | windows, levels, locks | demotion and promotion are serialised; manual decisions win |
| Capacity, selection, retry | counters with leases | no leak of a slot |
| Content backup, sensitive audit, IQ tests | leased jobs in the database | one owner at a time; nothing is left claimed |
| Top-ups, redemption, commissions | single transactions | once per code |
| Wallet-paid tasks, playground requests on a subscription, orders and administration of subscriptions | single transactions around the modelled ones | as for the modelled paths |

Left out for good: relay adapters and format conversion, price expressions,
routing and settings, OAuth providers, i18n, and the forms, tables and charts of
the web and desktop front ends, which are by far the largest part of the
repository by lines. They carry no shared state whose interleavings matter here:
a page of the administration is a form over one request. The logic of the
program is in Go, and so is most of what is modelled.

## 2. Modules

**RequestAccount** is the abstract specification: an account per request that is
held once and then charged, returned or voided, once. It has no top-up: nothing but
tests calls `BillingSession.Reserve` at this commit.

**WalletBilling** models sessions, records, wallets, tokens, the sweeper and the
part of the batch updater that bears on money, in several processes that share a
database. A database transaction is one step; it may fail without effect, and
with `LostAcks` its commit may look like a failure. `ses` is the `BillingSession`
(amount, mode, settled or not), `pc` the place of the handler, `rec` the row of
`wallet_pre_consume_records`, `pend`/`tpend` what the batch updater has admitted.
`net`, `tnet`, `unheard`, `metered`, `lost`, `discarded` are history variables.
`Tick` advances the age of open records, whether or not their handlers run: nothing
in the code ends a long stream. `unheard[r]` says that a top-up of `r` was committed
of which the session did not hear, or that a sweep had looked before. `Trusts` lets the token's quota be stale, because the auth
middleware reads it from a cache. `INSTANCE RequestAccount` with `AccountOf`
gives the refinement.

**BatchUpdater** models one updater and the database behind it. `stores`,
`inFlight`, `operationIDs` are the maps of the code; `todo` is the loop of
`Flush`. A transaction may commit, commit unseen, fail, or stay open on the
server (`doubt`) after the client has given up, holding its row lock until the
server decides it. `ledger` is the table of flush operations, `deleteLedger` and
`discarded` that of deleted rows. Integers have the width `MaxInt`.
Operation ids are UUIDs: any ids not used before will do, so `Fresh` is some member
of `Mintings`, the ways to give the rows of a snapshot different unused ids.

**BillingLifecycle** models the coordinator, one action per critical section of
its mutex. The exit of a producer takes two, and the waits are actions that are
enabled when their condition holds. `origin` records from which root a ticket
descends. The wait inside `CloseAdmissionAndWait` gives up without effect, so
its expiry is not an action here; `GracefulShutdown` has it as `StepFails`.

**GracefulShutdown** extends BillingLifecycle and composes it, sharing its
variables and actions, with the main goroutine's stages, the HTTP manager, the task group,
the two services and the content-backup queue; `Spec` is the coordinator's
specification, `ProcessSpec` that of the process. The batch updater is reduced to
its state and the number of its unwritten debts (its own module is
BatchUpdater). `outside` is work that no step of the shutdown stops or waits for:
a sweep of the wallet sweeper, which is a bare goroutine
(`service/wallet_reservation_sweeper.go:25`), and a ratio fetch an administrator
started (`controller/channel_ratio_monitor.go:225`). `Busy` says for every part
what being at work, or able to begin, means for it.

**SubscriptionBilling** models one user with a limited token who buys several
subscriptions of one plan, the requests and tasks paid from them, the pollers,
the maintenance job (reset, expiry, exhaustion), an administrator's reset and the
death of processes. Every function of `model/` is one transaction and one
action; what interleaves is the callers. `sub` are the rows, tried in the order of
their numbers as `findEligibleSubscriptionsTx` orders them by end; `told` is the
mark of a processed exhaustion; `group` is the plan's, its fallback or the old
one; `prev` is `PrevUserGroup`, the group a purchase took the user from, or none if
the user had the plan's already; `missed` is history: an expiry took the group while
the row was exhausted. `Total = 0` is a subscription without limit. `req[r].era` is history: whether the charge belongs to the running period,
to one that a reset has wiped, or to both.

**UserSession** models one session, its row and its Redis entry, with one step
per database or Redis call of the handlers. Secrets are numbers: the successor
of a refresh secret is derived from it, so that two rotations of the same secret
yield the same one. `proc[p].dl` is the deadline taken before the row is read,
which bounds how long the snapshot may live in the cache; `ScriptRefuses` is the
Lua script that keeps an active entry from overwriting a denial. The row's
version never changes after creation and is left out.

**DashboardAuth** models the tabs of one browser, with the server's handlers as
atomic steps. `rf` is the refresh promise of a tab, `holder` the web lock and
`lease` its fallback in `localStorage`; which of the two the browser has is chosen
at the start. A secret, and the token issued with it, is the number of its session
and of its rotation; a login begins the next session, while messages, answers and
requests of the last may still be under way. Timers are events that go off at any
moment, whatever is under way then: the replay window (30 s) and the lease (15 s)
close, tokens (15 min) expire in the tabs and at the server. `MaxEvents` bounds how
often people, network, clock and server interfere; what the protocol does by itself
is not bounded. `lost` and `crowded` are histories: the sessions of which the answer
of a rotation was lost, and those that two tabs were refreshing at once. Left out
are a refresh that reaches the server after its tab has given it up, the deny fence
that a failed logout leaves behind for a while, and pages without a stored user
that log out.

**PlaygroundChat** models the page. `msgs` is React's state with pending updates,
`view` the last render, which the handlers of clicks see, and `stored` the copy
in `localStorage`. A text is the set of requests it came from. `slips` is history:
the cases the page is known not to handle.

**MCWalletBilling**, **MCBatchUpdater**, **MCSubscriptionBilling**,
**MCUserSession** and **MCDashboardAuth** hold instances and symmetries for TLC.
Eight modules hold the theorems, seven of them named after the module they are
about: **WalletBillingProofs**, **BatchUpdaterProofs**, **GracefulShutdownProofs**,
**SubscriptionBillingProofs**, **UserSessionProofs**, **DashboardAuthProofs** and
**PlaygroundChatProofs**. GracefulShutdownProofs also proves what is claimed of
BillingLifecycle by itself. **SumTheorems** has
the facts about `SumFunctionOnSet` (community module Functions) with which the
balance equations of wallet and subscriptions are stated. The `TypeOK` of each of these
components (`ProcessTypeOK` of the shutdown) is proved, and no run lists one among
its properties: to check it on an instance, add it to the `INVARIANTS` of the
configuration.

## 3. Runs

| Run | Checks | Instance |
|---|---|---|
| `wallet_core` | money, token, record and balance agree; no overdraft; no orphan; every charge on record; refinement of RequestAccount | two requests of one user with one token on two processes, estimates {0, 2} and usage {0, 3} against 4 units, lost acknowledgements, live requests may be swept, batch of 1 |
| `wallet_trusted` | the same agreement of charge, record and balance | a request that may be trusted (threshold 2) and one of the playground on one process with a batch updater, both may be topped up with `Reserve` |
| `wallet_live` | `ReservationsClose` | two users, one record each, sweep batch 1; trusted requests settle without the updater |
| `batch_core` | `ExactlyOnce`, `StoppedIsWritten`, `OperationsKeepIdentity`, `SumsFit` | a user row of two columns and a channel row, two calls of `AddMany` with delta 2 against a largest int of 3 |
| `batch_live` | `StopCompletes`, `OperationsConfirm`, `GoneRowsAbsorb` | a row of two columns, active or soft-deleted from before the ledgers, deltas -1 and 3 |
| `lifecycle` | `ActiveCounts`, `OnlySentinelWork`, `ClosedIsIdle`, `ProducersStayStopped`, `DrainCompletes` | four tickets, two producer names |
| `shutdown` | `ResourcesClosedQuiet`, `CancelMissesNoStream`, `CleanExitKeepsDebts`, `NobodyBehindFlush`, `DrainIsBounded` | one request, three tickets, one debt, one task, and one capture, sweep or ratio fetch at a time |
| `subscription` | `TokenAccounted`, `UsageAccounted`, `GroupFollowsSubscriptions` | a plain request and a task on two subscriptions of 2 units, bought in either order, and a token of 3, amounts 1 and 2, two pollers, two attempts of a refund, one reset |
| `session` | `RevokedSessionDenied`, `StalenessBounded`, `NewestSecretAccepted` | two handlers, two rotations, cache lifetime 2, replay window 1, session 3 ticks, one failure of Redis |
| `dashboard` | `ReuseNeedsLoss`, `LogoutEndsSession`, `SignOffHasCause` | two tabs with one request each, two sessions of three secrets, four events, with and without web locks |
| `playground` | `OwnText`, `UnfinishedHasRequest`, `GenerationEnds` | four messages, hence two requests with their answers, streamed or plain |

Two requests are enough for the races over one record (session against sweeper
against deletion concern one request) and for those over one balance; two
processes let both sweepers work on one record. Amounts are chosen so that two
reservations fit and two settlements do not, and so that usage is below, equal
to and above the estimate. Ages stop one tick past the threshold. In `batch_core`
one delta fits an int and two do not; four ids are what two calls on two rows can
use. In `shutdown` three tickets admit a root with a child besides the sentinel,
or two jobs under the sentinel. In `subscription` the token holds less than the
two subscriptions together, so that either may be the one that refuses; two
attempts suffice for an answer that is lost and its repetition (the code makes
three). In `session` a handler can be overtaken at every step by a whole
operation of the other, and a second handler's write can outlive the tombstone;
time reaches past the cache's lifetime. In `dashboard` four events
reach the case behind every exception of the properties but a logout overtaken
twice: a lost answer and a refresh after the window; a lease that runs out under a
refresh; a logout overtaken once after the window has closed; a new login that meets the
refusal of an old session's refresh; a retry that is refused again. Deadlock is checked for the wallet, and not for
the others, which may stop: an updater that has stopped, a coordinator that has
closed, a process that has ended, a
browser in which nobody does anything.

`wallet_failed_settle` shows a disagreement between the code and what the
repository says about it (`findings` in `PROJECT.json`): a settlement that fails
is only logged, and the answered request is refunded in full by the sweeper.

### What the models showed besides

Behaviour of the code that the properties have to name, and that a maintainer
should know. None of it is a run of its own.

- Wallet: no timeout ends a streaming request (`RELAY_TIMEOUT` is 0 by default,
  `common/init.go:107`), although `service/wallet_reservation_sweeper.go:13` and
  `docs/FEATURES.md:386` count on one. One that takes longer than the sweeper's two
  hours is refunded while it runs, its settlement finds the record closed, and the
  user pays nothing: `SettledPaysMetered` excepts it. A top-up whose acknowledgement
  is lost leaves the session with less than the record, and a top-up between a
  sweep's query and its refund lets the sweep return less than the record holds
  (`unheard`). A playground request is charged without a record
  (`service/funding_source.go:36`); `ChargeHasRecord` is about the others. The flush
  discards a trusted debt whose user was soft-deleted meanwhile
  (`model/batch_updater.go:644`).
- Shutdown: `shutdown_resources.go:38` asks that all detached work and all periodic
  producers be drained before the database is closed. The wallet sweeper, a ratio
  fetch started by hand and the content backup, which `main.go:418` stops
  afterwards, are not; `ResourcesClosedQuiet` names them in `NotDrained`. The hand-off
  of captures has no deadline, though the comment above it speaks of 60 seconds;
  `DrainIsBounded` stops short of it.
- Subscriptions: a task records the price even if the settlement was refused
  (`controller/relay.go:971`), so that its failure refunds more than was paid
  (`Overstated`). After a reset, a refund is refused if less than its amount is used
  in the new period, and is credited to the new period otherwise (`era = "mixed"`).
  What a dead process reserved stays used until the next reset: there is no
  sweeper here. A crash between the success of a task and its settlement loses
  the difference. A subscription exhausted by a request that is refunded later
  stays exhausted. The group is not always right: a subscription bought while the
  user has the plan's group has no `PrevUserGroup` (`model/subscription.go:706`), and
  when it is the last to expire, `ExpireDueSubscriptions` (line 1604) leaves the user in
  the plan's group for ever (`NoWayBack`). And if one subscription expires while
  another is exhausted, the user goes to the old group, from which the reset of the
  other, which looks for the fallback group only, does not bring him back (`missed`).
- Left out of the tasks: a database error in the settlement of a subscription, which
  ends like a refused one, and legacy tasks that time out without a refund.
- Sessions: if the tombstone of a revocation cannot be written, a validation may
  be served from the cache for less than its lifetime; `StalenessBounded` says so.
  `docs/FEATURES.md:557` says that of two concurrent refreshes one succeeds; the code
  gives both the same successor.
- Dashboard: without web locks a lease that runs out under a slow refresh (the call
  at `api.ts:132` has no timeout), or is written late after a look, lets two tabs
  refresh at once; one of them may present a superseded secret after the replay
  window, which revokes the session as stolen, or be refused and sign the browser
  off. So does a rotation whose answer is lost, followed by a refresh after 30 s.
  When the server cannot revoke the session, `/api/user/logout` answers 200 with
  `success: false` and keeps the cookie (`controller/user.go:188`), while `api.ts:231`
  drops and broadcasts the token and the page resets itself: the next login finds
  the old session alive. A logout overtaken by two rotations leaves it alive, too.
  A refusal carries no session: that of an old session's refresh which arrives after
  a new login signs the new one off. A request whose retry meets another expiry
  signs a live session off (`dashboardAuthRetried`).
- Playground: plain requests do not count as generating and cannot be cancelled;
  their answer goes to whatever message is last by then ("crossed"). An answer
  without choices leaves its message loading ("nochoice"). Saving an edit on a
  render that is behind undoes the chunks in between ("stale").
  `sanitizeMessagesOnLoad` repairs the last stuck message only. Unmounting and two
  tabs on one `localStorage` are not modelled.

### Fairness

- `wallet_live`: time passes; a handler goes on; again and again the database
  answers and a process lives long enough for a sweep to find records and for
  the refund of a given record to commit (strong fairness, as crashes and
  failures interrupt it). This is the condition "when the database is back"
  under which `docs/FEATURES.md` promises the refund.
- `batch_live`: the ticker and the retry loop of the shutdown run on, the server
  decides open transactions, and a transaction tried again and again succeeds in
  the end. A `select` with two ready cases does not take the same for ever.
- `lifecycle`: jobs end, reserved tickets are released, canceled producers
  return, the drain goes on. A producer that is not canceled may run for ever.
- `shutdown`: only the shutdown's own goroutine and its timers. Handlers, jobs,
  tasks and services may hang.
- `playground`: React renders what was updated, and a stream that is still
  listened to ends, as gateway and browser cut one that is silent. Plain requests
  need not end.

`session`, `dashboard` and `subscription` check safety only.

## 4. Proofs

All theorems hold for every value of the constants that satisfies the `ASSUME` of
the module and the assumptions named here. Behind each property stands an
inductive invariant, one per component where that is possible, which TLC has
checked on the run's instance and whose proof has one step per action.

| Module | Theorems, and the property each states |
|---|---|
| WalletBillingProofs | `WalletTypes`; `WalletSafe` (`ChargeMatchesRecord`), `TokenAlwaysFollows` (`TokenFollowsWallet`), `OrphansNever` (`NoOrphanReservation`), `SettledAlwaysPays` (`SettledPaysMetered`), `BalanceAlwaysAccounted` (`BalanceAccounted`), `ChargesRecorded` (`ChargeHasRecord`), `Solvent` (`NoOverdraft`), `LedgerAlways`; `WalletImplementsAccount` (`ImplementsAccount`), if `Targets = {}` |
| BatchUpdaterProofs | `BatchTypes`, `IdentityKeptAlways` (`OperationsKeepIdentity`), `DeltasExactlyOnce` (`ExactlyOnce`), `OrphansAccounted`, `StopWritesAll` (`StoppedIsWritten`), `SumsAlwaysFit` (`SumsFit`), `GoneRowsAlwaysAbsorb` (`GoneRowsAbsorb`) |
| GracefulShutdownProofs | of the coordinator: `LifecycleTypes`, `CounterRight` (`ActiveCounts`), `QuietAfterWait` (`OnlySentinelWork`), `IdleWhenClosed` (`ClosedIsIdle`), `NoProducerReturns` (`ProducersStayStopped`); of the process: `ShutdownRunsCoordinator` (`ProcessSpec => Spec`), `ShutdownTypes`, `FlushIsLast` (`NobodyBehindFlush`), `CleanExitWritesDebts` (`CleanExitKeepsDebts`), `ResourcesClosedLast` (`ResourcesClosedQuiet`), `CancelReachesAll` (`CancelMissesNoStream`) |
| SubscriptionBillingProofs | `SubscriptionTypes`, `GroupRight` (`GroupFollowsSubscriptions`), `TokenAlwaysAccounted` (`TokenAccounted`), `UsageAlwaysAccounted` (`UsageAccounted`) |
| UserSessionProofs | `SessionTypes`, `NewestAlwaysAccepted` (`NewestSecretAccepted`), `RevocationEffective` (`RevokedSessionDenied`), `StalenessAlwaysBounded` (`StalenessBounded`) |
| DashboardAuthProofs | `DashboardTypes`, `ReuseOnlyAfterLoss` (`ReuseNeedsLoss`), `LogoutAlwaysEnds` (`LogoutEndsSession`), `SignOffAlwaysCaused` (`SignOffHasCause`) |
| PlaygroundChatProofs | `PlaygroundTypes`, `TextsAlwaysOwn` (`OwnText`), `NoneLeftTurning` (`UnfinishedHasRequest`) |
| SumTheorems | lemmas only: the sum of integers over a finite set does not depend on the order (`SumPick`), sees only the values in the set (`SumSame`), ignores zeros (`SumZero`), moves by what one summand moves (`SumChange`) |

### Wallet

The theorems need no assumption but one: the refinement is claimed without top-ups
(`Targets = {}`), which RequestAccount does not have. What a lost acknowledgement or
a sweep does to a top-up is named by `unheard` in the properties themselves.

`ChargeMatchesRecord` is not inductive: a refund job returns what
its session remembers, and a sweep what its snapshot remembers, so both
memories must agree with the record as long as it is open. A top-up changes
the record, so at that moment nobody but the session may remember the old amount,
or it is `unheard`. `IInv` is the
conjunction, over requests, of `SessionOK` (what the session knows of the record
at every place of the handler), `ChargeMatches` and `TokenFollows`, and of
`SweepInv` for the snapshots. All writers of a record go through a
compare-and-set on `reserved`, which `FinalizeEffect` captures: the winner moves
the money, the losers nothing. `SafeStep` has one step per action; `OneRequest`,
`RequestFrame` and `SweepFrame` dispose of the requests an action does not
touch. `Solvent` rests on its own invariant: a charge is guarded by the
conditional update itself, and what a token returns it has given before. The
refinement maps each action to a step of one account (`AccountMove`) or a stutter
(`AccountStutter`).

`SettledPaysMetered` adds `PaysInv` to `IInv`: what a settlement charges is a
difference, so what has been charged before must be known at every place of the
handler, for reserved, trusted and playground requests.

`BalanceAccounted` speaks of what the records show, summed over all requests. The
proof goes in two steps. `Ledger` says, with the money really moved: the balance
plus what each request has taken is the initial balance plus the debts that are
pending, lost or discarded. Every action moves two terms of it together, the
balance and the charge of one request, the charge and the debt of one process, or
the balance and the debt, and a crash moves the debts of its process to `lost`. This
needs no assumption: also where a lost acknowledgement or a swept live request
makes the record wrong, no money is created or destroyed. `ChargeMatchesRecord`
then replaces, request by request, the charge by what the record shows.

### Batch updater

`ExactlyOnce` is an equation per cell over the queue, what is in flight, the table,
the ledgers and the history. It is kept by every action once it is known what a
transaction finds when it commits, perhaps after the process has given it up.
That is `BatchInv`: ids are never reused and belong to one row (`IdsMinted`); an
operation in flight that was written is in the ledger, since only confirmed ids
are cleaned up (`WrittenRecorded`); and a transaction the server has not decided is
the only one of its row and of its id, is not written, and carries what is in
flight under that id (`OpenKnown`). The other properties are inductive relative to
`BatchInv`. `OrphansAccounted` says what the term `orphaned` of the equation is, so
that nothing can be hidden in it. `SumsAlwaysFit` holds for every width of int.

### Coordinator and shutdown

The waits of the coordinator look at a counter, not at the tickets, so the counter
belongs to the invariant `LInv`: with it and with the sentinel's ticket being registered as long as the
drain lasts, `active = 1` means that nothing but the sentinel is registered
(`OnlySentinel`), which is what `WaitOnly` and `CloseAdmissionAndWait` conclude.
The rest of `LInv` is per ticket: `TicketOK`, `QuietOK` (after `WaitOnly` the
origin of a registered ticket is the sentinel, inherited by children) and
`ProducerOK` (a goroutine that has not left the map is the one its name stands
for, so that deleting the entry by name never deletes another's).

`ShutdownRunsCoordinator` shows that whatever the process does to the
coordinator's variables is a step of BillingLifecycle or a stutter, so that `LInv`
holds in the process as well and is a conjunct of `ShutdownInv`. The rest of
`ShutdownInv` is the order of `runGracefulShutdown`: as long as no step has failed,
what an earlier step waited for stays so. `HandlersGone` says that no handler
comes after HTTP was drained, `FlushLast` that the final flush begins when the roots
have ended, `PartsStopped` the same for the later steps, and `EndsWell` that resources
are closed only on the path without a failure. `CleanExitKeepsDebts` needs all of
them: a delta offered after the last flush would come from a handler, a root or a
child of one, and each is excluded by another step.

### Subscriptions

`SubscriptionTypes` is more than types: whatever interleaves, no subscription
shows more than its total as used, no token spends more than its quota, and
neither falls below zero. It rests on `MoveTyped`, the guards of a move
of both rows, and on `PreConsumeRows` for the subscriptions that are reset on the
way. `GroupFollowsSubscriptions` is not inductive by itself: an exhausted
subscription must not pass for a stand-in, so `GroupInv` adds that one marked as dealt
with is exhausted or expired (the code looks at the mark, not at the status); and a
reset must not revive one outside the plan unnoticed, so that one exhausted while
the user is in the old group has `missed` an expiry. Actions
that keep status and group are disposed of by `GroupFrame`; purchase,
reset, expiry and exhaustion have a lemma each.

`TokenAccounted` and `UsageAccounted` are sums over the requests of what each costs
by its record, its price and its task. That cost changes in many places, and the rows with it only where the code
says so, so what must be shown is that a request's books and the
rows move by the same amount. `Books` is what this needs: what is known of a request
in each phase (`Booked`: nothing is held before pre-consumption, a request held or
settled has its record open, an open task names the price that was charged unless
its settlement was refused), and of a poller that settles a task (`Closing`: it
alone has closed it, by the compare-and-set on the status it read, and the task
still names the price). From it every action is either a move of one request by
some `d` on both rows (`Moves`), or leaves the costs alone, or wipes the usage of
some subscriptions together with the share of every request on them. A refund
that is tried again finds its record refunded and moves nothing. The premises of
the two properties are what the code does not keep (section 3): a refused
settlement of a task that is closed later, and a charge that belongs to two
periods.

### Sums

A sum over a finite set is defined by a fold, whose properties need induction over
the set; the library states it with an operator as parameter, which the installed
provers cannot instantiate. SumTheorems uses what they can: the proper subset
relation on a finite set is well-founded (`FS_StrictSubsetOrderingWellFounded`,
`WFMin`), so that a set of counterexamples, if there were any, would have a minimal
member (`MinimalSubset`). The function behind a fold is recursive over subsets and
must first be shown to exist (`SumTableExists`) and to be the same whatever set it
starts from (`SumTablesAgree`).

### Sessions and the dashboard

`SessionInv` says what each handler of UserSession knows between its calls of the
database and of Redis. `Family`: the row expects the newest secret it was told of,
or the one after it, which makes the newest secret that any response carried
acceptable; the compare-and-set of a rotation is what keeps two of them on one
successor. `CacheBounded` and `RevocationKnown`: a handler that may still write an
active snapshot has read the row before the revocation, and its deadline, taken
before that read, bounds how long the snapshot lives. `Denied`: the deny state of
a reported revocation stands until no such snapshot can be written any more; it
is claimed only while Redis has not failed, which is what `RevokedSessionDenied`
says. `StalenessBounded` is proved with failures.

`BrowserInv` of DashboardAuth is about each session as long as it is `Safe`: no answer
of it was lost, and no two tabs were refreshing it at once. Then the cookie is the
secret the server expects, or the one answer under way carries it (`CookieOK`), and a
refresh presents a secret the server accepts (`RefreshOK`), however late its answer
is and whatever expires meanwhile. `LockOK` says that under web locks whoever has a
refresh with the server has the lock, so that no session is ever crowded there, and
that without them two tabs busy with one session have been recorded. A logout
answered with success has ended its session or came too late (`RequestOK`), which
later steps keep because a session never comes back to life and a replay window
opens only with a new secret (`Onward`). No assumption is made on how fast answers,
timers and lease writes are.

### Playground

An update finds its message by position, so `PageInv` has to say which message is
last: that of the stream as long as there is one (`StreamShown`, for the page then
shows Stop, and no click adds or removes a message), and that of a plain
request as long as no click has crossed it (`OwnTexts`). The rendered list may lag
in texts and states but not in its shape (`Rendered`), which is why saving an edit
during a stream keeps the last message in place. `OneOpen` extends
`UnfinishedHasRequest` to the stored list: `sanitizeMessagesOnLoad` repairs one
message, and that is enough because there is at most one. All clicks go through
`Click` and all events of the network through `Event`, two lemmas that say what such
a change owes to the invariant.

### Only model-checked

- `ReservationsClose`, `StopCompletes`, `OperationsConfirm`, `DrainCompletes`,
  `DrainIsBounded` and `GenerationEnds`: liveness under fairness and `ENABLED` are out
  of their reach.
- `AnsweredIsNotRefunded` of `wallet_failed_settle`, which TLC refutes.

All other properties of the runs are theorems.

No module uses a `RECURSIVE` operator.

## 5. Mutants

Every property of a passing run has a mutant in `PROJECT.json`: a plausible bug,
written as an operator in front of the definition it replaces (a dropped guard
in the conditional update, a claim that is not looked at, a result not recorded
with its write, a drain step that ignores its context, a poller that does not
compare the status it read, a cache write that ignores the deny fence, a refresh
outside the lock, an event of a closed stream), under which TLC finds the property violated.

## 6. Plan

1. Extend the model, most important first:
   the order of row locks in hard deletion, flush and settlement (deadlock);
   channel, URL and token health with capacity;
   leased jobs: content backup, sensitive audit, IQ tests;
   wallet-paid tasks, orders and several plans; auth flows.
   Abstract specifications worth stating: a quota ledger that subscriptions and
   wallet share; a lease that the three job queues implement; an atomic session
   that UserSession implements and DashboardAuth uses.
2. Prove more: that UserSession implements an atomic session, and DashboardAuth's
   server is that session.
