---------------------------- MODULE WalletBilling ----------------------------
(***************************************************************************)
(* Wallet-funded billing of relay requests: the BillingSession of a        *)
(* request (service/billing_session.go), the durable pre-consume record    *)
(* that evidences the money it holds (model/wallet_preconsume_record.go),  *)
(* the conditional balance updates (model/user.go, model/token.go) and the *)
(* sweeper that returns stranded reservations                              *)
(* (service/wallet_reservation_sweeper.go).                                *)
(*                                                                         *)
(* Several gateway processes (Nodes) share one database.  A database       *)
(* transaction is one atomic step.  Every transaction may fail without     *)
(* effect, and a commit may be reported to the caller as an error ("lost   *)
(* acknowledgement"); a process may crash between any two steps and loses  *)
(* everything that is not in the database.                                 *)
(***************************************************************************)
EXTENDS Integers, FiniteSets, Functions

CONSTANTS
  Requests,            \* relay requests; a request id is used once
  Users, Tokens, Nodes,
  UserOf, TokenOf, NodeOf,   \* who sends a request, with which token, where
  Playground,          \* requests of the playground: no token, no record
  Unlimited,           \* tokens with unlimited_quota
  PreQuotas,           \* estimates the pricing step may ask to pre-consume
  Actuals,             \* metered amounts Settle may be called with
  Targets,             \* arguments of BillingSession.Reserve ({}: not called)
  InitQuota, InitRemain,
  TrustThreshold,      \* walletTrustThresholdQuota(), 0 = bypass off
  BatchNodes,          \* processes that run with BatchUpdateEnabled
  LostAcks,            \* BOOLEAN: commits may be reported as errors
  StaleAfter,          \* walletReservationStaleAfter, in ticks
  SweepBatch           \* walletReservationSweepBatch

ASSUME WalletConstants ==
  /\ IsFiniteSet(Requests) /\ IsFiniteSet(Nodes)
  /\ UserOf \in [Requests -> Users]
  /\ TokenOf \in [Requests -> Tokens]
  /\ NodeOf \in [Requests -> Nodes]
  /\ Playground \subseteq Requests /\ Unlimited \subseteq Tokens
  /\ PreQuotas \subseteq Nat /\ Actuals \subseteq Nat /\ Targets \subseteq Nat
  /\ InitQuota \in Nat /\ InitRemain \in Nat /\ TrustThreshold \in Nat
  /\ StaleAfter \in Nat /\ SweepBatch \in Nat \ {0}
  /\ BatchNodes \subseteq Nodes /\ LostAcks \in BOOLEAN

VARIABLES
  quota,      \* users.quota
  ustate,     \* users row: "active", "soft" (deleted_at set), "hard" (gone)
  remain, used,   \* tokens.remain_quota, tokens.used_quota
  tstate,     \* tokens row: "active" or "soft"
  rec,        \* wallet_pre_consume_records: status, pre_consumed, age
  pc,         \* where the request's handler is
  ses,        \* its BillingSession
  drain,      \* per process: "open", "draining" (no new billing roots), "stopped"
  pend, tpend,    \* batch updater: debts admitted and not yet flushed
  sweep,      \* per process: snapshot the sweeper is working through
  net, tnet,  \* history: net amount taken from the wallet / token for a request
  unheard,    \* history: a top-up of the request was committed that its session,
              \* or a sweep with a snapshot of the record, has not heard of
  metered,    \* history: argument of Settle, -1 before the call
  lost, discarded   \* history: batched debts lost by a crash / sent to a
                    \* deleted user's discard ledger

db   == <<quota, ustate, remain, used, tstate, rec>>
mem  == <<pc, ses, drain, pend, tpend, sweep>>
hist == <<net, tnet, unheard, metered, lost, discarded>>
vars == <<db, mem, hist>>

Terminal == {"settled", "refunded"}
Statuses == {"none", "reserved"} \cup Terminal

\* A session as NewBillingSession makes it, and no session.
NewSession(mode, q) == [mode |-> mode, pre |-> q, state |-> "open"]
NoSession == NewSession("reserving", 0)

Trusted(r) == ses[r].mode = "trusted"
Settled(r) == ses[r].state = "settled"

\* A record that is written with a terminal status.
Closed(record, status) == [status |-> status, pre |-> record.pre, age |-> 0]

\* The handler of r is on a goroutine's stack.
InFlight(r) == pc[r] \in {"checked", "running", "billed"}

-----------------------------------------------------------------------------
Init ==
  /\ quota = [u \in Users |-> InitQuota]
  /\ ustate = [u \in Users |-> "active"]
  /\ remain = [t \in Tokens |-> InitRemain]
  /\ used = [t \in Tokens |-> 0]
  /\ tstate = [t \in Tokens |-> "active"]
  /\ rec = [r \in Requests |-> [status |-> "none", pre |-> 0, age |-> 0]]
  /\ pc = [r \in Requests |-> "idle"]
  /\ ses = [r \in Requests |-> NoSession]
  /\ drain = [n \in Nodes |-> "open"]
  /\ pend = [k \in Nodes \X Users |-> 0]
  /\ tpend = [k \in Nodes \X Tokens |-> 0]
  /\ sweep = [n \in Nodes |-> {}]
  /\ net = [r \in Requests |-> 0]
  /\ tnet = [r \in Requests |-> 0]
  /\ unheard = [r \in Requests |-> FALSE]
  /\ metered = [r \in Requests |-> -1]
  /\ lost = [u \in Users |-> 0]
  /\ discarded = [u \in Users |-> 0]

-----------------------------------------------------------------------------
(* The conditional updates every transaction is built from. *)

\* adjustTokenQuotaTx: a charge needs a live token with enough left, a return
\* passes through a soft delete but needs used_quota to cover it.
TokenAdmits(r, d) ==
  LET t == TokenOf[r] IN
  \/ d = 0
  \/ d > 0 /\ tstate[t] = "active" /\ (t \in Unlimited \/ remain[t] >= d)
  \/ d < 0 /\ (t \in Unlimited \/ used[t] >= -d)

\* Mutant: the balance guard of a charge is dropped.
WalletAdmitsUnguarded(r, d) ==
  d = 0 \/ (d > 0 /\ ustate[UserOf[r]] = "active") \/ (d < 0 /\ ustate[UserOf[r]] # "hard")

\* The users half of adjustUserTokenQuotaTx: a charge needs an active user
\* with the balance, a return reaches soft-deleted users too.
WalletAdmits(r, d) ==
  LET u == UserOf[r] IN
  \/ d = 0
  \/ d > 0 /\ ustate[u] = "active" /\ quota[u] >= d
  \/ d < 0 /\ ustate[u] # "hard"

\* increaseUserQuota and decreaseUserQuota, which see active users only.
PlainWalletAdmits(r, d) ==
  LET u == UserOf[r] IN
  d = 0 \/ (ustate[u] = "active" /\ (d < 0 \/ quota[u] >= d))

MoveWallet(r, d) ==
  /\ quota' = [quota EXCEPT ![UserOf[r]] = @ - d]
  /\ net' = [net EXCEPT ![r] = @ + d]

\* Mutant: a return forgets the token.
MoveTokenChargesOnly(r, d) ==
  IF TokenOf[r] \in Unlimited \/ d < 0
  THEN UNCHANGED <<remain, used, tnet>>
  ELSE /\ remain' = [remain EXCEPT ![TokenOf[r]] = @ - d]
       /\ used' = [used EXCEPT ![TokenOf[r]] = @ + d]
       /\ tnet' = [tnet EXCEPT ![r] = @ + d]

MoveToken(r, d) ==
  IF TokenOf[r] \in Unlimited
  THEN UNCHANGED <<remain, used, tnet>>
  ELSE /\ remain' = [remain EXCEPT ![TokenOf[r]] = @ - d]
       /\ used' = [used EXCEPT ![TokenOf[r]] = @ + d]
       /\ tnet' = [tnet EXCEPT ![r] = @ + d]

KeepMoney == UNCHANGED <<quota, net, remain, used, tnet>>

\* Mutant: a closed record does not stop the caller.
ClaimsAlways(r) == TRUE

\* claimWalletPreConsumeTx: the caller owns the reservation when the record
\* is still reserved, or when the request never had one.
Claims(r) == rec[r].status \in {"none", "reserved"}

\* The guards of the two updates bind only a caller that owns the reservation.
FinalizeAdmits(r, d) == Claims(r) => WalletAdmits(r, d) /\ TokenAdmits(r, d)

\* Mutant: the status is written before the claim is decided.
FinalizeRelabels(r, d, status) ==
  /\ FinalizeAdmits(r, d)
  /\ rec' = IF rec[r].status = "none" THEN rec
            ELSE [rec EXCEPT ![r] = Closed(@, status)]
  /\ IF Claims(r) THEN MoveWallet(r, d) /\ MoveToken(r, d) ELSE KeepMoney

\* FinalizeUserTokenQuota as a transaction that commits: the record is closed
\* and the money moved together, or neither when the claim is lost.
FinalizeUserTokenQuota(r, d, status) ==
  /\ FinalizeAdmits(r, d)
  /\ IF Claims(r)
     THEN /\ rec' = IF rec[r].status = "reserved"
                    THEN [rec EXCEPT ![r] = Closed(@, status)] ELSE rec
          /\ MoveWallet(r, d) /\ MoveToken(r, d)
     ELSE KeepMoney /\ UNCHANGED rec

\* What a caller learns of a transaction that committed.
Acks == IF LostAcks THEN BOOLEAN ELSE {TRUE}

-----------------------------------------------------------------------------
(* The request's handler. *)

\* The admission test of NewBillingSession's tryWallet: it reads the balance
\* (zero for a user that is not active) and decides trust, before and outside
\* the transaction that takes the money.
ReadQuota(r) == IF ustate[UserOf[r]] = "active" THEN quota[UserOf[r]] ELSE 0

\* The token's quota is the one the auth middleware found when the request
\* arrived, perhaps in a cache: the current one, or one from the start.
Trusts(r, q) ==
  /\ TrustThreshold > 0 /\ r \notin Playground
  /\ ReadQuota(r) - q >= TrustThreshold
  /\ \/ TokenOf[r] \in Unlimited
     \/ \E seen \in {remain[TokenOf[r]], InitRemain} : seen > TrustThreshold

TryWallet(r, q, force) ==
  /\ pc[r] = "idle"
  /\ IF ReadQuota(r) <= 0 \/ ReadQuota(r) < q
     THEN pc' = [pc EXCEPT ![r] = "ended"] /\ UNCHANGED ses
     ELSE IF ~force /\ Trusts(r, q)
     THEN /\ pc' = [pc EXCEPT ![r] = "running"]
          /\ ses' = [ses EXCEPT ![r] = NewSession("trusted", 0)]
     ELSE /\ pc' = [pc EXCEPT ![r] = IF q = 0 THEN "running" ELSE "checked"]
          /\ ses' = [ses EXCEPT ![r] = NewSession("reserving", q)]
  /\ UNCHANGED <<db, hist, drain, pend, tpend, sweep>>

\* Mutant: the money is taken in a transaction of its own, before the record.
PreConsumeUnrecorded(r) ==
  /\ pc[r] = "checked"
  /\ WalletAdmits(r, ses[r].pre) /\ TokenAdmits(r, ses[r].pre)
  /\ MoveWallet(r, ses[r].pre) /\ MoveToken(r, ses[r].pre)
  /\ pc' = [pc EXCEPT ![r] = "running"]
  /\ UNCHANGED <<ses, rec, ustate, tstate, drain, pend, tpend, sweep,
                 unheard, metered, lost, discarded>>

\* preConsume: ReserveUserTokenQuotaWithRecord writes the record and takes
\* the money in one transaction; the playground takes the money alone.
\* Without an acknowledgement the request is refused and no session is kept.
PreConsume(r) ==
  LET q == ses[r].pre IN
  /\ pc[r] = "checked"
  /\ \/ /\ r \notin Playground
        /\ WalletAdmits(r, q) /\ TokenAdmits(r, q)
        /\ rec' = [rec EXCEPT ![r] = [status |-> "reserved", pre |-> q, age |-> 0]]
        /\ MoveWallet(r, q) /\ MoveToken(r, q)
     \/ /\ r \in Playground
        /\ PlainWalletAdmits(r, q)
        /\ MoveWallet(r, q)
        /\ UNCHANGED <<rec, remain, used, tnet>>
  /\ \E ack \in Acks :
       /\ pc' = [pc EXCEPT ![r] = IF ack THEN "running" ELSE "ended"]
       /\ ses' = IF ack THEN ses ELSE [ses EXCEPT ![r] = NoSession]
  /\ UNCHANGED <<ustate, tstate, drain, pend, tpend, sweep, unheard, metered, lost, discarded>>

\* The transaction is refused or fails: the request ends with an error.
PreConsumeFails(r) ==
  /\ pc[r] = "checked"
  /\ pc' = [pc EXCEPT ![r] = "ended"]
  /\ ses' = [ses EXCEPT ![r] = NoSession]
  /\ UNCHANGED <<db, hist, drain, pend, tpend, sweep>>

\* Mutant: a top-up charges wallet and token but leaves the record as it was.
ReserveUnrecorded(r, target) ==
  LET d == target - ses[r].pre IN
  /\ pc[r] = "running" /\ ~Trusted(r) /\ d > 0
  /\ WalletAdmits(r, d) /\ TokenAdmits(r, d)
  /\ MoveWallet(r, d) /\ MoveToken(r, d)
  /\ ses' = [ses EXCEPT ![r] = NewSession("reserving", target)]
  /\ UNCHANGED <<ustate, tstate, rec, pc, drain, pend, tpend, sweep, unheard, metered, lost, discarded>>

\* A sweep has a snapshot of r's record in hand.
InSweep(r) == \E n \in Nodes : \E s \in sweep[n] : s.req = r

\* BillingSession.Reserve: top the reservation up to a target before sending.
\* Only tests call it at this commit.
Reserve(r, target) ==
  LET d == target - ses[r].pre IN
  /\ pc[r] = "running" /\ ~Trusted(r) /\ d > 0
  /\ \/ /\ r \notin Playground
        /\ rec[r].status = "reserved"
        /\ WalletAdmits(r, d) /\ TokenAdmits(r, d)
        /\ rec' = [rec EXCEPT ![r] = [status |-> "reserved", pre |-> @.pre + d, age |-> 0]]
        /\ MoveWallet(r, d) /\ MoveToken(r, d)
     \/ /\ r \in Playground
        /\ PlainWalletAdmits(r, d)
        /\ MoveWallet(r, d)
        /\ UNCHANGED <<rec, remain, used, tnet>>
  /\ \E ack \in Acks :
       /\ ses' = IF ack THEN [ses EXCEPT ![r] = NewSession("reserving", target)] ELSE ses
       /\ unheard' = [unheard EXCEPT ![r] = @ \/ ~ack \/ InSweep(r)]
  /\ UNCHANGED <<ustate, tstate, pc, drain, pend, tpend, sweep, metered, lost, discarded>>

\* Mutant: the session is marked settled before the outcome is known.
SettleReturnsEagerly(r, a, state) ==
  /\ pc' = [pc EXCEPT ![r] = "billed"]
  /\ ses' = [ses EXCEPT ![r] = [mode |-> @.mode, pre |-> @.pre, state |-> "settled"]]
  /\ metered' = [metered EXCEPT ![r] = a]

\* Bookkeeping of a Settle call, whatever came of it.
SettleReturns(r, a, state) ==
  /\ pc' = [pc EXCEPT ![r] = "billed"]
  /\ ses' = [ses EXCEPT ![r] =
       [mode |-> @.mode, pre |-> @.pre, state |-> state]]
  /\ metered' = [metered EXCEPT ![r] = a]

\* Settle of a reserved session: pay the difference and close the record in
\* one transaction; the playground adjusts the balance alone.
SettleReserved(r, a) ==
  LET d == a - ses[r].pre IN
  /\ pc[r] = "running" /\ ~Trusted(r)
  /\ \/ r \notin Playground /\ FinalizeUserTokenQuota(r, d, "settled")
     \/ /\ r \in Playground
        /\ PlainWalletAdmits(r, d)
        /\ MoveWallet(r, d)
        /\ UNCHANGED <<rec, remain, used, tnet>>
  /\ \E ack \in Acks : SettleReturns(r, a, IF ack THEN "settled" ELSE "open")
  /\ UNCHANGED <<ustate, tstate, drain, pend, tpend, sweep, unheard, lost, discarded>>

\* Settle of a trusted session through the batch updater: the debt is
\* admitted to memory while the updater runs.  The token's share is admitted
\* by a second call whose failure is only logged.
SettleBatched(r, a) ==
  LET n == NodeOf[r] IN
  /\ pc[r] = "running" /\ Trusted(r) /\ a > 0 /\ n \in BatchNodes
  /\ drain[n] # "stopped"
  /\ pend' = [pend EXCEPT ![<<n, UserOf[r]>>] = @ + a]
  /\ net' = [net EXCEPT ![r] = @ + a]
  /\ \E ok \in BOOLEAN :
       /\ ok => TokenOf[r] \notin Unlimited
       /\ tpend' = IF ok THEN [tpend EXCEPT ![<<n, TokenOf[r]>>] = @ + a] ELSE tpend
       /\ tnet' = IF ok THEN [tnet EXCEPT ![r] = @ + a] ELSE tnet
  /\ SettleReturns(r, a, "settled")
  /\ UNCHANGED <<db, drain, sweep, unheard, lost, discarded>>

\* The same without the batch updater: TrustedSettleUserQuota books the debt
\* at once, with no balance guard and through a soft delete.
SettleDirect(r, a) ==
  /\ pc[r] = "running" /\ Trusted(r) /\ a > 0 /\ NodeOf[r] \notin BatchNodes
  /\ ustate[UserOf[r]] # "hard"
  /\ MoveWallet(r, a)
  /\ \E ack \in Acks, ok \in BOOLEAN :
       /\ ok => ack /\ TokenAdmits(r, a)
       /\ IF ok THEN MoveToken(r, a) ELSE UNCHANGED <<remain, used, tnet>>
       /\ SettleReturns(r, a, IF ack THEN "settled" ELSE "open")
  /\ UNCHANGED <<ustate, tstate, rec, drain, pend, tpend, sweep, unheard, lost, discarded>>

\* Settle returns an error (refused, or the database is down), or a trusted
\* session is settled at zero.  The relay only logs an error of Settle.
SettleNothing(r, a) ==
  /\ pc[r] = "running"
  /\ SettleReturns(r, a, IF Trusted(r) /\ a = 0 THEN "settled" ELSE "open")
  /\ UNCHANGED <<db, drain, pend, tpend, sweep, net, tnet, unheard, lost, discarded>>

\* needsRefundLocked together with the guard of Refund.
NeedsRefund(r) == ~Settled(r) /\ ses[r].pre > 0

\* Refund, called last by a handler that fails: hand the refund to a job of
\* the billing coordinator, unless there is nothing to return or the
\* coordinator no longer admits roots (the record is left to the sweeper).
Refund(r) ==
  /\ pc[r] \in {"running", "billed"}
  /\ pc' = [pc EXCEPT ![r] =
       IF NeedsRefund(r) /\ drain[NodeOf[r]] = "open" THEN "refunding" ELSE "ended"]
  /\ UNCHANGED <<db, hist, ses, drain, pend, tpend, sweep>>

\* The job of Refund commits.
RefundJob(r) ==
  /\ pc[r] = "refunding"
  /\ \/ r \notin Playground /\ FinalizeUserTokenQuota(r, -ses[r].pre, "refunded")
     \/ /\ r \in Playground
        /\ PlainWalletAdmits(r, -ses[r].pre)
        /\ MoveWallet(r, -ses[r].pre)
        /\ UNCHANGED <<rec, remain, used, tnet>>
  /\ pc' = [pc EXCEPT ![r] = "ended"]
  /\ UNCHANGED <<ustate, tstate, ses, drain, pend, tpend, sweep, unheard, metered, lost, discarded>>

\* The job of Refund fails; nobody retries it in the process.
RefundJobFails(r) ==
  /\ pc[r] = "refunding"
  /\ pc' = [pc EXCEPT ![r] = "ended"]
  /\ UNCHANGED <<db, hist, ses, drain, pend, tpend, sweep>>

\* The handler of a request that was answered returns.
Finish(r) ==
  /\ pc[r] = "billed"
  /\ pc' = [pc EXCEPT ![r] = "answered"]
  /\ UNCHANGED <<db, hist, ses, drain, pend, tpend, sweep>>

-----------------------------------------------------------------------------
(* The sweeper, started in every process. *)

\* FindStaleReservedWalletPreConsumes: updated_at < now - staleAfter.
StaleRecords == {r \in Requests : rec[r].status = "reserved" /\ rec[r].age > StaleAfter}

\* A batch: the oldest stale records, at most SweepBatch of them.
IsBatch(S) ==
  /\ S \subseteq StaleRecords
  /\ Cardinality(S) <= SweepBatch
  /\ S = StaleRecords \/ Cardinality(S) = SweepBatch
  /\ \A x \in S, y \in StaleRecords \ S : rec[x].age >= rec[y].age

SweepFind(n) ==
  /\ sweep[n] = {} /\ StaleRecords # {}
  /\ \E S \in SUBSET Requests :
       /\ IsBatch(S)
       /\ sweep' = [sweep EXCEPT ![n] = {[req |-> r, pre |-> rec[r].pre] : r \in S}]
  /\ UNCHANGED <<db, hist, pc, ses, drain, pend, tpend>>

\* RefundStaleWalletPreConsume commits: it claims the record by its status
\* and returns the amount of the snapshot, or finds it closed and does nothing.
SweepRefund(n, s) ==
  LET r == s.req IN
  /\ s \in sweep[n]
  /\ IF rec[r].status = "reserved"
     THEN /\ WalletAdmits(r, -s.pre) /\ TokenAdmits(r, -s.pre)
          /\ rec' = [rec EXCEPT ![r] = Closed(@, "refunded")]
          /\ MoveWallet(r, -s.pre) /\ MoveToken(r, -s.pre)
     ELSE KeepMoney /\ UNCHANGED rec
  /\ sweep' = [sweep EXCEPT ![n] = @ \ {s}]
  /\ UNCHANGED <<ustate, tstate, pc, ses, drain, pend, tpend, unheard, metered,
                 lost, discarded>>

\* The transaction fails or rolls back; the sweeper logs it and goes on.
SweepSkip(n, s) ==
  /\ s \in sweep[n]
  /\ sweep' = [sweep EXCEPT ![n] = @ \ {s}]
  /\ UNCHANGED <<db, hist, pc, ses, drain, pend, tpend>>

-----------------------------------------------------------------------------
(* The batch updater, seen from billing (its own module is BatchUpdater). *)

\* Mutant: the debt of a deleted user is dropped without a trace.
FlushUserActiveOnly(n, u) ==
  /\ pend[<<n, u>>] > 0
  /\ quota' = IF ustate[u] = "active" THEN [quota EXCEPT ![u] = @ - pend[<<n, u>>]] ELSE quota
  /\ pend' = [pend EXCEPT ![<<n, u>>] = 0]
  /\ UNCHANGED <<ustate, remain, used, tstate, rec, pc, ses, drain, tpend, sweep, hist>>

\* applyDefaultBatchUpdates for a user: a scoped UPDATE; a deleted user's
\* debt goes to the delete ledger instead.
FlushUser(n, u) ==
  /\ pend[<<n, u>>] > 0
  /\ IF ustate[u] = "active"
     THEN quota' = [quota EXCEPT ![u] = @ - pend[<<n, u>>]] /\ UNCHANGED discarded
     ELSE discarded' = [discarded EXCEPT ![u] = @ + pend[<<n, u>>]] /\ UNCHANGED quota
  /\ pend' = [pend EXCEPT ![<<n, u>>] = 0]
  /\ UNCHANGED <<ustate, remain, used, tstate, rec, pc, ses, drain, tpend, sweep,
                 net, tnet, unheard, metered, lost>>

\* The same for a token.
FlushToken(n, t) ==
  /\ tpend[<<n, t>>] > 0
  /\ IF tstate[t] = "active"
     THEN /\ remain' = [remain EXCEPT ![t] = @ - tpend[<<n, t>>]]
          /\ used' = [used EXCEPT ![t] = @ + tpend[<<n, t>>]]
     ELSE UNCHANGED <<remain, used>>
  /\ tpend' = [tpend EXCEPT ![<<n, t>>] = 0]
  /\ UNCHANGED <<quota, ustate, tstate, rec, pc, ses, drain, pend, sweep, hist>>

-----------------------------------------------------------------------------
(* The environment of a session. *)

\* Shutdown closes root admission, then stops the updater after a last flush.
BeginDrain(n) ==
  /\ drain[n] = "open"
  /\ drain' = [drain EXCEPT ![n] = "draining"]
  /\ UNCHANGED <<db, hist, pc, ses, pend, tpend, sweep>>

StopUpdater(n) ==
  /\ n \in BatchNodes /\ drain[n] = "draining"
  /\ \A u \in Users : pend[<<n, u>>] = 0
  /\ \A t \in Tokens : tpend[<<n, t>>] = 0
  /\ drain' = [drain EXCEPT ![n] = "stopped"]
  /\ UNCHANGED <<db, hist, pc, ses, pend, tpend, sweep>>

\* r's handler or refund job dies with process n.
Killed(r, n) == NodeOf[r] = n /\ (InFlight(r) \/ pc[r] = "refunding")

\* The process dies and is started again: sessions, refund jobs, batched
\* debts and the sweeper's snapshot are gone, the database is not.
Crash(n) ==
  /\ pc' = [r \in Requests |-> IF Killed(r, n) THEN "ended" ELSE pc[r]]
  /\ ses' = [r \in Requests |-> IF Killed(r, n) THEN NoSession ELSE ses[r]]
  /\ lost' = [u \in Users |-> lost[u] + pend[<<n, u>>]]
  /\ pend' = [k \in Nodes \X Users |-> IF k[1] = n THEN 0 ELSE pend[k]]
  /\ tpend' = [k \in Nodes \X Tokens |-> IF k[1] = n THEN 0 ELSE tpend[k]]
  /\ sweep' = [sweep EXCEPT ![n] = {}]
  /\ drain' = [drain EXCEPT ![n] = "open"]
  /\ UNCHANGED <<db, net, tnet, unheard, metered, discarded>>

\* deleteUserWithLedger, soft.
SoftDeleteUser(u) ==
  /\ ustate[u] = "active"
  /\ ustate' = [ustate EXCEPT ![u] = "soft"]
  /\ UNCHANGED <<quota, remain, used, tstate, rec, mem, hist>>

\* Mutant: the user's reservations are left open.
HardDeleteLeavesReservations(u) ==
  /\ ustate[u] # "hard"
  /\ ustate' = [ustate EXCEPT ![u] = "hard"]
  /\ tstate' = [t \in Tokens |->
       IF \E r \in Requests : TokenOf[r] = t /\ UserOf[r] = u THEN "soft" ELSE tstate[t]]
  /\ UNCHANGED <<quota, remain, used, rec, mem, hist>>

\* deleteUserWithLedger, hard: settleUserPendingWorkloads closes the user's
\* reservations without a refund, the tokens and then the row are deleted.
HardDeleteUser(u) ==
  /\ ustate[u] # "hard"
  /\ ustate' = [ustate EXCEPT ![u] = "hard"]
  /\ rec' = [r \in Requests |->
       IF UserOf[r] = u /\ rec[r].status = "reserved"
       THEN Closed(rec[r], "refunded") ELSE rec[r]]
  /\ tstate' = [t \in Tokens |->
       IF \E r \in Requests : TokenOf[r] = t /\ UserOf[r] = u THEN "soft" ELSE tstate[t]]
  /\ UNCHANGED <<quota, remain, used, mem, hist>>

\* deleteTokenWithLedger.
DeleteToken(t) ==
  /\ tstate[t] = "active"
  /\ tstate' = [tstate EXCEPT ![t] = "soft"]
  /\ UNCHANGED <<quota, ustate, remain, used, rec, mem, hist>>

\* Time passes.  Ages stop counting one tick past StaleAfter (a bound of the
\* model: staleness is all that is asked of them).  Nothing ends a handler
\* that streams on: RELAY_TIMEOUT and the stream's limits are 0 by default.
Tick ==
  /\ rec' = [r \in Requests |->
       IF rec[r].status = "reserved" /\ rec[r].age <= StaleAfter
       THEN [status |-> "reserved", pre |-> rec[r].pre, age |-> rec[r].age + 1] ELSE rec[r]]
  /\ rec' # rec
  /\ UNCHANGED <<quota, ustate, remain, used, tstate, mem, hist>>

-----------------------------------------------------------------------------
SettleCall(r) == \E a \in Actuals :
  SettleReserved(r, a) \/ SettleBatched(r, a) \/ SettleDirect(r, a) \/ SettleNothing(r, a)

Handler(r) ==
  \/ \E q \in PreQuotas, force \in BOOLEAN : TryWallet(r, q, force)
  \/ PreConsume(r) \/ PreConsumeFails(r)
  \/ \E target \in Targets : Reserve(r, target)
  \/ SettleCall(r)
  \/ Refund(r) \/ Finish(r)

Sweeper(n) == SweepFind(n) \/ \E s \in sweep[n] : SweepRefund(n, s) \/ SweepSkip(n, s)

Environment ==
  \/ \E n \in Nodes : BeginDrain(n) \/ StopUpdater(n) \/ Crash(n)
  \/ \E u \in Users : SoftDeleteUser(u) \/ HardDeleteUser(u)
  \/ \E t \in Tokens : DeleteToken(t)

Next ==
  \/ \E r \in Requests : Handler(r) \/ RefundJob(r) \/ RefundJobFails(r)
  \/ \E n \in Nodes :
       \/ Sweeper(n)
       \/ \E u \in Users : FlushUser(n, u)
       \/ \E t \in Tokens : FlushToken(n, t)
  \/ Environment
  \/ Tick

Spec == Init /\ [][Next]_vars

-----------------------------------------------------------------------------
(* Fairness.  Time passes, handlers run on, the updater's ticker fires; the  *)
(* database answers and processes live long enough, again and again, for a  *)
(* sweep to find a given record and for its refund to commit: that is what  *)
(* "after the database recovers" means in the sweeper's comment.            *)
SweepRefundOf(r) == \E n \in Nodes : \E s \in sweep[n] : s.req = r /\ SweepRefund(n, s)

FairSpec ==
  /\ Spec
  /\ WF_vars(Tick)
  /\ \A r \in Requests : WF_vars(Handler(r)) /\ SF_vars(SweepRefundOf(r))
  /\ \A n \in Nodes : SF_vars(SweepFind(n))

-----------------------------------------------------------------------------
PcStates == {"idle", "checked", "running", "billed", "answered", "refunding", "ended"}
Sessions == [mode : {"reserving", "trusted"}, pre : Nat, state : {"open", "settled"}]
Records  == [status : Statuses, pre : Nat, age : Nat]

MoneyType   == /\ quota \in [Users -> Int] /\ net \in [Requests -> Int]
               /\ remain \in [Tokens -> Int] /\ used \in [Tokens -> Int]
               /\ tnet \in [Requests -> Int]
RowType     == /\ ustate \in [Users -> {"active", "soft", "hard"}]
               /\ tstate \in [Tokens -> {"active", "soft"}]
RecordType  == rec \in [Requests -> Records]
SessionType == ses \in [Requests -> Sessions]
HandlerType == pc \in [Requests -> PcStates]
ProcessType == drain \in [Nodes -> {"open", "draining", "stopped"}]
BatchType   == pend \in [Nodes \X Users -> Nat] /\ tpend \in [Nodes \X Tokens -> Nat]
SweepType   == sweep \in [Nodes -> SUBSET [req : Requests, pre : Nat]]
HistoryType == /\ metered \in [Requests -> Int] /\ unheard \in [Requests -> BOOLEAN]
               /\ lost \in [Users -> Nat] /\ discarded \in [Users -> Nat]

\* The type of every variable: in particular a record has one of its four
\* statuses and holds a natural amount, and no batched debt is negative.
TypeOK ==
  /\ MoneyType /\ RowType /\ RecordType /\ SessionType /\ HandlerType
  /\ ProcessType /\ BatchType /\ SweepType /\ HistoryType

ChargeMatches(r) ==
  /\ rec[r].status = "reserved" => net[r] = rec[r].pre
  /\ rec[r].status = "settled" => net[r] = metered[r] \/ unheard[r]
  /\ rec[r].status = "refunded" => net[r] = 0 \/ ustate[UserOf[r]] = "hard" \/ unheard[r]

\* What the wallet has given for a request is what its record says: the
\* pre-consumed amount while reserved, the metered amount once settled,
\* nothing once refunded (a hard-deleted user's money went with the row).
\* This is what the claim-before-money order and the single transaction of
\* FinalizeUserTokenQuota and RefundStaleWalletPreConsume are for: no double
\* refund, no refund of a settled request, whoever races and whoever crashes.
\* The exception is a top-up that went unheard: the session, or the sweep, then
\* closes the record with an amount that is out of date.
ChargeMatchesRecord == \A r \in Requests : ChargeMatches(r)

TokenFollows(r) == rec[r].status # "none" =>
  tnet[r] = IF TokenOf[r] \in Unlimited THEN 0 ELSE net[r]

\* A limited token has given exactly what the wallet has given for every
\* request that has a record, and an unlimited token nothing: the user row
\* and the token row never commit one without the other.
TokenFollowsWallet == \A r \in Requests : TokenFollows(r)

\* What the wallet should be missing on account of r.
Held(r) ==
  CASE rec[r].status = "none"     -> net[r]
    [] rec[r].status = "reserved" -> rec[r].pre
    [] rec[r].status = "settled"  -> IF unheard[r] THEN net[r] ELSE metered[r]
    [] rec[r].status = "refunded" -> IF unheard[r] THEN net[r] ELSE 0

\* Every unit of a user's balance is accounted for: what is missing from the
\* initial balance is held by open reservations, charged by settled requests,
\* or a trusted debt that has not reached the row yet.
BalanceAccounted ==
  \A u \in Users : ustate[u] # "hard" =>
    quota[u] + SumFunctionOnSet([r \in Requests |-> Held(r)], {r \in Requests : UserOf[r] = u})
      = InitQuota + SumFunctionOnSet([n \in Nodes |-> pend[<<n, u>>]], Nodes)
          + lost[u] + discarded[u]

\* The account of a request as its record and the money moved for it show it.
AccountOf(r) ==
  [st  |-> CASE rec[r].status = "none"     -> "none"
             [] rec[r].status = "reserved" -> "held"
             [] rec[r].status = "settled"  -> "charged"
             [] rec[r].status = "refunded" -> IF net[r] = 0 THEN "returned" ELSE "voided",
   amt |-> IF rec[r].status = "none" THEN 0 ELSE net[r]]

Account == INSTANCE RequestAccount WITH acct <- [r \in Requests |-> AccountOf(r)]

\* Sessions, refund jobs, sweepers, user deletions, crashes and lost
\* acknowledgements together implement the one-shot life of a hold: a record
\* closes once, in one of three ways, and its money with it (request id unique
\* key, CAS on status = reserved in every writer).  Without top-ups: Targets = {}.
ImplementsAccount == Account!Spec

\* No reservation is left to a user whose row is gone: the sweeper could
\* never close it and it would stay at the head of its queue
\* (settleUserPendingWorkloads).
NoOrphanReservation ==
  \A r \in Requests : rec[r].status = "reserved" => ustate[UserOf[r]] # "hard"

\* Without the trust bypass no interleaving of reads, reservations, top-ups,
\* settlements and returns overdraws a wallet or a limited token, although
\* the admission test of NewBillingSession reads the balance too early.
NoOverdraft ==
  TrustThreshold = 0 =>
    /\ \A u \in Users : quota[u] >= 0
    /\ \A t \in Tokens : remain[t] >= 0

\* Every reservation is closed in the end: by the handler, by its refund job,
\* by the sweeper after a crash, a drain or a failed transaction, or by the
\* deletion of the user.
ReservationsClose ==
  \A r \in Requests : rec[r].status = "reserved" ~> rec[r].status \in Terminal

\* The relay answers a request, meters it and calls Settle: whatever becomes
\* of that call, the request is not given back in full later
\* (docs/FEATURES.md:377: after the request the estimate is corrected to the
\* actual usage).
AnsweredIsNotRefunded ==
  \A r \in Requests : pc[r] = "answered" /\ metered[r] > 0 /\ rec[r].status = "refunded" =>
    ustate[UserOf[r]] = "hard"

\* Money taken from users.quota for a request is evidenced by its record,
\* except a charge of the metered amount itself (docs/FEATURES.md:380: that
\* money was taken is always on record in the database).  The playground has
\* no records.
ChargeHasRecord ==
  \A r \in Requests \ Playground : rec[r].status = "none" => net[r] \in {0, metered[r]}

\* When Settle has succeeded, the request has paid what was metered, unless
\* the sweeper (or the user's deletion) had closed its record before, or a
\* top-up went unheard.
SettledPaysMetered ==
  \A r \in Requests : Settled(r) =>
    net[r] = metered[r] \/ rec[r].status = "refunded" \/ unheard[r]

=============================================================================
