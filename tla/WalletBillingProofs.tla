------------------------- MODULE WalletBillingProofs -------------------------
(***************************************************************************)
(* TLAPS proofs about WalletBilling, for any number of requests, users,    *)
(* tokens and processes and any amounts.                                   *)
(*                                                                         *)
(* ChargeMatchesRecord is not inductive: a refund job returns what its     *)
(* session remembers and the sweeper what its snapshot remembers, so both  *)
(* memories must agree with the record as long as the record is open.      *)
(* That is what SessionOK and SweepInv add.                                *)
(***************************************************************************)
EXTENDS WalletBilling, SumTheorems, TLAPS

\* What the session of r knows of r's record.
SessionOK(r) ==
  /\ pc[r] \in {"idle", "checked"} =>
       /\ rec[r].status = "none" /\ net[r] = 0 /\ tnet[r] = 0 /\ metered[r] = -1
       /\ ~Settled(r)
  /\ pc[r] = "running" => metered[r] = -1 /\ ~Settled(r)
  /\ Trusted(r) => rec[r].status = "none" /\ ses[r].pre = 0
  /\ r \in Playground => rec[r].status = "none"
  /\ pc[r] = "checked" => ses[r].pre \in PreQuotas /\ ses[r].pre > 0 /\ ~Trusted(r)
  /\ rec[r].status = "reserved" =>
       /\ rec[r].pre > 0
       /\ pc[r] \in {"running", "billed", "refunding"} => ses[r].pre = rec[r].pre \/ unheard[r]
       /\ ustate[UserOf[r]] # "hard"
  /\ rec[r].status = "settled" => pc[r] \notin {"idle", "checked", "running"}
  /\ rec[r].status = "none" /\ r \notin Playground =>
       /\ pc[r] = "running" => ses[r].pre = 0 /\ net[r] = 0
       /\ pc[r] # "checked" => ses[r].pre = 0
       /\ pc[r] # "refunding"
       /\ net[r] \in {0, metered[r]}

ReqOK(r) == SessionOK(r) /\ ChargeMatches(r) /\ TokenFollows(r)

\* What a sweep's snapshot knows of the records in it.
SweepInv ==
  \A n \in Nodes : \A s \in sweep[n] :
    /\ rec[s.req].status # "none"
    /\ rec[s.req].status = "reserved" => s.pre = rec[s.req].pre \/ unheard[s.req]

\* The inductive invariant, relative to TypeOK.
IInv == SweepInv /\ \A r \in Requests : ReqOK(r)

-----------------------------------------------------------------------------
(* The helpers every transaction is built from keep the types. *)

\* MoveWallet changes one balance and one history entry by an integer.
LEMMA MoveWalletType ==
  ASSUME MoneyType, NEW r \in Requests, NEW d \in Int, MoveWallet(r, d)
  PROVE  quota' \in [Users -> Int] /\ net' \in [Requests -> Int]
<1>1. UserOf[r] \in Users
  BY WalletConstants
<1>. QED BY <1>1 DEF MoneyType, MoveWallet

\* MoveToken does the same for the token, or nothing.
LEMMA MoveTokenType ==
  ASSUME MoneyType, NEW r \in Requests, NEW d \in Int, MoveToken(r, d)
  PROVE  /\ remain' \in [Tokens -> Int] /\ used' \in [Tokens -> Int]
         /\ tnet' \in [Requests -> Int]
<1>1. CASE TokenOf[r] \in Unlimited
  BY <1>1 DEF MoneyType, MoveToken
<1>2. CASE TokenOf[r] \notin Unlimited
  <2>1. TokenOf[r] \in Tokens
    BY WalletConstants
  <2>. QED BY <1>2, <2>1 DEF MoneyType, MoveToken
<1>. QED BY <1>1, <1>2

\* Moving both keeps MoneyType.
LEMMA MoveType ==
  ASSUME MoneyType, NEW r \in Requests, NEW d \in Int, MoveWallet(r, d),
         MoveToken(r, d) \/ UNCHANGED <<remain, used, tnet>>
  PROVE  MoneyType'
BY MoveWalletType, MoveTokenType DEF MoneyType

\* Closing a record keeps RecordType.
LEMMA CloseType ==
  ASSUME RecordType, NEW r \in Requests, NEW status \in Terminal,
         rec' = [rec EXCEPT ![r] = Closed(@, status)]
  PROVE  RecordType'
BY DEF RecordType, Records, Closed, Statuses, Terminal

\* FinalizeUserTokenQuota keeps both.
LEMMA FinalizeType ==
  ASSUME MoneyType, RecordType, NEW r \in Requests, NEW d \in Int, NEW status \in Terminal,
         FinalizeUserTokenQuota(r, d, status)
  PROVE  MoneyType' /\ RecordType'
<1>1. CASE Claims(r)
  <2>1. MoneyType'
    BY <1>1, MoveType DEF FinalizeUserTokenQuota
  <2>2. RecordType'
    BY <1>1, CloseType DEF FinalizeUserTokenQuota, RecordType
  <2>. QED BY <2>1, <2>2
<1>2. CASE ~Claims(r)
  BY <1>2 DEF FinalizeUserTokenQuota, KeepMoney, MoneyType, RecordType
<1>. QED BY <1>1, <1>2

\* A Settle call that returned leaves typed handlers, sessions and history.
LEMMA SettleReturnsType ==
  ASSUME HandlerType, SessionType, HistoryType, NEW r \in Requests, NEW a \in Int,
         NEW state \in {"open", "settled"}, SettleReturns(r, a, state), UNCHANGED <<unheard, lost, discarded>>
  PROVE  HandlerType' /\ SessionType' /\ HistoryType'
<1>1. HandlerType'
  BY DEF HandlerType, PcStates, SettleReturns
<1>2. SessionType'
  BY DEF SessionType, Sessions, SettleReturns
<1>3. HistoryType'
  BY DEF HistoryType, SettleReturns
<1>. QED BY <1>1, <1>2, <1>3

\* Every variable keeps its type, whatever the processes do.
THEOREM WalletTypes == Spec => []TypeOK
<1>. USE WalletConstants DEF TypeOK
<1>1. Init => TypeOK
  <2>. SUFFICES ASSUME Init PROVE TypeOK
    OBVIOUS
  <2>. USE DEF Init
  <2>1. MoneyType /\ RowType
    BY DEF MoneyType, RowType
  <2>2. RecordType /\ SessionType
    BY DEF RecordType, SessionType, Records, Sessions, Statuses, NoSession, NewSession
  <2>3. HandlerType /\ ProcessType /\ BatchType
    BY DEF HandlerType, PcStates, ProcessType, BatchType
  <2>4. SweepType /\ HistoryType
    BY DEF SweepType, HistoryType
  <2>. QED BY <2>1, <2>2, <2>3, <2>4
<1>2. TypeOK /\ [Next]_vars => TypeOK'
  <2>. SUFFICES ASSUME TypeOK, [Next]_vars PROVE TypeOK'
    OBVIOUS
  <2>. USE DEF db, mem, hist
  <2>1. ASSUME NEW r \in Requests, NEW q \in PreQuotas, NEW f \in BOOLEAN, TryWallet(r, q, f)
        PROVE TypeOK'
    <3>1. HandlerType'
      BY <2>1 DEF TryWallet, HandlerType, PcStates
    <3>2. SessionType'
      <4>1. q \in Nat
        OBVIOUS
      <4>2. UNCHANGED ses \/ \E x \in Sessions : ses' = [ses EXCEPT ![r] = x]
        BY <2>1, <4>1 DEF TryWallet, Sessions, NewSession
      <4>. QED BY <4>2 DEF SessionType
    <3>3. MoneyType' /\ RowType' /\ RecordType' /\ ProcessType' /\ BatchType' /\ SweepType' /\ HistoryType'
      BY <2>1 DEF TryWallet, MoneyType, RowType, RecordType, ProcessType, BatchType, SweepType, HistoryType
    <3>. QED BY <3>1, <3>2, <3>3
  <2>2. ASSUME NEW r \in Requests, PreConsume(r) PROVE TypeOK'
    <3>1. ses[r].pre \in Nat
      BY DEF SessionType, Sessions
    <3>2. MoneyType'
      BY <2>2, <3>1, MoveType DEF PreConsume
    <3>3. RecordType'
      BY <2>2, <3>1 DEF PreConsume, RecordType, Records, Statuses
    <3>4. HandlerType' /\ SessionType'
      BY <2>2 DEF PreConsume, HandlerType, PcStates, SessionType, Sessions, NoSession, NewSession
    <3>5. RowType' /\ ProcessType' /\ BatchType' /\ SweepType' /\ HistoryType'
      BY <2>2 DEF PreConsume, RowType, ProcessType, BatchType, SweepType, HistoryType
    <3>. QED BY <3>2, <3>3, <3>4, <3>5
  <2>3. ASSUME NEW r \in Requests, PreConsumeFails(r) PROVE TypeOK'
    <3>1. HandlerType' /\ SessionType'
      BY <2>3 DEF PreConsumeFails, HandlerType, PcStates, SessionType, Sessions, NoSession, NewSession
    <3>2. MoneyType' /\ RowType' /\ RecordType' /\ ProcessType' /\ BatchType' /\ SweepType' /\ HistoryType'
      BY <2>3 DEF PreConsumeFails, MoneyType, RowType, RecordType, ProcessType, BatchType, SweepType, HistoryType
    <3>. QED BY <3>1, <3>2
  <2>4. ASSUME NEW r \in Requests, NEW target \in Targets, Reserve(r, target) PROVE TypeOK'
    <3>1. ses[r].pre \in Nat /\ rec[r].pre \in Nat /\ target \in Nat
      BY DEF SessionType, Sessions, RecordType, Records
    <3>2. target - ses[r].pre \in Nat
      BY <2>4, <3>1 DEF Reserve
    <3>3. MoneyType'
      BY <2>4, <3>2, MoveType DEF Reserve
    <3>4. RecordType'
      BY <2>4, <3>1, <3>2 DEF Reserve, RecordType, Records, Statuses
    <3>5. SessionType'
      BY <2>4, <3>1 DEF Reserve, SessionType, Sessions, NewSession
    <3>6. RowType' /\ HandlerType' /\ ProcessType' /\ BatchType' /\ SweepType' /\ HistoryType'
      BY <2>4 DEF Reserve, RowType, HandlerType, ProcessType, BatchType, SweepType, HistoryType
    <3>. QED BY <3>3, <3>4, <3>5, <3>6
  <2>5. ASSUME NEW r \in Requests, NEW a \in Actuals, SettleReserved(r, a) PROVE TypeOK'
    <3>1. a \in Int /\ a - ses[r].pre \in Int
      BY DEF SessionType, Sessions
    <3>2. MoneyType' /\ RecordType'
      <4>1. CASE r \notin Playground
        BY <2>5, <3>1, <4>1, FinalizeType DEF SettleReserved, Terminal
      <4>2. CASE r \in Playground
        BY <2>5, <3>1, <4>2, MoveType DEF SettleReserved, RecordType
      <4>. QED BY <4>1, <4>2
    <3>3. HandlerType' /\ SessionType' /\ HistoryType'
      BY <2>5, <3>1, SettleReturnsType DEF SettleReserved
    <3>4. RowType' /\ ProcessType' /\ BatchType' /\ SweepType'
      BY <2>5 DEF SettleReserved, RowType, ProcessType, BatchType, SweepType
    <3>. QED BY <3>2, <3>3, <3>4
  <2>6. ASSUME NEW r \in Requests, NEW a \in Actuals, SettleBatched(r, a) PROVE TypeOK'
    <3>1. a \in Nat /\ UserOf[r] \in Users /\ TokenOf[r] \in Tokens /\ NodeOf[r] \in Nodes
      OBVIOUS
    <3>2. HandlerType' /\ SessionType' /\ HistoryType'
      <4>1. SettleReturns(r, a, "settled") /\ UNCHANGED <<unheard, lost, discarded>>
        BY <2>6 DEF SettleBatched
      <4>. QED BY <3>1, <4>1, SettleReturnsType
    <3>3. BatchType'
      BY <2>6, <3>1 DEF SettleBatched, BatchType
    <3>4. MoneyType'
      BY <2>6, <3>1 DEF SettleBatched, MoneyType
    <3>5. RowType' /\ RecordType' /\ ProcessType' /\ SweepType'
      BY <2>6 DEF SettleBatched, RowType, RecordType, ProcessType, SweepType
    <3>. QED BY <3>2, <3>3, <3>4, <3>5
  <2>7. ASSUME NEW r \in Requests, NEW a \in Actuals, SettleDirect(r, a) PROVE TypeOK'
    <3>1. a \in Int
      OBVIOUS
    <3>2. MoneyType'
      BY <2>7, <3>1, MoveType DEF SettleDirect
    <3>3. HandlerType' /\ SessionType' /\ HistoryType'
      BY <2>7, <3>1, SettleReturnsType DEF SettleDirect
    <3>4. RowType' /\ RecordType' /\ ProcessType' /\ BatchType' /\ SweepType'
      BY <2>7 DEF SettleDirect, RowType, RecordType, ProcessType, BatchType, SweepType
    <3>. QED BY <3>2, <3>3, <3>4
  <2>8. ASSUME NEW r \in Requests, NEW a \in Actuals, SettleNothing(r, a) PROVE TypeOK'
    <3>1. a \in Int
      OBVIOUS
    <3>2. HandlerType' /\ SessionType' /\ HistoryType'
      BY <2>8, <3>1, SettleReturnsType DEF SettleNothing
    <3>3. MoneyType' /\ RowType' /\ RecordType' /\ ProcessType' /\ BatchType' /\ SweepType'
      BY <2>8 DEF SettleNothing, MoneyType, RowType, RecordType, ProcessType, BatchType, SweepType
    <3>. QED BY <3>2, <3>3
  <2>9. ASSUME NEW r \in Requests, Refund(r) \/ Finish(r) \/ RefundJobFails(r) PROVE TypeOK'
    <3>1. HandlerType'
      BY <2>9 DEF Refund, Finish, RefundJobFails, HandlerType, PcStates
    <3>2. MoneyType' /\ RowType' /\ RecordType' /\ SessionType' /\ ProcessType' /\ BatchType' /\ SweepType' /\ HistoryType'
      BY <2>9 DEF Refund, Finish, RefundJobFails,
           MoneyType, RowType, RecordType, SessionType, ProcessType, BatchType, SweepType, HistoryType
    <3>. QED BY <3>1, <3>2
  <2>10. ASSUME NEW r \in Requests, RefundJob(r) PROVE TypeOK'
    <3>1. -ses[r].pre \in Int
      BY DEF SessionType, Sessions
    <3>2. MoneyType' /\ RecordType'
      <4>1. CASE r \notin Playground
        BY <2>10, <3>1, <4>1, FinalizeType DEF RefundJob, Terminal
      <4>2. CASE r \in Playground
        BY <2>10, <3>1, <4>2, MoveType DEF RefundJob, RecordType
      <4>. QED BY <4>1, <4>2
    <3>3. HandlerType'
      BY <2>10 DEF RefundJob, HandlerType, PcStates
    <3>4. RowType' /\ SessionType' /\ ProcessType' /\ BatchType' /\ SweepType' /\ HistoryType'
      BY <2>10 DEF RefundJob, RowType, SessionType, ProcessType, BatchType, SweepType, HistoryType
    <3>. QED BY <3>2, <3>3, <3>4
  <2>11. ASSUME NEW n \in Nodes, SweepFind(n) PROVE TypeOK'
    <3>1. SweepType'
      BY <2>11 DEF SweepFind, SweepType, RecordType, Records
    <3>2. MoneyType' /\ RowType' /\ RecordType' /\ SessionType' /\ HandlerType' /\ ProcessType' /\ BatchType' /\ HistoryType'
      BY <2>11 DEF SweepFind,
           MoneyType, RowType, RecordType, SessionType, HandlerType, ProcessType, BatchType, HistoryType
    <3>. QED BY <3>1, <3>2
  <2>12. ASSUME NEW n \in Nodes, NEW s \in sweep[n], SweepRefund(n, s) PROVE TypeOK'
    <3>1. s.req \in Requests /\ -s.pre \in Int
      BY DEF SweepType
    <3>2. MoneyType' /\ RecordType'
      <4>1. CASE rec[s.req].status = "reserved"
        BY <2>12, <3>1, <4>1, MoveType, CloseType DEF SweepRefund, Terminal
      <4>2. CASE rec[s.req].status # "reserved"
        BY <2>12, <4>2 DEF SweepRefund, KeepMoney, MoneyType, RecordType
      <4>. QED BY <4>1, <4>2
    <3>3. SweepType'
      BY <2>12 DEF SweepRefund, SweepType
    <3>4. RowType' /\ SessionType' /\ HandlerType' /\ ProcessType' /\ BatchType' /\ HistoryType'
      BY <2>12 DEF SweepRefund, RowType, SessionType, HandlerType, ProcessType, BatchType, HistoryType
    <3>. QED BY <3>2, <3>3, <3>4
  <2>13. ASSUME NEW n \in Nodes, NEW s \in sweep[n], SweepSkip(n, s) PROVE TypeOK'
    <3>1. SweepType'
      BY <2>13 DEF SweepSkip, SweepType
    <3>2. MoneyType' /\ RowType' /\ RecordType' /\ SessionType' /\ HandlerType' /\ ProcessType' /\ BatchType' /\ HistoryType'
      BY <2>13 DEF SweepSkip,
           MoneyType, RowType, RecordType, SessionType, HandlerType, ProcessType, BatchType, HistoryType
    <3>. QED BY <3>1, <3>2
  <2>14. ASSUME NEW n \in Nodes, NEW u \in Users, FlushUser(n, u) PROVE TypeOK'
    <3>1. pend[<<n, u>>] \in Nat
      BY DEF BatchType
    <3>2. MoneyType' /\ HistoryType' /\ BatchType'
      BY <2>14, <3>1 DEF FlushUser, MoneyType, HistoryType, BatchType
    <3>3. RowType' /\ RecordType' /\ SessionType' /\ HandlerType' /\ ProcessType' /\ SweepType'
      BY <2>14 DEF FlushUser, RowType, RecordType, SessionType, HandlerType, ProcessType, SweepType
    <3>. QED BY <3>2, <3>3
  <2>15. ASSUME NEW n \in Nodes, NEW t \in Tokens, FlushToken(n, t) PROVE TypeOK'
    <3>1. tpend[<<n, t>>] \in Nat
      BY DEF BatchType
    <3>2. MoneyType' /\ BatchType'
      BY <2>15, <3>1 DEF FlushToken, MoneyType, BatchType
    <3>3. RowType' /\ RecordType' /\ SessionType' /\ HandlerType' /\ ProcessType' /\ SweepType' /\ HistoryType'
      BY <2>15 DEF FlushToken, RowType, RecordType, SessionType, HandlerType, ProcessType, SweepType, HistoryType
    <3>. QED BY <3>2, <3>3
  <2>16. ASSUME NEW n \in Nodes, BeginDrain(n) \/ StopUpdater(n) PROVE TypeOK'
    <3>1. ProcessType'
      BY <2>16 DEF BeginDrain, StopUpdater, ProcessType
    <3>2. MoneyType' /\ RowType' /\ RecordType' /\ SessionType' /\ HandlerType' /\ BatchType' /\ SweepType' /\ HistoryType'
      BY <2>16 DEF BeginDrain, StopUpdater,
           MoneyType, RowType, RecordType, SessionType, HandlerType, BatchType, SweepType, HistoryType
    <3>. QED BY <3>1, <3>2
  <2>17. ASSUME NEW n \in Nodes, Crash(n) PROVE TypeOK'
    <3>1. HandlerType' /\ SessionType'
      BY <2>17 DEF Crash, HandlerType, PcStates, SessionType, Sessions, NoSession, NewSession
    <3>2. ProcessType' /\ SweepType'
      BY <2>17 DEF Crash, ProcessType, SweepType
    <3>3. HistoryType' /\ BatchType'
      BY <2>17 DEF Crash, HistoryType, BatchType
    <3>4. MoneyType' /\ RowType' /\ RecordType'
      BY <2>17 DEF Crash, MoneyType, RowType, RecordType
    <3>. QED BY <3>1, <3>2, <3>3, <3>4
  <2>18. ASSUME NEW u \in Users, SoftDeleteUser(u) \/ HardDeleteUser(u) PROVE TypeOK'
    <3>1. RowType'
      BY <2>18 DEF SoftDeleteUser, HardDeleteUser, RowType
    <3>2. RecordType'
      BY <2>18 DEF SoftDeleteUser, HardDeleteUser, RecordType, Records, Statuses, Terminal, Closed
    <3>3. MoneyType' /\ SessionType' /\ HandlerType' /\ ProcessType' /\ BatchType' /\ SweepType' /\ HistoryType'
      BY <2>18 DEF SoftDeleteUser, HardDeleteUser,
           MoneyType, SessionType, HandlerType, ProcessType, BatchType, SweepType, HistoryType
    <3>. QED BY <3>1, <3>2, <3>3
  <2>19. ASSUME NEW t \in Tokens, DeleteToken(t) PROVE TypeOK'
    BY <2>19 DEF DeleteToken,
         MoneyType, RowType, RecordType, SessionType, HandlerType, ProcessType, BatchType, SweepType, HistoryType
  <2>20. CASE Tick
    <3>1. RecordType'
      BY <2>20 DEF Tick, RecordType, Records, Statuses
    <3>2. HandlerType'
      BY <2>20 DEF Tick, HandlerType
    <3>3. MoneyType' /\ RowType' /\ SessionType' /\ ProcessType' /\ BatchType' /\ SweepType' /\ HistoryType'
      BY <2>20 DEF Tick, MoneyType, RowType, SessionType, ProcessType, BatchType, SweepType, HistoryType
    <3>. QED BY <3>1, <3>2, <3>3
  <2>21. CASE UNCHANGED vars
    BY <2>21 DEF vars,
         MoneyType, RowType, RecordType, SessionType, HandlerType, ProcessType, BatchType, SweepType, HistoryType
  <2>. QED
    BY <2>1, <2>2, <2>3, <2>4, <2>5, <2>6, <2>7, <2>8, <2>9, <2>10, <2>11, <2>12, <2>13,
       <2>14, <2>15, <2>16, <2>17, <2>18, <2>19, <2>20, <2>21
       DEF Next, Handler, SettleCall, Sweeper, Environment
<1>. QED
  BY <1>1, <1>2, PTL DEF Spec

-----------------------------------------------------------------------------
(* The effect of the helpers on one request, and on the others. *)

\* A request none of whose state changes keeps its invariant.
LEMMA RequestFrame ==
  ASSUME NEW x \in Requests, ReqOK(x),
         rec'[x] = rec[x], pc'[x] = pc[x], ses'[x] = ses[x], net'[x] = net[x],
         tnet'[x] = tnet[x], metered'[x] = metered[x], unheard'[x] = unheard[x],
         ustate'[UserOf[x]] = ustate[UserOf[x]]
  PROVE  ReqOK(x)'
BY DEF ReqOK, SessionOK, ChargeMatches, TokenFollows, Trusted, Settled

\* Snapshots stay right as long as open records keep their amount and closed
\* ones stay closed.
LEMMA SweepFrame ==
  ASSUME TypeOK, SweepInv, UNCHANGED sweep,
         \A x \in Requests : rec[x].status # "none" =>
           /\ rec'[x].status # "none"
           /\ rec'[x].status = "reserved" =>
                rec[x].status = "reserved" /\ rec'[x].pre = rec[x].pre,
         \A x \in Requests : unheard[x] => unheard'[x]
  PROVE  SweepInv'
BY DEF TypeOK, SweepType, SweepInv

\* MoveWallet and MoveToken move the same amount, for r only.
LEMMA MoveEffect ==
  ASSUME MoneyType, NEW r \in Requests, NEW d \in Int, MoveWallet(r, d), MoveToken(r, d)
  PROVE  /\ net'[r] = net[r] + d
         /\ tnet'[r] = IF TokenOf[r] \in Unlimited THEN tnet[r] ELSE tnet[r] + d
         /\ \A x \in Requests \ {r} : net'[x] = net[x] /\ tnet'[x] = tnet[x]
<1>1. net'[r] = net[r] + d /\ \A x \in Requests \ {r} : net'[x] = net[x]
  BY DEF MoneyType, MoveWallet
<1>2. CASE TokenOf[r] \in Unlimited
  BY <1>1, <1>2 DEF MoveToken
<1>3. CASE TokenOf[r] \notin Unlimited
  BY <1>1, <1>3 DEF MoneyType, MoveToken
<1>. QED BY <1>2, <1>3

\* FinalizeUserTokenQuota: the claim decides whether anything moves.
LEMMA FinalizeEffect ==
  ASSUME MoneyType, RecordType, NEW r \in Requests, NEW d \in Int, NEW status \in Terminal,
         FinalizeUserTokenQuota(r, d, status)
  PROVE  /\ rec[r].status = "reserved" =>
              /\ rec'[r].status = status
              /\ net'[r] = net[r] + d
              /\ tnet'[r] = IF TokenOf[r] \in Unlimited THEN tnet[r] ELSE tnet[r] + d
         /\ rec[r].status = "none" => rec'[r] = rec[r] /\ net'[r] = net[r] + d
         /\ rec[r].status \in Terminal =>
              rec'[r] = rec[r] /\ net'[r] = net[r] /\ tnet'[r] = tnet[r]
         /\ \A x \in Requests \ {r} :
              rec'[x] = rec[x] /\ net'[x] = net[x] /\ tnet'[x] = tnet[x]
<1>1. CASE rec[r].status = "reserved"
  BY <1>1, MoveEffect DEF FinalizeUserTokenQuota, Claims, RecordType, Records, Closed, Terminal
<1>2. CASE rec[r].status = "none"
  BY <1>2, MoveEffect DEF FinalizeUserTokenQuota, Claims, Terminal
<1>3. CASE rec[r].status \in Terminal
  BY <1>3 DEF FinalizeUserTokenQuota, Claims, Terminal, KeepMoney
<1>. QED BY <1>1, <1>2, <1>3 DEF RecordType, Records, Statuses

-----------------------------------------------------------------------------
(* Top-ups of a reservation. *)

\* The effect of a top-up: it raises what the record and the money say of r by
\* the same amount, and what the session says unless the top-up goes unheard.
LEMMA ReserveEffect ==
  ASSUME TypeOK, NEW r \in Requests, NEW target \in Targets, Reserve(r, target)
  PROVE  /\ pc[r] = "running" /\ target > ses[r].pre /\ target \in Nat /\ ses[r].pre \in Nat
         /\ UNCHANGED <<pc, metered, ustate, sweep>>
         /\ ~Trusted(r)
         /\ ses'[r] = NewSession("reserving", target) \/ (ses'[r] = ses[r] /\ unheard'[r])
         /\ unheard[r] \/ InSweep(r) => unheard'[r]
         /\ net'[r] = net[r] + (target - ses[r].pre)
         /\ r \in Playground => UNCHANGED <<rec, tnet>>
         /\ r \notin Playground =>
              /\ rec[r].status = "reserved" /\ rec'[r].status = "reserved"
              /\ rec'[r].pre = rec[r].pre + (target - ses[r].pre)
              /\ tnet'[r] = IF TokenOf[r] \in Unlimited THEN tnet[r]
                            ELSE tnet[r] + (target - ses[r].pre)
         /\ \A x \in Requests \ {r} :
              /\ rec'[x] = rec[x] /\ net'[x] = net[x] /\ tnet'[x] = tnet[x]
              /\ ses'[x] = ses[x] /\ unheard'[x] = unheard[x]
<1>. DEFINE d == target - ses[r].pre
<1>t. MoneyType /\ RecordType /\ SessionType /\ HistoryType
  BY DEF TypeOK
<1>1. target \in Nat /\ ses[r].pre \in Nat
  BY <1>t, WalletConstants DEF SessionType, Sessions
<1>2. d \in Int
  BY <1>1
<1>3. /\ pc[r] = "running" /\ d > 0 /\ UNCHANGED <<pc, metered, ustate, sweep>> /\ ~Trusted(r)
      /\ MoveWallet(r, d)
  BY DEF Reserve
<1>4. target > ses[r].pre
  BY <1>1, <1>3
<1>5. PICK ack \in Acks :
        /\ ses' = IF ack THEN [ses EXCEPT ![r] = NewSession("reserving", target)] ELSE ses
        /\ unheard' = [unheard EXCEPT ![r] = @ \/ ~ack \/ InSweep(r)]
  BY DEF Reserve
<1>6. /\ ses'[r] = NewSession("reserving", target) \/ (ses'[r] = ses[r] /\ unheard'[r])
      /\ unheard[r] \/ InSweep(r) => unheard'[r]
      /\ \A x \in Requests \ {r} : ses'[x] = ses[x] /\ unheard'[x] = unheard[x]
  <2>1. unheard'[r] <=> unheard[r] \/ ~ack \/ InSweep(r)
    BY <1>t, <1>5 DEF HistoryType
  <2>2. \A x \in Requests \ {r} : unheard'[x] = unheard[x]
    BY <1>t, <1>5 DEF HistoryType
  <2>3. CASE ack
    BY <1>t, <1>5, <2>1, <2>2, <2>3 DEF SessionType
  <2>4. CASE ~ack
    BY <1>5, <2>1, <2>2, <2>4
  <2>. QED BY <2>3, <2>4
<1>7. net'[r] = net[r] + d /\ \A x \in Requests \ {r} : net'[x] = net[x]
  BY <1>t, <1>3 DEF MoveWallet, MoneyType
<1>8. CASE r \in Playground
  <2>1. UNCHANGED <<rec, tnet>>
    BY <1>8 DEF Reserve
  <2>. QED BY <1>1, <1>3, <1>4, <1>6, <1>7, <1>8, <2>1
<1>9. CASE r \notin Playground
  <2>1. /\ rec[r].status = "reserved" /\ MoveToken(r, d)
        /\ rec' = [rec EXCEPT ![r] = [status |-> "reserved", pre |-> rec[r].pre + d, age |-> 0]]
    BY <1>9 DEF Reserve
  <2>2. /\ rec'[r].status = "reserved" /\ rec'[r].pre = rec[r].pre + d
        /\ \A x \in Requests \ {r} : rec'[x] = rec[x]
    BY <1>t, <2>1 DEF RecordType
  <2>3. /\ tnet'[r] = IF TokenOf[r] \in Unlimited THEN tnet[r] ELSE tnet[r] + d
        /\ \A x \in Requests \ {r} : tnet'[x] = tnet[x]
    BY <1>t, <1>2, <1>3, <2>1, MoveEffect
  <2>. QED BY <1>1, <1>3, <1>4, <1>6, <1>7, <1>9, <2>1, <2>2, <2>3
<1>. QED BY <1>8, <1>9

-----------------------------------------------------------------------------
\* The initial states satisfy the invariant.
LEMMA SafeInit == Init => IInv
BY DEF Init, IInv, SweepInv, ReqOK, SessionOK, ChargeMatches, TokenFollows,
       Trusted, Settled, NoSession, NewSession

\* An action that changes only r's own state, keeps r's invariant and leaves
\* the snapshots right keeps the whole invariant.
LEMMA OneRequest ==
  ASSUME IInv, NEW r \in Requests, ReqOK(r)', SweepInv', UNCHANGED ustate,
         \A x \in Requests \ {r} :
           /\ rec'[x] = rec[x] /\ net'[x] = net[x] /\ tnet'[x] = tnet[x]
           /\ pc'[x] = pc[x] /\ ses'[x] = ses[x] /\ metered'[x] = metered[x]
           /\ unheard'[x] = unheard[x]
  PROVE  IInv'
<1>1. ASSUME NEW x \in Requests, x # r PROVE ReqOK(x)'
  BY <1>1, RequestFrame DEF IInv
<1>. QED BY <1>1 DEF IInv

\* Every step keeps the invariant.
LEMMA SafeStep ==
  ASSUME TypeOK, TypeOK', IInv, [Next]_vars
  PROVE  IInv'
<1>. USE WalletConstants DEF db, mem, hist
<1>t. /\ MoneyType /\ RecordType /\ SessionType /\ HandlerType /\ HistoryType
      /\ MoneyType' /\ RecordType' /\ SessionType' /\ HandlerType' /\ HistoryType'
  BY DEF TypeOK
<1>1. ASSUME NEW r \in Requests, NEW q \in PreQuotas, NEW f \in BOOLEAN, TryWallet(r, q, f)
      PROVE IInv'
  <2>1. ReqOK(r) /\ q \in Nat
    BY DEF IInv
  <2>2. /\ pc[r] = "idle" /\ UNCHANGED <<rec, net, tnet, metered, ustate, sweep, unheard>>
        /\ \/ pc'[r] = "ended" /\ UNCHANGED ses
           \/ pc'[r] = "running" /\ ses'[r] = NewSession("trusted", 0)
           \/ pc'[r] = "running" /\ ses'[r] = NewSession("reserving", q) /\ q = 0
           \/ pc'[r] = "checked" /\ ses'[r] = NewSession("reserving", q) /\ q # 0
        /\ \A x \in Requests \ {r} : pc'[x] = pc[x] /\ ses'[x] = ses[x]
    <3>1. CASE ReadQuota(r) <= 0 \/ ReadQuota(r) < q
      BY <1>1, <1>t, <3>1 DEF TryWallet, HandlerType, SessionType
    <3>2. CASE ~(ReadQuota(r) <= 0 \/ ReadQuota(r) < q) /\ ~f /\ Trusts(r, q)
      BY <1>1, <1>t, <3>2 DEF TryWallet, HandlerType, SessionType
    <3>3. CASE ~(ReadQuota(r) <= 0 \/ ReadQuota(r) < q) /\ ~(~f /\ Trusts(r, q)) /\ q = 0
      BY <1>1, <1>t, <3>3 DEF TryWallet, HandlerType, SessionType
    <3>4. CASE ~(ReadQuota(r) <= 0 \/ ReadQuota(r) < q) /\ ~(~f /\ Trusts(r, q)) /\ q # 0
      BY <1>1, <1>t, <3>4 DEF TryWallet, HandlerType, SessionType
    <3>. QED BY <3>1, <3>2, <3>3, <3>4
  <2>3. ReqOK(r)'
    <3>1. ChargeMatches(r)' /\ TokenFollows(r)'
      BY <2>1, <2>2 DEF ReqOK, ChargeMatches, TokenFollows
    <3>2. CASE pc'[r] = "ended" /\ UNCHANGED ses
      BY <2>1, <2>2, <3>1, <3>2 DEF ReqOK, SessionOK, Trusted, Settled
    <3>3. CASE pc'[r] = "running" /\ ses'[r] = NewSession("trusted", 0)
      BY <2>1, <2>2, <3>1, <3>3 DEF ReqOK, SessionOK, Trusted, Settled, NewSession
    <3>4. CASE pc'[r] = "running" /\ ses'[r] = NewSession("reserving", q) /\ q = 0
      BY <2>1, <2>2, <3>1, <3>4 DEF ReqOK, SessionOK, Trusted, Settled, NewSession
    <3>5. CASE pc'[r] = "checked" /\ ses'[r] = NewSession("reserving", q) /\ q # 0
      BY <2>1, <2>2, <3>1, <3>5 DEF ReqOK, SessionOK, Trusted, Settled, NewSession
    <3>. QED BY <2>2, <3>2, <3>3, <3>4, <3>5
  <2>4. SweepInv'
    BY <2>2, SweepFrame DEF IInv
  <2>. QED BY <2>2, <2>3, <2>4, OneRequest
<1>2. ASSUME NEW r \in Requests, PreConsume(r) PROVE IInv'
  <2>1. ReqOK(r) /\ ses[r].pre \in Nat
    BY <1>t DEF IInv, SessionType, Sessions
  <2>2. /\ pc[r] = "checked" /\ UNCHANGED <<metered, ustate, sweep, unheard>>
        /\ \/ pc'[r] = "running" /\ UNCHANGED ses
           \/ pc'[r] = "ended" /\ ses'[r] = NoSession
        /\ \A x \in Requests \ {r} : pc'[x] = pc[x] /\ ses'[x] = ses[x]
    BY <1>2, <1>t DEF PreConsume, HandlerType, SessionType
  <2>3. \A x \in Requests \ {r} : rec'[x] = rec[x] /\ net'[x] = net[x] /\ tnet'[x] = tnet[x]
    <3>1. CASE r \notin Playground
      <4>1. MoveWallet(r, ses[r].pre) /\ MoveToken(r, ses[r].pre)
        BY <1>2, <3>1 DEF PreConsume
      <4>2. ses[r].pre \in Int
        BY <2>1
      <4>3. \A x \in Requests \ {r} : net'[x] = net[x] /\ tnet'[x] = tnet[x]
        BY <1>t, <4>1, <4>2, MoveEffect
      <4>4. \A x \in Requests \ {r} : rec'[x] = rec[x]
        BY <1>2, <1>t, <3>1 DEF PreConsume, RecordType
      <4>. QED BY <4>3, <4>4
    <3>2. CASE r \in Playground
      BY <1>2, <1>t, <3>2 DEF PreConsume, MoveWallet, MoneyType
    <3>. QED BY <3>1, <3>2
  <2>4. ReqOK(r)'
    <3>1. CASE r \notin Playground
      <4>1. /\ rec'[r] = [status |-> "reserved", pre |-> ses[r].pre, age |-> 0]
            /\ net'[r] = net[r] + ses[r].pre
            /\ tnet'[r] = IF TokenOf[r] \in Unlimited THEN tnet[r] ELSE tnet[r] + ses[r].pre
        BY <1>2, <1>t, <2>1, <3>1, MoveEffect DEF PreConsume, RecordType
      <4>2. ustate[UserOf[r]] # "hard"
        BY <1>2, <2>1, <2>2, <3>1 DEF PreConsume, WalletAdmits, ReqOK, SessionOK
      <4>. QED
        BY <2>1, <2>2, <3>1, <4>1, <4>2
           DEF ReqOK, SessionOK, ChargeMatches, TokenFollows, Trusted, Settled, NoSession, NewSession
    <3>2. CASE r \in Playground
      <4>1. UNCHANGED rec
        BY <1>2, <3>2 DEF PreConsume
      <4>. QED
        BY <2>1, <2>2, <3>2, <4>1
           DEF ReqOK, SessionOK, ChargeMatches, TokenFollows, Trusted, Settled, NoSession, NewSession
    <3>. QED BY <3>1, <3>2
  <2>5. SweepInv'
    <3>1. rec[r].status = "none"
      BY <2>1, <2>2 DEF ReqOK, SessionOK
    <3>. QED BY <2>2, <2>3, <3>1, SweepFrame DEF IInv
  <2>. QED BY <2>2, <2>3, <2>4, <2>5, OneRequest
<1>3. ASSUME NEW r \in Requests, PreConsumeFails(r) PROVE IInv'
  <2>1. ReqOK(r)
    BY DEF IInv
  <2>2. /\ pc[r] = "checked" /\ UNCHANGED <<rec, net, tnet, metered, ustate, sweep, unheard>>
        /\ pc'[r] = "ended" /\ ses'[r] = NoSession
        /\ \A x \in Requests \ {r} : pc'[x] = pc[x] /\ ses'[x] = ses[x]
    BY <1>3, <1>t DEF PreConsumeFails, HandlerType, SessionType
  <2>3. ReqOK(r)'
    BY <2>1, <2>2 DEF ReqOK, SessionOK, ChargeMatches, TokenFollows, Trusted, Settled, NoSession, NewSession
  <2>4. SweepInv'
    BY <2>2, SweepFrame DEF IInv
  <2>. QED BY <2>2, <2>3, <2>4, OneRequest
<1>4. ASSUME NEW r \in Requests, NEW a \in Actuals, SettleReserved(r, a) PROVE IInv'
  <2>1. ReqOK(r) /\ ses[r].pre \in Nat /\ a \in Nat /\ rec[r].pre \in Nat
    BY <1>t DEF IInv, SessionType, Sessions, RecordType, Records
  <2>2. /\ pc[r] = "running" /\ ~Trusted(r) /\ UNCHANGED <<ustate, sweep, unheard>>
        /\ pc'[r] = "billed" /\ ses'[r].mode = ses[r].mode /\ ses'[r].pre = ses[r].pre
        /\ metered'[r] = a
        /\ \A x \in Requests \ {r} : pc'[x] = pc[x] /\ ses'[x] = ses[x] /\ metered'[x] = metered[x]
    BY <1>4, <1>t DEF SettleReserved, SettleReturns, HandlerType, SessionType, Sessions, HistoryType
  <2>3. CASE r \notin Playground
    <3>1. FinalizeUserTokenQuota(r, a - ses[r].pre, "settled") /\ a - ses[r].pre \in Int
      BY <1>4, <2>1, <2>3 DEF SettleReserved
    <3>2. /\ rec[r].status = "reserved" =>
               /\ rec'[r].status = "settled"
               /\ net'[r] = net[r] + (a - ses[r].pre)
               /\ tnet'[r] = IF TokenOf[r] \in Unlimited THEN tnet[r] ELSE tnet[r] + (a - ses[r].pre)
          /\ rec[r].status = "none" => rec'[r] = rec[r] /\ net'[r] = net[r] + (a - ses[r].pre)
          /\ rec[r].status \in Terminal =>
               rec'[r] = rec[r] /\ net'[r] = net[r] /\ tnet'[r] = tnet[r]
          /\ \A x \in Requests \ {r} :
               rec'[x] = rec[x] /\ net'[x] = net[x] /\ tnet'[x] = tnet[x]
      BY <1>t, <3>1, FinalizeEffect DEF Terminal
    <3>3. ReqOK(r)'
      <4>1. CASE rec[r].status = "reserved"
        BY <1>t, <2>1, <2>2, <3>2, <4>1
           DEF ReqOK, SessionOK, ChargeMatches, TokenFollows, Trusted, MoneyType
      <4>2. CASE rec[r].status = "none"
        BY <1>t, <2>1, <2>2, <3>2, <4>2
           DEF ReqOK, SessionOK, ChargeMatches, TokenFollows, Trusted, MoneyType
      <4>3. CASE rec[r].status = "refunded"
        BY <1>t, <2>1, <2>2, <3>2, <4>3
           DEF ReqOK, SessionOK, ChargeMatches, TokenFollows, Trusted, Terminal
      <4>4. rec[r].status # "settled"
        BY <2>1, <2>2 DEF ReqOK, SessionOK
      <4>. QED BY <1>t, <4>1, <4>2, <4>3, <4>4 DEF RecordType, Records, Statuses, Terminal
    <3>4. SweepInv'
      BY <1>t, <2>2, <3>2, SweepFrame DEF IInv, RecordType, Records, Statuses, Terminal
    <3>. QED BY <2>2, <3>2, <3>3, <3>4, OneRequest
  <2>4. CASE r \in Playground
    <3>1. UNCHANGED <<rec, tnet>> /\ \A x \in Requests \ {r} : net'[x] = net[x]
      BY <1>4, <1>t, <2>4 DEF SettleReserved, FinalizeUserTokenQuota, MoveWallet, MoneyType
    <3>2. ReqOK(r)'
      BY <2>1, <2>2, <2>4, <3>1 DEF ReqOK, SessionOK, ChargeMatches, TokenFollows, Trusted
    <3>3. SweepInv'
      BY <2>2, <3>1, SweepFrame DEF IInv
    <3>. QED BY <2>2, <3>1, <3>2, <3>3, OneRequest
  <2>. QED BY <2>3, <2>4
<1>5. ASSUME NEW r \in Requests, NEW a \in Actuals, SettleBatched(r, a) \/ SettleDirect(r, a)
      PROVE IInv'
  <2>1. ReqOK(r) /\ a \in Nat
    BY DEF IInv
  <2>2. /\ pc[r] = "running" /\ Trusted(r) /\ UNCHANGED <<rec, ustate, sweep, unheard>>
        /\ pc'[r] = "billed" /\ ses'[r].mode = ses[r].mode /\ ses'[r].pre = ses[r].pre
        /\ metered'[r] = a
        /\ \A x \in Requests \ {r} : pc'[x] = pc[x] /\ ses'[x] = ses[x] /\ metered'[x] = metered[x]
    BY <1>5, <1>t DEF SettleBatched, SettleDirect, SettleReturns, HandlerType, SessionType, Sessions, HistoryType
  <2>3. /\ net'[r] = net[r] + a
        /\ \A x \in Requests \ {r} : net'[x] = net[x] /\ tnet'[x] = tnet[x]
    <3>1. CASE SettleBatched(r, a)
      BY <3>1, <1>t, <2>1 DEF SettleBatched, MoneyType
    <3>2. CASE SettleDirect(r, a)
      BY <3>2, <1>t, <2>1 DEF SettleDirect, MoveWallet, MoveToken, MoneyType
    <3>. QED BY <1>5, <3>1, <3>2
  <2>4. ReqOK(r)'
    BY <1>t, <2>1, <2>2, <2>3 DEF ReqOK, SessionOK, ChargeMatches, TokenFollows, Trusted, MoneyType
  <2>5. SweepInv'
    BY <2>2, SweepFrame DEF IInv
  <2>. QED BY <2>2, <2>3, <2>4, <2>5, OneRequest
<1>6. ASSUME NEW r \in Requests, NEW a \in Actuals, SettleNothing(r, a) PROVE IInv'
  <2>1. ReqOK(r) /\ a \in Nat
    BY DEF IInv
  <2>2. /\ pc[r] = "running" /\ UNCHANGED <<rec, net, tnet, ustate, sweep, unheard>>
        /\ pc'[r] = "billed" /\ ses'[r].mode = ses[r].mode /\ ses'[r].pre = ses[r].pre
        /\ metered'[r] = a
        /\ \A x \in Requests \ {r} : pc'[x] = pc[x] /\ ses'[x] = ses[x] /\ metered'[x] = metered[x]
    BY <1>6, <1>t DEF SettleNothing, SettleReturns, HandlerType, SessionType, Sessions, HistoryType
  <2>3. ReqOK(r)'
    BY <2>1, <2>2 DEF ReqOK, SessionOK, ChargeMatches, TokenFollows, Trusted
  <2>4. SweepInv'
    BY <2>2, SweepFrame DEF IInv
  <2>. QED BY <2>2, <2>3, <2>4, OneRequest
<1>7. ASSUME NEW r \in Requests, Refund(r) \/ Finish(r) \/ RefundJobFails(r) PROVE IInv'
  <2>1. ReqOK(r) /\ ses[r].pre \in Nat
    BY <1>t DEF IInv, SessionType, Sessions
  <2>2. /\ UNCHANGED <<rec, net, tnet, ustate, sweep, ses, metered, unheard>>
        /\ pc[r] \in {"running", "billed", "refunding"}
        /\ pc'[r] \in {"refunding", "ended", "answered"}
        /\ pc'[r] = "refunding" => ses[r].pre > 0
        /\ \A x \in Requests \ {r} : pc'[x] = pc[x]
    BY <1>7, <1>t DEF Refund, Finish, RefundJobFails, NeedsRefund, HandlerType
  <2>3. ReqOK(r)'
    BY <2>1, <2>2 DEF ReqOK, SessionOK, ChargeMatches, TokenFollows, Trusted, Settled
  <2>4. SweepInv'
    BY <2>2, SweepFrame DEF IInv
  <2>. QED BY <2>2, <2>3, <2>4, OneRequest
<1>8. ASSUME NEW r \in Requests, RefundJob(r) PROVE IInv'
  <2>1. ReqOK(r) /\ ses[r].pre \in Nat /\ rec[r].pre \in Nat
    BY <1>t DEF IInv, SessionType, Sessions, RecordType, Records
  <2>2. /\ UNCHANGED <<ustate, sweep, ses, metered, unheard>>
        /\ pc[r] = "refunding" /\ pc'[r] = "ended"
        /\ \A x \in Requests \ {r} : pc'[x] = pc[x]
    BY <1>8, <1>t DEF RefundJob, HandlerType
  <2>3. CASE r \notin Playground
    <3>1. FinalizeUserTokenQuota(r, -ses[r].pre, "refunded") /\ -ses[r].pre \in Int
      BY <1>8, <2>1, <2>3 DEF RefundJob
    <3>2. /\ rec[r].status = "reserved" =>
               /\ rec'[r].status = "refunded"
               /\ net'[r] = net[r] + -ses[r].pre
               /\ tnet'[r] = IF TokenOf[r] \in Unlimited THEN tnet[r] ELSE tnet[r] + -ses[r].pre
          /\ rec[r].status = "none" => rec'[r] = rec[r]
          /\ rec[r].status \in Terminal =>
               rec'[r] = rec[r] /\ net'[r] = net[r] /\ tnet'[r] = tnet[r]
          /\ \A x \in Requests \ {r} :
               rec'[x] = rec[x] /\ net'[x] = net[x] /\ tnet'[x] = tnet[x]
      BY <1>t, <3>1, FinalizeEffect DEF Terminal
    <3>3. ReqOK(r)'
      <4>1. CASE rec[r].status = "reserved"
        BY <1>t, <2>1, <2>2, <3>2, <4>1
           DEF ReqOK, SessionOK, ChargeMatches, TokenFollows, Trusted, Settled, MoneyType
      <4>2. rec[r].status # "none"
        BY <2>1, <2>2, <2>3 DEF ReqOK, SessionOK
      <4>3. CASE rec[r].status \in Terminal
        BY <1>t, <2>1, <2>2, <3>2, <4>3
           DEF ReqOK, SessionOK, ChargeMatches, TokenFollows, Trusted, Settled, Terminal
      <4>. QED BY <1>t, <4>1, <4>2, <4>3 DEF RecordType, Records, Statuses, Terminal
    <3>4. SweepInv'
      BY <1>t, <2>2, <3>2, SweepFrame DEF IInv, RecordType, Records, Statuses, Terminal
    <3>. QED BY <2>2, <3>2, <3>3, <3>4, OneRequest
  <2>4. CASE r \in Playground
    <3>1. UNCHANGED <<rec, tnet>> /\ \A x \in Requests \ {r} : net'[x] = net[x]
      BY <1>8, <1>t, <2>4 DEF RefundJob, MoveWallet, MoneyType
    <3>2. ReqOK(r)'
      BY <2>1, <2>2, <2>4, <3>1 DEF ReqOK, SessionOK, ChargeMatches, TokenFollows, Trusted, Settled
    <3>3. SweepInv'
      BY <2>2, <3>1, SweepFrame DEF IInv
    <3>. QED BY <2>2, <3>1, <3>2, <3>3, OneRequest
  <2>. QED BY <2>3, <2>4
<1>9. ASSUME NEW n \in Nodes, SweepFind(n) PROVE IInv'
  <2>1. UNCHANGED <<rec, net, tnet, ustate, ses, metered, pc, unheard>>
    BY <1>9 DEF SweepFind
  <2>2. \A r \in Requests : ReqOK(r)'
    BY <2>1, RequestFrame DEF IInv
  <2>3. SweepInv'
    <3>1. PICK S \in SUBSET Requests :
            IsBatch(S) /\ sweep' = [sweep EXCEPT ![n] = {[req |-> r, pre |-> rec[r].pre] : r \in S}]
      BY <1>9 DEF SweepFind
    <3>2. \A r \in S : rec[r].status = "reserved"
      BY <3>1 DEF IsBatch, StaleRecords
    <3>3. ASSUME NEW m \in Nodes, NEW s \in sweep'[m]
          PROVE /\ rec[s.req].status # "none"
                /\ rec[s.req].status = "reserved" => s.pre = rec[s.req].pre \/ unheard[s.req]
      <4>1. CASE m = n
        BY <3>1, <3>2, <3>3, <4>1 DEF TypeOK, SweepType
      <4>2. CASE m # n
        BY <3>1, <3>3, <4>2 DEF TypeOK, SweepType, IInv, SweepInv
      <4>. QED BY <4>1, <4>2
    <3>. QED BY <2>1, <3>3 DEF SweepInv
  <2>. QED BY <2>2, <2>3 DEF IInv
<1>10. ASSUME NEW n \in Nodes, NEW s \in sweep[n], SweepRefund(n, s) PROVE IInv'
  <2>. DEFINE r == s.req
  <2>1. r \in Requests /\ s.pre \in Nat /\ -s.pre \in Int
    BY DEF TypeOK, SweepType
  <2>2. UNCHANGED <<pc, ses, metered, ustate, unheard>>
    BY <1>10 DEF SweepRefund
  <2>3. ReqOK(r)
    BY <2>1 DEF IInv
  <2>4. /\ rec[r].status = "reserved" =>
             /\ rec'[r].status = "refunded"
             /\ net'[r] = net[r] + -s.pre
             /\ tnet'[r] = IF TokenOf[r] \in Unlimited THEN tnet[r] ELSE tnet[r] + -s.pre
        /\ rec[r].status # "reserved" => rec'[r] = rec[r] /\ net'[r] = net[r] /\ tnet'[r] = tnet[r]
        /\ \A x \in Requests \ {r} :
             rec'[x] = rec[x] /\ net'[x] = net[x] /\ tnet'[x] = tnet[x]
    <3>1. CASE rec[r].status = "reserved"
      BY <1>10, <1>t, <2>1, <3>1, MoveEffect DEF SweepRefund, RecordType, Records, Closed
    <3>2. CASE rec[r].status # "reserved"
      BY <1>10, <3>2 DEF SweepRefund, KeepMoney
    <3>. QED BY <3>1, <3>2
  <2>5. ReqOK(r)'
    <3>1. CASE rec[r].status = "reserved"
      <4>1. s.pre = rec[r].pre \/ unheard[r]
        BY <1>10, <3>1 DEF IInv, SweepInv
      <4>. QED
        BY <1>t, <2>1, <2>2, <2>3, <2>4, <3>1, <4>1
           DEF ReqOK, SessionOK, ChargeMatches, TokenFollows, Trusted, Settled, MoneyType
    <3>2. CASE rec[r].status # "reserved"
      BY <2>1, <2>2, <2>3, <2>4, <3>2, RequestFrame
    <3>. QED BY <3>1, <3>2
  <2>6. SweepInv'
    <3>1. \A m \in Nodes : sweep'[m] \subseteq sweep[m]
      BY <1>10 DEF SweepRefund, TypeOK, SweepType
    <3>2. \A x \in Requests : rec[x].status # "none" =>
            /\ rec'[x].status # "none"
            /\ rec'[x].status = "reserved" =>
                 rec[x].status = "reserved" /\ rec'[x].pre = rec[x].pre
      BY <2>1, <2>4
    <3>. QED BY <2>2, <3>1, <3>2 DEF IInv, SweepInv, TypeOK, SweepType
  <2>. QED BY <2>1, <2>2, <2>4, <2>5, <2>6, OneRequest
<1>11. ASSUME NEW n \in Nodes, NEW s \in sweep[n], SweepSkip(n, s) PROVE IInv'
  <2>1. UNCHANGED <<rec, net, tnet, ustate, ses, metered, pc, unheard>>
    BY <1>11 DEF SweepSkip
  <2>2. \A r \in Requests : ReqOK(r)'
    BY <2>1, RequestFrame DEF IInv
  <2>3. \A m \in Nodes : sweep'[m] \subseteq sweep[m]
    BY <1>11 DEF SweepSkip, TypeOK, SweepType
  <2>4. SweepInv'
    BY <2>1, <2>3 DEF IInv, SweepInv
  <2>. QED BY <2>2, <2>4 DEF IInv
<1>12. ASSUME UNCHANGED <<rec, net, tnet, ustate, ses, metered, pc, sweep, unheard>> PROVE IInv'
  <2>1. \A r \in Requests : ReqOK(r)'
    BY <1>12, RequestFrame DEF IInv
  <2>2. SweepInv'
    BY <1>12 DEF IInv, SweepInv
  <2>. QED BY <2>1, <2>2 DEF IInv
<1>13. ASSUME NEW n \in Nodes, Crash(n) PROVE IInv'
  <2>1. UNCHANGED <<rec, net, tnet, ustate, metered, unheard>>
    BY <1>13 DEF Crash
  <2>2. ASSUME NEW r \in Requests PROVE ReqOK(r)'
    <3>1. ReqOK(r)
      BY DEF IInv
    <3>2. CASE Killed(r, n)
      <4>1. pc'[r] = "ended" /\ ses'[r] = NoSession
        BY <1>13, <3>2 DEF Crash
      <4>. QED BY <2>1, <3>1, <4>1
             DEF ReqOK, SessionOK, ChargeMatches, TokenFollows, Trusted, Settled, NoSession, NewSession
    <3>3. CASE ~Killed(r, n)
      <4>1. pc'[r] = pc[r] /\ ses'[r] = ses[r]
        BY <1>13, <3>3 DEF Crash
      <4>. QED BY <2>1, <3>1, <4>1, RequestFrame
    <3>. QED BY <3>2, <3>3
  <2>3. \A m \in Nodes : sweep'[m] \subseteq sweep[m]
    BY <1>13 DEF Crash, TypeOK, SweepType
  <2>4. SweepInv'
    BY <2>1, <2>3 DEF IInv, SweepInv
  <2>. QED BY <2>2, <2>4 DEF IInv
<1>14. ASSUME NEW u \in Users, SoftDeleteUser(u) PROVE IInv'
  <2>1. UNCHANGED <<rec, net, tnet, ses, metered, pc, sweep, unheard>>
    BY <1>14 DEF SoftDeleteUser
  <2>2. ASSUME NEW r \in Requests PROVE ReqOK(r)'
    <3>1. ReqOK(r) /\ UserOf[r] \in Users
      BY DEF IInv
    <3>2. ustate'[UserOf[r]] = "hard" <=> ustate[UserOf[r]] = "hard"
      BY <1>14, <3>1 DEF SoftDeleteUser, TypeOK, RowType
    <3>. QED BY <2>1, <3>1, <3>2
           DEF ReqOK, SessionOK, ChargeMatches, TokenFollows, Trusted, Settled
  <2>3. SweepInv'
    BY <2>1, SweepFrame DEF IInv
  <2>. QED BY <2>2, <2>3 DEF IInv
<1>15. ASSUME NEW u \in Users, HardDeleteUser(u) PROVE IInv'
  <2>1. UNCHANGED <<net, tnet, ses, metered, pc, sweep, unheard>>
    BY <1>15 DEF HardDeleteUser
  <2>2. ASSUME NEW r \in Requests PROVE ReqOK(r)'
    <3>1. ReqOK(r) /\ UserOf[r] \in Users
      BY DEF IInv
    <3>2. CASE UserOf[r] = u /\ rec[r].status = "reserved"
      <4>1. rec'[r] = Closed(rec[r], "refunded") /\ ustate'[UserOf[r]] = "hard"
        BY <1>15, <3>1, <3>2 DEF HardDeleteUser, TypeOK, RowType
      <4>. QED BY <2>1, <3>1, <3>2, <4>1
             DEF ReqOK, SessionOK, ChargeMatches, TokenFollows, Trusted, Settled, Closed
    <3>3. CASE UserOf[r] = u /\ rec[r].status # "reserved"
      <4>1. rec'[r] = rec[r] /\ ustate'[UserOf[r]] = "hard"
        BY <1>15, <3>1, <3>3 DEF HardDeleteUser, TypeOK, RowType
      <4>. QED BY <2>1, <3>1, <3>3, <4>1
             DEF ReqOK, SessionOK, ChargeMatches, TokenFollows, Trusted, Settled
    <3>4. CASE UserOf[r] # u
      <4>1. rec'[r] = rec[r] /\ ustate'[UserOf[r]] = ustate[UserOf[r]]
        BY <1>15, <3>1, <3>4 DEF HardDeleteUser, TypeOK, RowType
      <4>. QED BY <2>1, <3>1, <4>1, RequestFrame
    <3>. QED BY <3>2, <3>3, <3>4
  <2>3. \A x \in Requests : rec[x].status # "none" =>
          /\ rec'[x].status # "none"
          /\ rec'[x].status = "reserved" =>
               rec[x].status = "reserved" /\ rec'[x].pre = rec[x].pre
    BY <1>15 DEF HardDeleteUser, Closed
  <2>4. SweepInv'
    BY <2>1, <2>3, SweepFrame DEF IInv
  <2>. QED BY <2>2, <2>4 DEF IInv
<1>16. CASE Tick
  <2>1. UNCHANGED <<net, tnet, ustate, ses, metered, pc, sweep, unheard>>
    BY <1>16 DEF Tick
  <2>2. \A r \in Requests : rec'[r].status = rec[r].status /\ rec'[r].pre = rec[r].pre
    BY <1>16 DEF Tick
  <2>3. ASSUME NEW r \in Requests PROVE ReqOK(r)'
    <3>1. ReqOK(r)
      BY DEF IInv
    <3>. QED BY <2>1, <2>2, <3>1
           DEF ReqOK, SessionOK, ChargeMatches, TokenFollows, Trusted, Settled
  <2>4. SweepInv'
    BY <2>1, <2>2, SweepFrame DEF IInv
  <2>. QED BY <2>3, <2>4 DEF IInv
<1>17. ASSUME NEW n \in Nodes, NEW u \in Users, FlushUser(n, u) PROVE IInv'
  BY <1>12, <1>17 DEF FlushUser
<1>18. ASSUME NEW n \in Nodes, NEW t \in Tokens, FlushToken(n, t) PROVE IInv'
  BY <1>12, <1>18 DEF FlushToken
<1>19. ASSUME NEW n \in Nodes, BeginDrain(n) \/ StopUpdater(n) PROVE IInv'
  BY <1>12, <1>19 DEF BeginDrain, StopUpdater
<1>20. ASSUME NEW t \in Tokens, DeleteToken(t) PROVE IInv'
  BY <1>12, <1>20 DEF DeleteToken
<1>21. CASE UNCHANGED vars
  BY <1>12, <1>21 DEF vars
<1>22. ASSUME NEW r \in Requests, NEW target \in Targets, Reserve(r, target) PROVE IInv'
  <2>. DEFINE d == target - ses[r].pre
  <2>1. ReqOK(r) /\ rec[r].pre \in Nat /\ ses[r].pre \in Nat /\ target \in Nat
        /\ net[r] \in Int /\ tnet[r] \in Int
    BY <1>t DEF IInv, RecordType, Records, SessionType, Sessions, MoneyType
  <2>2. /\ pc[r] = "running" /\ target > ses[r].pre
        /\ UNCHANGED <<pc, metered, ustate, sweep>> /\ ~Trusted(r)
        /\ ses'[r] = NewSession("reserving", target) \/ (ses'[r] = ses[r] /\ unheard'[r])
        /\ unheard[r] \/ InSweep(r) => unheard'[r]
        /\ net'[r] = net[r] + d
        /\ r \in Playground => UNCHANGED <<rec, tnet>>
        /\ r \notin Playground =>
             /\ rec[r].status = "reserved" /\ rec'[r].status = "reserved"
             /\ rec'[r].pre = rec[r].pre + d
             /\ tnet'[r] = IF TokenOf[r] \in Unlimited THEN tnet[r] ELSE tnet[r] + d
        /\ \A x \in Requests \ {r} :
             /\ rec'[x] = rec[x] /\ net'[x] = net[x] /\ tnet'[x] = tnet[x]
             /\ ses'[x] = ses[x] /\ unheard'[x] = unheard[x]
    BY <1>22, ReserveEffect
  <2>3. ReqOK(r)'
    <3>0. ~Settled(r)' /\ ~Trusted(r)'
      BY <2>1, <2>2 DEF ReqOK, SessionOK, Settled, Trusted, NewSession
    <3>1. CASE r \in Playground
      <4>1. rec[r].status = "none" /\ rec'[r] = rec[r] /\ tnet'[r] = tnet[r]
        BY <2>1, <2>2, <3>1 DEF ReqOK, SessionOK
      <4>. QED
        BY <2>1, <2>2, <3>0, <3>1, <4>1 DEF ReqOK, SessionOK, ChargeMatches, TokenFollows
    <3>2. CASE r \notin Playground
      <4>1. net[r] = rec[r].pre /\ rec[r].pre > 0 /\ (ses[r].pre = rec[r].pre \/ unheard[r])
        BY <2>1, <2>2, <3>2 DEF ReqOK, SessionOK, ChargeMatches
      <4>2. net'[r] = rec'[r].pre /\ rec'[r].pre > 0
        BY <2>1, <2>2, <3>2, <4>1
      <4>3. tnet'[r] = IF TokenOf[r] \in Unlimited THEN 0 ELSE net'[r]
        BY <2>1, <2>2, <3>2 DEF ReqOK, TokenFollows
      <4>4. ses'[r].pre = rec'[r].pre \/ unheard'[r]
        BY <2>1, <2>2, <3>2, <4>1 DEF NewSession
      <4>. QED
        BY <2>1, <2>2, <3>0, <3>2, <4>2, <4>3, <4>4
           DEF ReqOK, SessionOK, ChargeMatches, TokenFollows
    <3>. QED BY <3>1, <3>2
  <2>4. SweepInv'
    <3>1. ASSUME NEW n \in Nodes, NEW s \in sweep[n]
          PROVE /\ rec'[s.req].status # "none"
                /\ rec'[s.req].status = "reserved" => s.pre = rec'[s.req].pre \/ unheard'[s.req]
      <4>1. /\ s.req \in Requests /\ rec[s.req].status # "none"
            /\ rec[s.req].status = "reserved" => s.pre = rec[s.req].pre \/ unheard[s.req]
        BY <3>1 DEF TypeOK, SweepType, IInv, SweepInv
      <4>2. CASE s.req = r
        <5>1. unheard'[r] /\ r \notin Playground
          BY <2>1, <2>2, <3>1, <4>1, <4>2 DEF InSweep, ReqOK, SessionOK
        <5>. QED BY <2>2, <4>2, <5>1
      <4>3. CASE s.req # r
        BY <2>2, <4>1, <4>3
      <4>. QED BY <4>2, <4>3
    <3>. QED BY <2>2, <3>1 DEF SweepInv
  <2>5. \A x \in Requests \ {r} : pc'[x] = pc[x] /\ metered'[x] = metered[x]
    BY <2>2
  <2>. QED BY <2>2, <2>3, <2>4, <2>5, OneRequest
<1>. QED
  BY <1>1, <1>2, <1>3, <1>4, <1>5, <1>6, <1>7, <1>8, <1>9, <1>10, <1>11, <1>13,
     <1>14, <1>15, <1>16, <1>17, <1>18, <1>19, <1>20, <1>21, <1>22
     DEF Next, Handler, SettleCall, Sweeper, Environment

\* The wallet and the token have given for every request exactly what its
\* record says, whatever the interleaving of handlers, refund jobs, sweepers,
\* deletions and crashes; no erased user keeps a reservation.  Handlers may
\* live past the sweeper's threshold.
THEOREM WalletSafe ==
  Spec => [](ChargeMatchesRecord /\ TokenFollowsWallet /\ NoOrphanReservation)
<1>1. TypeOK /\ TypeOK' /\ IInv /\ [Next]_vars => IInv'
  BY SafeStep
<1>2. IInv => ChargeMatchesRecord /\ TokenFollowsWallet /\ NoOrphanReservation
  BY DEF IInv, ReqOK, SessionOK, ChargeMatchesRecord, TokenFollowsWallet, NoOrphanReservation
<1>. QED
  BY <1>1, <1>2, SafeInit, WalletTypes, PTL DEF Spec

\* Outside the playground a charge is the metered amount or has a record.
THEOREM ChargesRecorded == Spec => []ChargeHasRecord
<1>1. TypeOK /\ TypeOK' /\ IInv /\ [Next]_vars => IInv'
  BY SafeStep
<1>2. IInv => ChargeHasRecord
  BY DEF IInv, ReqOK, SessionOK, ChargeHasRecord
<1>. QED
  BY <1>1, <1>2, SafeInit, WalletTypes, PTL DEF Spec

-----------------------------------------------------------------------------
(* The parts of WalletSafe on their own. *)

\* A limited token has given exactly what the wallet has given, for every
\* request with a record.
THEOREM TokenAlwaysFollows == Spec => []TokenFollowsWallet
BY WalletSafe, PTL

\* No reservation outlives the row of its user.
THEOREM OrphansNever == Spec => []NoOrphanReservation
BY WalletSafe, PTL

-----------------------------------------------------------------------------
(* What a successful Settle has charged. *)

\* A playground request has no record: while it runs, the wallet has given
\* what its session remembers.  A refund job belongs to an unsettled session.
PaysOK(r) ==
  /\ Settled(r) => net[r] = metered[r] \/ rec[r].status = "refunded" \/ unheard[r]
  /\ r \in Playground =>
       ~Trusted(r) /\ (pc[r] = "running" => net[r] = ses[r].pre \/ unheard[r])
  /\ pc[r] = "refunding" => ~Settled(r)

\* The addition to IInv that SettledPaysMetered needs.
PaysInv == \A r \in Requests : PaysOK(r)

\* A request whose session and money rest; its record may be closed.
LEMMA PaysFrame ==
  ASSUME NEW x \in Requests, PaysOK(x), pc'[x] = pc[x], ses'[x] = ses[x], net'[x] = net[x],
         metered'[x] = metered[x], rec[x].status = "refunded" => rec'[x].status = "refunded",
         unheard[x] => unheard'[x]
  PROVE  PaysOK(x)'
BY DEF PaysOK, Settled, Trusted

\* An action on one request.
LEMMA OnePays ==
  ASSUME PaysInv, NEW r \in Requests, PaysOK(r)',
         \A x \in Requests \ {r} :
           /\ rec'[x] = rec[x] /\ net'[x] = net[x]
           /\ pc'[x] = pc[x] /\ ses'[x] = ses[x] /\ metered'[x] = metered[x]
           /\ unheard'[x] = unheard[x]
  PROVE  PaysInv'
<1>1. ASSUME NEW x \in Requests, x # r PROVE PaysOK(x)'
  BY <1>1, PaysFrame DEF PaysInv
<1>. QED BY <1>1 DEF PaysInv

\* What the bookkeeping of a Settle call writes.
LEMMA SettleReturnsEffect ==
  ASSUME HandlerType, SessionType, HistoryType, NEW r \in Requests, NEW a \in Int, NEW state,
         SettleReturns(r, a, state)
  PROVE  /\ pc'[r] = "billed" /\ ses'[r].mode = ses[r].mode /\ ses'[r].state = state
         /\ metered'[r] = a
         /\ \A x \in Requests \ {r} :
              pc'[x] = pc[x] /\ ses'[x] = ses[x] /\ metered'[x] = metered[x]
BY DEF SettleReturns, HandlerType, SessionType, Sessions, HistoryType

\* The money of a handler that has not settled yet.
LEMMA RunningPaid ==
  ASSUME TypeOK, IInv, PaysInv, NEW r \in Requests, pc[r] = "running"
  PROVE  /\ rec[r].status \in {"none", "reserved", "refunded"}
         /\ rec[r].status # "refunded" => net[r] = ses[r].pre \/ unheard[r]
         /\ Trusted(r) => net[r] = 0 /\ rec[r].status = "none"
<1>1. ReqOK(r) /\ PaysOK(r) /\ RecordType
  BY DEF IInv, PaysInv, TypeOK
<1>2. rec[r].status \in {"none", "reserved", "refunded"}
  BY <1>1 DEF ReqOK, SessionOK, RecordType, Records, Statuses, Terminal
<1>3. CASE r \in Playground
  BY <1>1, <1>2, <1>3 DEF ReqOK, SessionOK, PaysOK
<1>4. CASE r \notin Playground
  BY <1>1, <1>2, <1>4 DEF ReqOK, SessionOK, ChargeMatches
<1>. QED BY <1>2, <1>3, <1>4

\* A step keeps PaysInv.
LEMMA PaysStep ==
  ASSUME TypeOK, IInv, PaysInv, [Next]_vars
  PROVE  PaysInv'
<1>. USE WalletConstants DEF db, mem, hist
<1>t. MoneyType /\ RecordType /\ SessionType /\ HandlerType /\ HistoryType
  BY DEF TypeOK
<1>r. ASSUME NEW r \in Requests
      PROVE  ReqOK(r) /\ PaysOK(r) /\ ses[r].pre \in Nat /\ net[r] \in Int
  BY <1>t DEF IInv, PaysInv, SessionType, Sessions, MoneyType
<1>1. ASSUME NEW r \in Requests, NEW q \in PreQuotas, NEW f \in BOOLEAN, TryWallet(r, q, f)
      PROVE PaysInv'
  <2>1. /\ pc[r] = "idle" /\ UNCHANGED <<rec, net, metered, unheard>>
        /\ \A x \in Requests \ {r} : pc'[x] = pc[x] /\ ses'[x] = ses[x]
    BY <1>1, <1>t DEF TryWallet, HandlerType, SessionType
  <2>2. net[r] = 0 /\ ~Settled(r)
    BY <1>r, <2>1 DEF ReqOK, SessionOK
  <2>3. \/ pc'[r] = "ended" /\ UNCHANGED ses
        \/ pc'[r] = "running" /\ ses'[r] = NewSession("trusted", 0) /\ r \notin Playground
        \/ pc'[r] = "running" /\ ses'[r] = NewSession("reserving", q) /\ q = 0
        \/ pc'[r] = "checked" /\ ses'[r] = NewSession("reserving", q)
    <3>1. CASE ReadQuota(r) <= 0 \/ ReadQuota(r) < q
      BY <1>1, <1>t, <3>1 DEF TryWallet, HandlerType, SessionType
    <3>2. CASE ~(ReadQuota(r) <= 0 \/ ReadQuota(r) < q) /\ ~f /\ Trusts(r, q)
      BY <1>1, <1>t, <3>2 DEF TryWallet, HandlerType, SessionType, Trusts
    <3>3. CASE ~(ReadQuota(r) <= 0 \/ ReadQuota(r) < q) /\ ~(~f /\ Trusts(r, q))
      BY <1>1, <1>t, <3>3 DEF TryWallet, HandlerType, SessionType
    <3>. QED BY <3>1, <3>2, <3>3
  <2>4. PaysOK(r)'
    BY <1>r, <2>1, <2>2, <2>3 DEF PaysOK, Settled, Trusted, NewSession
  <2>. QED BY <2>1, <2>4, OnePays
<1>2. ASSUME NEW r \in Requests, PreConsume(r) PROVE PaysInv'
  <2>1. /\ pc[r] = "checked" /\ UNCHANGED <<metered, unheard>> /\ MoveWallet(r, ses[r].pre)
        /\ \/ pc'[r] = "running" /\ UNCHANGED ses
           \/ pc'[r] = "ended" /\ ses'[r] = NoSession
        /\ \A x \in Requests \ {r} : pc'[x] = pc[x] /\ ses'[x] = ses[x] /\ rec'[x] = rec[x]
    BY <1>2, <1>t DEF PreConsume, HandlerType, SessionType, RecordType
  <2>2. net'[r] = net[r] + ses[r].pre /\ \A x \in Requests \ {r} : net'[x] = net[x]
    BY <1>t, <1>r, <2>1 DEF MoveWallet, MoneyType
  <2>3. net[r] = 0 /\ ~Settled(r) /\ ~Trusted(r)
    BY <1>r, <2>1 DEF ReqOK, SessionOK
  <2>4. PaysOK(r)'
    BY <1>r, <2>1, <2>2, <2>3 DEF PaysOK, Settled, Trusted, NoSession, NewSession
  <2>. QED BY <2>1, <2>2, <2>4, OnePays
<1>3. ASSUME NEW r \in Requests, PreConsumeFails(r) PROVE PaysInv'
  <2>1. /\ UNCHANGED <<rec, net, metered, unheard>> /\ pc'[r] = "ended" /\ ses'[r] = NoSession
        /\ \A x \in Requests \ {r} : pc'[x] = pc[x] /\ ses'[x] = ses[x]
    BY <1>3, <1>t DEF PreConsumeFails, HandlerType, SessionType
  <2>2. PaysOK(r)'
    BY <2>1 DEF PaysOK, Settled, Trusted, NoSession, NewSession
  <2>. QED BY <2>1, <2>2, OnePays
<1>4. ASSUME NEW r \in Requests, NEW a \in Actuals, SettleReserved(r, a) PROVE PaysInv'
  <2>1. /\ pc[r] = "running" /\ ~Trusted(r) /\ UNCHANGED unheard
        /\ \E state : SettleReturns(r, a, state)
    BY <1>4 DEF SettleReserved
  <2>2. /\ pc'[r] = "billed" /\ ses'[r].mode = ses[r].mode /\ metered'[r] = a
        /\ \A x \in Requests \ {r} : pc'[x] = pc[x] /\ ses'[x] = ses[x] /\ metered'[x] = metered[x]
    <3>1. a \in Int
      OBVIOUS
    <3>. QED BY <1>t, <2>1, <3>1, SettleReturnsEffect
  <2>3. a - ses[r].pre \in Int /\ a \in Nat
    <3>1. ses[r].pre \in Nat
      BY <1>r
    <3>2. a \in Nat
      OBVIOUS
    <3>. QED BY <3>1, <3>2
  <2>4. /\ rec[r].status \in {"none", "reserved", "refunded"}
        /\ rec[r].status # "refunded" => net[r] = ses[r].pre \/ unheard[r]
    BY <2>1, RunningPaid
  <2>5. /\ \A x \in Requests \ {r} : rec'[x] = rec[x] /\ net'[x] = net[x]
        /\ net'[r] = a \/ rec'[r].status = "refunded" \/ unheard[r]
    <3>1. CASE r \notin Playground
      <4>1. FinalizeUserTokenQuota(r, a - ses[r].pre, "settled")
        BY <1>4, <3>1 DEF SettleReserved
      <4>. QED BY <1>r, <1>t, <2>3, <2>4, <4>1, FinalizeEffect DEF Terminal
    <3>2. CASE r \in Playground
      <4>1. MoveWallet(r, a - ses[r].pre) /\ UNCHANGED rec /\ rec[r].status = "none"
        BY <1>4, <1>r, <3>2 DEF SettleReserved, ReqOK, SessionOK
      <4>. QED BY <1>r, <1>t, <2>3, <2>4, <4>1 DEF MoveWallet, MoneyType
    <3>. QED BY <3>1, <3>2
  <2>6. PaysOK(r)'
    BY <1>r, <2>1, <2>2, <2>5 DEF PaysOK, Settled, Trusted
  <2>. QED BY <2>1, <2>2, <2>5, <2>6, OnePays
<1>5. ASSUME NEW r \in Requests, NEW a \in Actuals, SettleBatched(r, a) \/ SettleDirect(r, a)
      PROVE PaysInv'
  <2>1. /\ pc[r] = "running" /\ Trusted(r) /\ UNCHANGED <<rec, unheard>>
        /\ \E state : SettleReturns(r, a, state)
    BY <1>5 DEF SettleBatched, SettleDirect
  <2>2. /\ pc'[r] = "billed" /\ ses'[r].mode = ses[r].mode /\ metered'[r] = a
        /\ \A x \in Requests \ {r} : pc'[x] = pc[x] /\ ses'[x] = ses[x] /\ metered'[x] = metered[x]
    <3>1. a \in Int
      OBVIOUS
    <3>. QED BY <1>t, <2>1, <3>1, SettleReturnsEffect
  <2>3. net'[r] = net[r] + a /\ \A x \in Requests \ {r} : net'[x] = net[x]
    BY <1>5, <1>t DEF SettleBatched, SettleDirect, MoveWallet, MoneyType
  <2>4. net[r] = 0 /\ a \in Nat
    BY <2>1, RunningPaid
  <2>5. PaysOK(r)'
    BY <1>r, <2>1, <2>2, <2>3, <2>4 DEF PaysOK, Settled, Trusted
  <2>. QED BY <2>1, <2>2, <2>3, <2>5, OnePays
<1>6. ASSUME NEW r \in Requests, NEW a \in Actuals, SettleNothing(r, a) PROVE PaysInv'
  <2> DEFINE state == IF Trusted(r) /\ a = 0 THEN "settled" ELSE "open"
  <2>1. pc[r] = "running" /\ UNCHANGED <<rec, net, unheard>> /\ SettleReturns(r, a, state)
    BY <1>6 DEF SettleNothing
  <2>2. /\ pc'[r] = "billed" /\ ses'[r].mode = ses[r].mode /\ metered'[r] = a
        /\ ses'[r].state = state
        /\ \A x \in Requests \ {r} : pc'[x] = pc[x] /\ ses'[x] = ses[x] /\ metered'[x] = metered[x]
    <3>1. a \in Int
      OBVIOUS
    <3>. QED BY <1>t, <2>1, <3>1, SettleReturnsEffect
  <2>3. Trusted(r) => net[r] = 0
    BY <2>1, RunningPaid
  <2>4. PaysOK(r)'
    BY <1>r, <2>1, <2>2, <2>3 DEF PaysOK, Settled, Trusted
  <2>. QED BY <2>1, <2>2, <2>4, OnePays
<1>7. ASSUME NEW r \in Requests, Refund(r) \/ Finish(r) \/ RefundJobFails(r) PROVE PaysInv'
  <2>1. /\ UNCHANGED <<rec, net, ses, metered, unheard>>
        /\ pc'[r] \in {"refunding", "ended", "answered"} /\ (pc'[r] = "refunding" => ~Settled(r))
        /\ \A x \in Requests \ {r} : pc'[x] = pc[x]
    BY <1>7, <1>t DEF Refund, Finish, RefundJobFails, NeedsRefund, HandlerType
  <2>2. PaysOK(r)'
    BY <1>r, <2>1 DEF PaysOK, Settled, Trusted
  <2>. QED BY <2>1, <2>2, OnePays
<1>8. ASSUME NEW r \in Requests, RefundJob(r) PROVE PaysInv'
  <2>1. /\ UNCHANGED <<ses, metered, unheard>> /\ pc[r] = "refunding" /\ pc'[r] = "ended"
        /\ \A x \in Requests \ {r} : pc'[x] = pc[x]
    BY <1>8, <1>t DEF RefundJob, HandlerType
  <2>2. -ses[r].pre \in Int
    BY <1>r
  <2>3. \A x \in Requests \ {r} : rec'[x] = rec[x] /\ net'[x] = net[x]
    <3>1. CASE r \notin Playground
      BY <1>8, <1>t, <2>2, <3>1, FinalizeEffect DEF RefundJob, Terminal
    <3>2. CASE r \in Playground
      BY <1>8, <1>t, <3>2 DEF RefundJob, MoveWallet, MoneyType
    <3>. QED BY <3>1, <3>2
  <2>4. PaysOK(r)'
    BY <1>r, <2>1 DEF PaysOK, Settled, Trusted
  <2>. QED BY <2>1, <2>3, <2>4, OnePays
<1>9. ASSUME NEW n \in Nodes, NEW s \in sweep[n], SweepRefund(n, s) PROVE PaysInv'
  <2> DEFINE r == s.req
  <2>1. r \in Requests /\ -s.pre \in Int /\ UNCHANGED <<pc, ses, metered, unheard>>
    BY <1>9 DEF TypeOK, SweepType, SweepRefund
  <2>2. CASE rec[r].status = "reserved"
    <3>1. /\ rec'[r].status = "refunded"
          /\ \A x \in Requests \ {r} : rec'[x] = rec[x] /\ net'[x] = net[x]
      BY <1>9, <1>t, <2>1, <2>2, MoveEffect DEF SweepRefund, RecordType, Records, Closed
    <3>2. /\ PaysOK(r) /\ ReqOK(r)
      BY <1>r, <2>1
    <3>3. r \notin Playground
      BY <2>2, <3>2 DEF ReqOK, SessionOK
    <3>4. PaysOK(r)'
      BY <2>1, <3>1, <3>2, <3>3 DEF PaysOK, Settled, Trusted
    <3>. QED BY <2>1, <3>1, <3>4, OnePays
  <2>3. CASE rec[r].status # "reserved"
    <3>1. UNCHANGED <<rec, net>>
      BY <1>9, <2>3 DEF SweepRefund, KeepMoney
    <3>. QED BY <2>1, <3>1, PaysFrame DEF PaysInv
  <2>. QED BY <2>2, <2>3
<1>10. ASSUME NEW n \in Nodes, Crash(n) PROVE PaysInv'
  <2>1. UNCHANGED <<rec, net, metered, unheard>>
    BY <1>10 DEF Crash
  <2>2. ASSUME NEW r \in Requests PROVE PaysOK(r)'
    <3>1. CASE Killed(r, n)
      <4>1. pc'[r] = "ended" /\ ses'[r] = NoSession
        BY <1>10, <3>1 DEF Crash
      <4>. QED BY <4>1 DEF PaysOK, Settled, Trusted, NoSession, NewSession
    <3>2. CASE ~Killed(r, n)
      <4>1. pc'[r] = pc[r] /\ ses'[r] = ses[r]
        BY <1>10, <3>2 DEF Crash
      <4>. QED BY <1>r, <2>1, <4>1, PaysFrame
    <3>. QED BY <3>1, <3>2
  <2>. QED BY <2>2 DEF PaysInv
<1>11. ASSUME UNCHANGED <<pc, ses, net, metered, unheard>>,
              \A x \in Requests : rec[x].status = "refunded" => rec'[x].status = "refunded"
       PROVE  PaysInv'
  BY <1>11, PaysFrame DEF PaysInv
<1>12. ASSUME NEW u \in Users, HardDeleteUser(u) PROVE PaysInv'
  <2>1. \A x \in Requests : rec[x].status = "refunded" => rec'[x].status = "refunded"
    BY <1>12 DEF HardDeleteUser, Closed
  <2>. QED BY <1>11, <1>12, <2>1 DEF HardDeleteUser
<1>13. CASE Tick
  <2>1. \A x \in Requests : rec'[x].status = rec[x].status
    BY <1>13 DEF Tick
  <2>. QED BY <1>11, <1>13, <2>1 DEF Tick
<1>14. ASSUME UNCHANGED <<rec, pc, ses, net, metered, unheard>> PROVE PaysInv'
  BY <1>11, <1>14
<1>15. ASSUME NEW n \in Nodes, SweepFind(n) \/ BeginDrain(n) \/ StopUpdater(n) PROVE PaysInv'
  BY <1>14, <1>15 DEF SweepFind, BeginDrain, StopUpdater
<1>16. ASSUME NEW n \in Nodes, NEW s \in sweep[n], SweepSkip(n, s) PROVE PaysInv'
  BY <1>14, <1>16 DEF SweepSkip
<1>17. ASSUME NEW n \in Nodes, NEW u \in Users, FlushUser(n, u) PROVE PaysInv'
  BY <1>14, <1>17 DEF FlushUser
<1>18. ASSUME NEW n \in Nodes, NEW t \in Tokens, FlushToken(n, t) PROVE PaysInv'
  BY <1>14, <1>18 DEF FlushToken
<1>19. ASSUME NEW u \in Users, SoftDeleteUser(u) PROVE PaysInv'
  BY <1>14, <1>19 DEF SoftDeleteUser
<1>20. ASSUME NEW t \in Tokens, DeleteToken(t) PROVE PaysInv'
  BY <1>14, <1>20 DEF DeleteToken
<1>21. CASE UNCHANGED vars
  BY <1>14, <1>21 DEF vars
<1>22. ASSUME NEW r \in Requests, NEW target \in Targets, Reserve(r, target) PROVE PaysInv'
  <2>2. /\ pc[r] = "running" /\ UNCHANGED <<pc, metered>> /\ target \in Nat
        /\ ses'[r] = NewSession("reserving", target) \/ (ses'[r] = ses[r] /\ unheard'[r])
        /\ unheard[r] => unheard'[r]
        /\ net'[r] = net[r] + (target - ses[r].pre) /\ ~Trusted(r)
        /\ \A x \in Requests \ {r} :
             /\ rec'[x] = rec[x] /\ net'[x] = net[x]
             /\ ses'[x] = ses[x] /\ unheard'[x] = unheard[x]
    BY <1>22, ReserveEffect
  <2>3. r \in Playground => net'[r] = ses'[r].pre \/ unheard'[r]
    BY <1>r, <2>2 DEF PaysOK, NewSession
  <2>4. ~Settled(r) /\ ~Settled(r)' /\ ~Trusted(r)'
    BY <1>r, <2>2 DEF ReqOK, SessionOK, Settled, Trusted, NewSession
  <2>5. PaysOK(r)'
    BY <2>2, <2>3, <2>4 DEF PaysOK
  <2>. QED BY <2>2, <2>5, OnePays
<1>. QED
  BY <1>1, <1>2, <1>3, <1>4, <1>5, <1>6, <1>7, <1>8, <1>9, <1>10, <1>12, <1>13, <1>15,
     <1>16, <1>17, <1>18, <1>19, <1>20, <1>21, <1>22
     DEF Next, Handler, SettleCall, Sweeper, Environment

\* A Settle that has succeeded has charged exactly what was metered, trusted or
\* reserved, batched or direct, unless the sweeper or the deletion of the user
\* had closed the record before.
THEOREM SettledAlwaysPays == Spec => []SettledPaysMetered
<1>1. Init => PaysInv
  BY DEF Init, PaysInv, PaysOK, Settled, Trusted, NoSession, NewSession
<1>2. TypeOK /\ TypeOK' /\ IInv /\ [Next]_vars => IInv'
  BY SafeStep
<1>3. TypeOK /\ IInv /\ PaysInv /\ [Next]_vars => PaysInv'
  BY PaysStep
<1>4. PaysInv => SettledPaysMetered
  BY DEF PaysInv, PaysOK, SettledPaysMetered
<1>. QED
  BY <1>1, <1>2, <1>3, <1>4, SafeInit, WalletTypes, PTL DEF Spec

-----------------------------------------------------------------------------
(* No overdraft without the trust bypass. *)

\* Balances are not negative, and nothing goes round the balance guard: no
\* session is trusted, so no debt waits in a batch updater.
FundsInv ==
  /\ \A u \in Users : quota[u] >= 0
  /\ \A t \in Tokens : remain[t] >= 0
  /\ \A r \in Requests : ~Trusted(r)
  /\ \A k \in Nodes \X Users : pend[k] = 0
  /\ \A k \in Nodes \X Tokens : tpend[k] = 0

\* A move that both guards admit leaves no balance negative.
LEMMA MoveSafe ==
  ASSUME MoneyType, FundsInv, NEW r \in Requests, NEW d \in Int,
         WalletAdmits(r, d), TokenAdmits(r, d), MoveWallet(r, d), MoveToken(r, d)
  PROVE  (\A u \in Users : quota'[u] >= 0) /\ (\A t \in Tokens : remain'[t] >= 0)
<1>1. UserOf[r] \in Users /\ TokenOf[r] \in Tokens
  BY WalletConstants
<1>2. \A u \in Users : quota'[u] >= 0
  BY <1>1 DEF MoneyType, FundsInv, WalletAdmits, MoveWallet
<1>3. \A t \in Tokens : remain'[t] >= 0
  BY <1>1 DEF MoneyType, FundsInv, TokenAdmits, MoveToken
<1>. QED BY <1>2, <1>3

\* So does a move of the playground, under its own guard.
LEMMA PlainMoveSafe ==
  ASSUME MoneyType, FundsInv, NEW r \in Requests, NEW d \in Int,
         PlainWalletAdmits(r, d), MoveWallet(r, d)
  PROVE  \A u \in Users : quota'[u] >= 0
<1>1. UserOf[r] \in Users
  BY WalletConstants
<1>. QED BY <1>1 DEF MoneyType, FundsInv, PlainWalletAdmits, MoveWallet

\* And FinalizeUserTokenQuota, whether it claims the record or not.
LEMMA FinalizeSafe ==
  ASSUME MoneyType, FundsInv, NEW r \in Requests, NEW d \in Int, NEW status,
         FinalizeUserTokenQuota(r, d, status)
  PROVE  (\A u \in Users : quota'[u] >= 0) /\ (\A t \in Tokens : remain'[t] >= 0)
<1>1. CASE Claims(r)
  BY <1>1, MoveSafe DEF FinalizeUserTokenQuota, FinalizeAdmits
<1>2. CASE ~Claims(r)
  BY <1>2 DEF FinalizeUserTokenQuota, KeepMoney, FundsInv
<1>. QED BY <1>1, <1>2

\* Every step keeps balances from going negative.
LEMMA FundsStep ==
  ASSUME TrustThreshold = 0, TypeOK, FundsInv, [Next]_vars
  PROVE  FundsInv'
<1>. USE WalletConstants DEF db, mem, hist
<1>t. MoneyType /\ SessionType /\ BatchType /\ SweepType
  BY DEF TypeOK
<1>0. ASSUME UNCHANGED <<quota, remain, pend, tpend>>,
             \A r \in Requests : ses'[r].mode = ses[r].mode \/ ses'[r] = NoSession
      PROVE FundsInv'
  BY <1>0 DEF FundsInv, Trusted, NoSession, NewSession
<1>1. ASSUME NEW r \in Requests, NEW q \in PreQuotas, NEW f \in BOOLEAN, TryWallet(r, q, f)
      PROVE FundsInv'
  <2>1. ~Trusts(r, q)
    BY DEF Trusts
  <2>2. \A x \in Requests : ses'[x] = ses[x] \/ ses'[x] = NewSession("reserving", q)
    BY <1>1, <1>t, <2>1 DEF TryWallet, SessionType
  <2>. QED BY <1>1, <2>2 DEF TryWallet, FundsInv, Trusted, NewSession
<1>2. ASSUME NEW r \in Requests, PreConsume(r) PROVE FundsInv'
  <2>1. ses[r].pre \in Int
    BY <1>t DEF SessionType, Sessions
  <2>2. /\ UNCHANGED <<pend, tpend>>
        /\ \A x \in Requests : ses'[x] = ses[x] \/ ses'[x] = NoSession
    BY <1>2, <1>t DEF PreConsume, SessionType
  <2>3. (\A u \in Users : quota'[u] >= 0) /\ (\A t \in Tokens : remain'[t] >= 0)
    <3>1. CASE r \in Playground
      BY <1>2, <1>t, <2>1, <3>1, PlainMoveSafe DEF PreConsume, FundsInv
    <3>2. CASE r \notin Playground
      BY <1>2, <1>t, <2>1, <3>2, MoveSafe DEF PreConsume
    <3>. QED BY <3>1, <3>2
  <2>. QED BY <2>2, <2>3 DEF FundsInv, Trusted, NoSession, NewSession
<1>3. ASSUME NEW r \in Requests, NEW g \in Targets, Reserve(r, g) PROVE FundsInv'
  <2>1. g - ses[r].pre \in Int
    BY <1>t DEF SessionType, Sessions
  <2>2. /\ UNCHANGED <<pend, tpend>>
        /\ \A x \in Requests : ses'[x] = ses[x] \/ ses'[x] = NewSession("reserving", g)
    BY <1>3, <1>t DEF Reserve, SessionType
  <2>3. (\A u \in Users : quota'[u] >= 0) /\ (\A t \in Tokens : remain'[t] >= 0)
    <3>1. CASE r \in Playground
      BY <1>3, <1>t, <2>1, <3>1, PlainMoveSafe DEF Reserve, FundsInv
    <3>2. CASE r \notin Playground
      BY <1>3, <1>t, <2>1, <3>2, MoveSafe DEF Reserve
    <3>. QED BY <3>1, <3>2
  <2>. QED BY <2>2, <2>3 DEF FundsInv, Trusted, NewSession
<1>4. ASSUME NEW r \in Requests, NEW a \in Actuals, NEW state, SettleReturns(r, a, state)
      PROVE \A x \in Requests : ses'[x].mode = ses[x].mode
  BY <1>4, <1>t DEF SettleReturns, SessionType
<1>5. ASSUME NEW r \in Requests, NEW a \in Actuals, SettleReserved(r, a) PROVE FundsInv'
  <2>1. a - ses[r].pre \in Int
    BY <1>t DEF SessionType, Sessions
  <2>2. UNCHANGED <<pend, tpend>> /\ \A x \in Requests : ses'[x].mode = ses[x].mode
    BY <1>4, <1>5 DEF SettleReserved
  <2>3. (\A u \in Users : quota'[u] >= 0) /\ (\A t \in Tokens : remain'[t] >= 0)
    <3>1. CASE r \in Playground
      BY <1>5, <1>t, <2>1, <3>1, PlainMoveSafe DEF SettleReserved, FundsInv
    <3>2. CASE r \notin Playground
      BY <1>5, <1>t, <2>1, <3>2, FinalizeSafe DEF SettleReserved
    <3>. QED BY <3>1, <3>2
  <2>. QED BY <2>2, <2>3 DEF FundsInv, Trusted
<1>6. ASSUME NEW r \in Requests, NEW a \in Actuals, SettleBatched(r, a) \/ SettleDirect(r, a)
      PROVE FundsInv'
  BY <1>6 DEF SettleBatched, SettleDirect, FundsInv
<1>7. ASSUME NEW r \in Requests, NEW a \in Actuals, SettleNothing(r, a) PROVE FundsInv'
  <2>1. \A x \in Requests : ses'[x].mode = ses[x].mode
    BY <1>4, <1>7 DEF SettleNothing
  <2>. QED BY <1>0, <1>7, <2>1 DEF SettleNothing
<1>8. ASSUME NEW r \in Requests, RefundJob(r) PROVE FundsInv'
  <2>1. -ses[r].pre \in Int
    BY <1>t DEF SessionType, Sessions
  <2>2. (\A u \in Users : quota'[u] >= 0) /\ (\A t \in Tokens : remain'[t] >= 0)
    <3>1. CASE r \in Playground
      BY <1>8, <1>t, <2>1, <3>1, PlainMoveSafe DEF RefundJob, FundsInv
    <3>2. CASE r \notin Playground
      BY <1>8, <1>t, <2>1, <3>2, FinalizeSafe DEF RefundJob
    <3>. QED BY <3>1, <3>2
  <2>. QED BY <1>8, <2>2 DEF RefundJob, FundsInv, Trusted
<1>9. ASSUME NEW n \in Nodes, NEW s \in sweep[n], SweepRefund(n, s) PROVE FundsInv'
  <2>1. s.req \in Requests /\ -s.pre \in Int
    BY <1>t DEF SweepType
  <2>2. (\A u \in Users : quota'[u] >= 0) /\ (\A t \in Tokens : remain'[t] >= 0)
    <3>1. CASE rec[s.req].status = "reserved"
      BY <1>9, <1>t, <2>1, <3>1, MoveSafe DEF SweepRefund
    <3>2. CASE rec[s.req].status # "reserved"
      BY <1>9, <3>2 DEF SweepRefund, KeepMoney, FundsInv
    <3>. QED BY <3>1, <3>2
  <2>. QED BY <1>9, <2>2 DEF SweepRefund, FundsInv, Trusted
<1>10. ASSUME NEW n \in Nodes, NEW u \in Users, FlushUser(n, u) PROVE FundsInv'
  BY <1>10 DEF FlushUser, FundsInv
<1>11. ASSUME NEW n \in Nodes, NEW t \in Tokens, FlushToken(n, t) PROVE FundsInv'
  BY <1>11 DEF FlushToken, FundsInv
<1>12. ASSUME NEW n \in Nodes, Crash(n) PROVE FundsInv'
  <2>1. \A x \in Requests : ses'[x] = ses[x] \/ ses'[x] = NoSession
    BY <1>12 DEF Crash
  <2>2. (\A k \in Nodes \X Users : pend'[k] = 0) /\ (\A k \in Nodes \X Tokens : tpend'[k] = 0)
    BY <1>12 DEF Crash, FundsInv
  <2>. QED BY <1>12, <2>1, <2>2 DEF Crash, FundsInv, Trusted, NoSession, NewSession
<1>13. ASSUME NEW r \in Requests, PreConsumeFails(r) \/ Refund(r) \/ RefundJobFails(r) \/ Finish(r)
       PROVE FundsInv'
  <2>1. \A x \in Requests : ses'[x] = ses[x] \/ ses'[x] = NoSession
    BY <1>13, <1>t DEF PreConsumeFails, Refund, RefundJobFails, Finish, SessionType
  <2>. QED BY <1>0, <1>13, <2>1 DEF PreConsumeFails, Refund, RefundJobFails, Finish
<1>14. ASSUME NEW n \in Nodes,
              SweepFind(n) \/ (\E s \in sweep[n] : SweepSkip(n, s)) \/ BeginDrain(n) \/ StopUpdater(n)
       PROVE FundsInv'
  BY <1>0, <1>14 DEF SweepFind, SweepSkip, BeginDrain, StopUpdater
<1>15. CASE \E u \in Users : SoftDeleteUser(u) \/ HardDeleteUser(u)
  BY <1>0, <1>15 DEF SoftDeleteUser, HardDeleteUser
<1>16. CASE Tick \/ (\E t \in Tokens : DeleteToken(t)) \/ UNCHANGED vars
  BY <1>0, <1>16 DEF Tick, DeleteToken, vars
<1>. QED
  BY <1>1, <1>2, <1>3, <1>5, <1>6, <1>7, <1>8, <1>9, <1>10, <1>11, <1>12, <1>13,
     <1>14, <1>15, <1>16
     DEF Next, Handler, SettleCall, Sweeper, Environment

\* Without the trust bypass no wallet and no token is ever overdrawn, however
\* many requests race between the admission test and the transaction that
\* takes the money.
THEOREM Solvent == Spec => []NoOverdraft
<1>1. CASE TrustThreshold = 0
  <2>1. Init => FundsInv
    BY WalletConstants DEF Init, FundsInv, Trusted, NoSession, NewSession
  <2>2. TypeOK /\ FundsInv /\ [Next]_vars => FundsInv'
    BY <1>1, FundsStep
  <2>3. FundsInv => NoOverdraft
    BY DEF FundsInv, NoOverdraft
  <2>. QED BY <2>1, <2>2, <2>3, WalletTypes, PTL DEF Spec
<1>2. CASE TrustThreshold # 0
  <2>1. NoOverdraft
    BY <1>2 DEF NoOverdraft
  <2>. QED BY <2>1, PTL
<1>. QED BY <1>1, <1>2

-----------------------------------------------------------------------------
(* Refinement: the account of a request (module RequestAccount). *)

acctBar == [r \in Requests |-> AccountOf(r)]

\* A step that r's account does not see.
SameAccount(x) ==
  rec'[x].status = rec[x].status /\ (rec[x].status # "none" => net'[x] = net[x])

\* What may become of the record and the net charge of one request.
Holds(r)   == /\ rec[r].status = "none" /\ rec'[r].status = "reserved"
              /\ net'[r] \in PreQuotas /\ net'[r] > 0
Charges(r) == /\ rec[r].status = "reserved" /\ rec'[r].status = "settled"
              /\ net'[r] \in Actuals
Returns(r) == /\ rec[r].status = "reserved" /\ rec'[r].status = "refunded"
              /\ net'[r] = 0

\* A request whose account stays.
LEMMA AccountFrame ==
  ASSUME NEW x \in Requests, SameAccount(x)
  PROVE  acctBar'[x] = acctBar[x]
BY DEF acctBar, SameAccount, AccountOf

\* A step that leaves every account alone is a stutter.
LEMMA AccountStutter ==
  ASSUME \A x \in Requests : SameAccount(x)
  PROVE  UNCHANGED acctBar
<1>1. \A x \in Requests : acctBar'[x] = acctBar[x]
  BY AccountFrame
<1>. QED BY <1>1 DEF acctBar

\* A step that moves one account is a Hold, a Charge or a Return.
LEMMA AccountMove ==
  ASSUME NEW r \in Requests, Holds(r) \/ Charges(r) \/ Returns(r),
         \A x \in Requests \ {r} : SameAccount(x)
  PROVE  Account!Next
<1>1. \A x \in Requests \ {r} : acctBar'[x] = acctBar[x]
  BY AccountFrame
<1>2. CASE Holds(r)
  <2>1. acctBar[r].st = "none" /\ acctBar'[r] = [st |-> "held", amt |-> net'[r]]
    BY <1>2 DEF acctBar, AccountOf, Holds
  <2>2. acctBar' = [acctBar EXCEPT ![r] = [st |-> "held", amt |-> net'[r]]]
    BY <1>1, <2>1 DEF acctBar
  <2>3. Account!Hold(r, net'[r])
    BY <1>2, <2>1, <2>2 DEF Account!Hold, acctBar, Holds
  <2>. QED BY <1>2, <2>3 DEF Account!Next, Holds
<1>3. CASE Charges(r)
  <2>1. acctBar[r].st = "held" /\ acctBar'[r] = [st |-> "charged", amt |-> net'[r]]
    BY <1>3 DEF acctBar, AccountOf, Charges
  <2>2. acctBar' = [acctBar EXCEPT ![r] = [st |-> "charged", amt |-> net'[r]]]
    BY <1>1, <2>1 DEF acctBar
  <2>3. Account!Charge(r, net'[r])
    BY <1>3, <2>1, <2>2 DEF Account!Charge, acctBar, Charges
  <2>. QED BY <1>3, <2>3 DEF Account!Next, Charges
<1>4. CASE Returns(r)
  <2>1. acctBar[r].st = "held" /\ acctBar'[r] = [st |-> "returned", amt |-> 0]
    BY <1>4 DEF acctBar, AccountOf, Returns
  <2>2. acctBar' = [acctBar EXCEPT ![r] = [st |-> "returned", amt |-> 0]]
    BY <1>1, <2>1 DEF acctBar
  <2>3. Account!Return(r)
    BY <1>4, <2>1, <2>2 DEF Account!Return, acctBar, Returns
  <2>. QED BY <1>4, <2>3 DEF Account!Next, Returns
<1>. QED BY <1>2, <1>3, <1>4

\* Without top-ups no session and no sweep misses one.
AllHeard == \A r \in Requests : ~unheard[r]

\* Only a top-up goes unheard.
LEMMA AllHeardStep ==
  ASSUME Targets = {}, AllHeard, [Next]_vars
  PROVE  AllHeard'
<1>. USE DEF db, mem, hist
<1>1. ASSUME UNCHANGED unheard PROVE AllHeard'
  BY <1>1 DEF AllHeard
<1>2. ASSUME NEW r \in Requests, Handler(r) \/ RefundJob(r) \/ RefundJobFails(r) PROVE UNCHANGED unheard
  BY <1>2 DEF Handler, TryWallet, PreConsume, PreConsumeFails, SettleCall, SettleReserved, SettleBatched,
              SettleDirect, SettleNothing, Refund, Finish, RefundJob, RefundJobFails
<1>3. ASSUME NEW n \in Nodes, Sweeper(n) PROVE UNCHANGED unheard
  BY <1>3 DEF Sweeper, SweepFind, SweepRefund, SweepSkip
<1>4. ASSUME NEW n \in Nodes, \/ \E u \in Users : FlushUser(n, u)
                           \/ \E t \in Tokens : FlushToken(n, t)
      PROVE UNCHANGED unheard
  BY <1>4 DEF FlushUser, FlushToken
<1>5. CASE Environment
  BY <1>1, <1>5 DEF Environment, BeginDrain, StopUpdater, Crash, SoftDeleteUser, HardDeleteUser, DeleteToken
<1>6. CASE Tick \/ UNCHANGED vars
  BY <1>1, <1>6 DEF Tick, vars
<1>. QED BY <1>1, <1>2, <1>3, <1>4, <1>5, <1>6 DEF Next

\* Every step of the implementation is a step of the account, or a stutter.
LEMMA AccountStep ==
  ASSUME Targets = {}, AllHeard, TypeOK, IInv, [Next]_vars
  PROVE  Account!Next \/ UNCHANGED acctBar
<1>. USE WalletConstants DEF db, mem, hist
<1>t. MoneyType /\ RecordType /\ SessionType /\ SweepType
  BY DEF TypeOK
<1>0. ASSUME UNCHANGED <<rec, net>> PROVE UNCHANGED acctBar
  BY <1>0, AccountStutter DEF SameAccount
<1>n. ASSUME NEW r \in Requests, rec[r].status = "none", UNCHANGED rec,
             \A x \in Requests \ {r} : net'[x] = net[x]
      PROVE UNCHANGED acctBar
  BY <1>n, AccountStutter DEF SameAccount
<1>w. ASSUME NEW r \in Requests, NEW d \in Int, MoveWallet(r, d)
      PROVE net'[r] = net[r] + d /\ \A x \in Requests \ {r} : net'[x] = net[x]
  BY <1>w, <1>t DEF MoneyType, MoveWallet
<1>f. ASSUME NEW r \in Requests, NEW d \in Int, NEW status \in Terminal,
             FinalizeUserTokenQuota(r, d, status),
             rec[r].status = "reserved" =>
               \/ status = "settled" /\ net[r] + d \in Actuals
               \/ status = "refunded" /\ net[r] + d = 0
      PROVE Account!Next \/ UNCHANGED acctBar
  <2>1. \A x \in Requests \ {r} : SameAccount(x)
    BY <1>f, <1>t, FinalizeEffect DEF SameAccount
  <2>2. CASE rec[r].status = "reserved"
    <3>1. Charges(r) \/ Returns(r)
      BY <1>f, <1>t, <2>2, FinalizeEffect DEF Charges, Returns
    <3>. QED BY <2>1, <3>1, AccountMove
  <2>3. CASE rec[r].status # "reserved"
    <3>1. SameAccount(r)
      BY <1>f, <1>t, <2>3, FinalizeEffect DEF SameAccount, RecordType, Records, Statuses
    <3>. QED BY <2>1, <3>1, AccountStutter
  <2>. QED BY <2>2, <2>3
<1>2. ASSUME NEW r \in Requests, PreConsume(r) PROVE Account!Next \/ UNCHANGED acctBar
  <2>1. /\ rec[r].status = "none" /\ net[r] = 0
        /\ ses[r].pre \in PreQuotas /\ ses[r].pre > 0 /\ ses[r].pre \in Int
    <3>1. pc[r] = "checked" /\ SessionOK(r) /\ ses[r].pre \in Int
      BY <1>2, <1>t DEF PreConsume, IInv, ReqOK, SessionType, Sessions
    <3>. QED BY <3>1 DEF SessionOK
  <2>2. CASE r \in Playground
    BY <1>2, <1>n, <1>w, <2>1, <2>2 DEF PreConsume
  <2>3. CASE r \notin Playground
    <3>1. MoveWallet(r, ses[r].pre)
      BY <1>2, <2>3 DEF PreConsume
    <3>2. rec'[r].status = "reserved" /\ \A x \in Requests \ {r} : rec'[x] = rec[x]
      BY <1>2, <1>t, <2>3 DEF PreConsume, RecordType
    <3>3. Holds(r) /\ \A x \in Requests \ {r} : SameAccount(x)
      BY <1>w, <2>1, <3>1, <3>2 DEF Holds, SameAccount
    <3>. QED BY <3>3, AccountMove
  <2>. QED BY <2>2, <2>3
<1>3. ASSUME NEW r \in Requests, NEW a \in Actuals, SettleReserved(r, a)
      PROVE Account!Next \/ UNCHANGED acctBar
  <2>1. ses[r].pre \in Int /\ net[r] \in Int /\ pc[r] = "running" /\ ReqOK(r)
    BY <1>3, <1>t DEF SettleReserved, SessionType, Sessions, MoneyType, IInv
  <2>2. CASE r \in Playground
    <3>1. rec[r].status = "none"
      BY <2>1, <2>2 DEF ReqOK, SessionOK
    <3>2. MoveWallet(r, a - ses[r].pre) /\ UNCHANGED rec
      BY <1>3, <2>2 DEF SettleReserved
    <3>3. a - ses[r].pre \in Int
      <4>1. a \in Nat OBVIOUS
      <4>. QED BY <2>1, <4>1
    <3>. QED BY <1>n, <1>w, <3>1, <3>2, <3>3
  <2>3. CASE r \notin Playground
    <3>1. rec[r].status = "reserved" => net[r] + (a - ses[r].pre) = a
      <4>1. rec[r].status = "reserved" => net[r] = ses[r].pre
        BY <2>1 DEF ReqOK, SessionOK, ChargeMatches, AllHeard
      <4>2. a \in Int
        BY WalletConstants
      <4>. QED BY <2>1, <4>1, <4>2
    <3>2. FinalizeUserTokenQuota(r, a - ses[r].pre, "settled")
      BY <1>3, <2>3 DEF SettleReserved
    <3>3. a - ses[r].pre \in Int /\ "settled" \in Terminal
      <4>1. a \in Nat OBVIOUS
      <4>. QED BY <2>1, <4>1 DEF Terminal
    <3>. QED BY <1>f, <3>1, <3>2, <3>3
  <2>. QED BY <2>2, <2>3
<1>4. ASSUME NEW r \in Requests, NEW a \in Actuals, SettleBatched(r, a) \/ SettleDirect(r, a)
      PROVE Account!Next \/ UNCHANGED acctBar
  <2>1. rec[r].status = "none"
    BY <1>4 DEF SettleBatched, SettleDirect, IInv, ReqOK, SessionOK
  <2>2. UNCHANGED rec /\ \A x \in Requests \ {r} : net'[x] = net[x]
    BY <1>4, <1>t DEF SettleBatched, SettleDirect, MoveWallet, MoneyType
  <2>. QED BY <1>n, <2>1, <2>2
<1>5. ASSUME NEW r \in Requests, RefundJob(r) PROVE Account!Next \/ UNCHANGED acctBar
  <2>1. ses[r].pre \in Int /\ net[r] \in Int /\ pc[r] = "refunding" /\ ReqOK(r)
    BY <1>5, <1>t DEF RefundJob, SessionType, Sessions, MoneyType, IInv
  <2>2. CASE r \in Playground
    <3>1. rec[r].status = "none"
      BY <2>1, <2>2 DEF ReqOK, SessionOK
    <3>. QED BY <1>5, <1>n, <1>w, <2>1, <2>2, <3>1 DEF RefundJob
  <2>3. CASE r \notin Playground
    <3>1. rec[r].status = "reserved" => net[r] + (-ses[r].pre) = 0
      BY <2>1 DEF ReqOK, SessionOK, ChargeMatches, AllHeard
    <3>. QED BY <1>5, <1>f, <2>1, <2>3, <3>1 DEF RefundJob, Terminal
  <2>. QED BY <2>2, <2>3
<1>6. ASSUME NEW n \in Nodes, NEW s \in sweep[n], SweepRefund(n, s)
      PROVE Account!Next \/ UNCHANGED acctBar
  <2>1. s.req \in Requests /\ -s.pre \in Int
    BY <1>t DEF SweepType
  <2>2. CASE rec[s.req].status = "reserved"
    <3>1. net[s.req] = s.pre /\ s.pre \in Int
      BY <1>t, <2>1, <2>2 DEF IInv, SweepInv, ReqOK, ChargeMatches, SweepType, AllHeard
    <3>2. MoveWallet(s.req, -s.pre)
      BY <1>6, <2>2 DEF SweepRefund
    <3>3. /\ rec'[s.req].status = "refunded"
          /\ \A x \in Requests \ {s.req} : rec'[x] = rec[x]
      BY <1>6, <1>t, <2>1, <2>2 DEF SweepRefund, RecordType, Closed
    <3>4. net'[s.req] = 0 /\ \A x \in Requests \ {s.req} : net'[x] = net[x]
      BY <1>w, <2>1, <3>1, <3>2
    <3>5. Returns(s.req) /\ \A x \in Requests \ {s.req} : SameAccount(x)
      BY <2>1, <2>2, <3>3, <3>4 DEF Returns, SameAccount
    <3>. QED BY <2>1, <3>5, AccountMove
  <2>3. CASE rec[s.req].status # "reserved"
    BY <1>0, <1>6, <2>3 DEF SweepRefund, KeepMoney
  <2>. QED BY <2>2, <2>3
<1>7. ASSUME NEW u \in Users, HardDeleteUser(u) PROVE Account!Next \/ UNCHANGED acctBar
  <2>. DEFINE S == {r \in Requests : UserOf[r] = u /\ rec[r].status = "reserved"}
  <2>1. ASSUME NEW r \in S
        PROVE acctBar[r].st = "held" /\ acctBar'[r] = [st |-> "voided", amt |-> acctBar[r].amt]
    <3>1. rec[r].status = "reserved" /\ rec'[r].status = "refunded" /\ net'[r] = net[r]
      BY <1>7 DEF HardDeleteUser, Closed
    <3>2. net[r] # 0
      BY <3>1 DEF IInv, ReqOK, SessionOK, ChargeMatches
    <3>. QED BY <3>1, <3>2 DEF acctBar, AccountOf
  <2>2. ASSUME NEW r \in Requests \ S PROVE acctBar'[r] = acctBar[r]
    <3>1. rec'[r] = rec[r] /\ net'[r] = net[r]
      BY <1>7 DEF HardDeleteUser
    <3>. QED BY <3>1, AccountFrame DEF SameAccount
  <2>3. acctBar' = [r \in Requests |->
          IF r \in S THEN [st |-> "voided", amt |-> acctBar[r].amt] ELSE acctBar[r]]
    BY <2>1, <2>2 DEF acctBar
  <2>4. Account!Void(S)
    BY <2>1, <2>3 DEF Account!Void, acctBar
  <2>. QED BY <2>4 DEF Account!Next
<1>8. CASE Tick
  <2>1. \A r \in Requests : SameAccount(r)
    BY <1>8 DEF Tick, SameAccount
  <2>. QED BY <2>1, AccountStutter
<1>9. ASSUME NEW r \in Requests,
             \/ \E q \in PreQuotas, f \in BOOLEAN : TryWallet(r, q, f)
             \/ \E a \in Actuals : SettleNothing(r, a)
             \/ PreConsumeFails(r) \/ Refund(r) \/ RefundJobFails(r) \/ Finish(r)
      PROVE UNCHANGED acctBar
  BY <1>0, <1>9 DEF TryWallet, SettleNothing, PreConsumeFails, Refund, RefundJobFails, Finish
<1>10. ASSUME NEW n \in Nodes,
              \/ SweepFind(n) \/ BeginDrain(n) \/ StopUpdater(n) \/ Crash(n)
              \/ \E s \in sweep[n] : SweepSkip(n, s)
              \/ \E u \in Users : FlushUser(n, u)
              \/ \E t \in Tokens : FlushToken(n, t)
       PROVE UNCHANGED acctBar
  BY <1>0, <1>10 DEF SweepFind, SweepSkip, BeginDrain, StopUpdater, Crash, FlushUser, FlushToken
<1>11. CASE \/ \E u \in Users : SoftDeleteUser(u)
            \/ \E t \in Tokens : DeleteToken(t)
            \/ UNCHANGED vars
  BY <1>0, <1>11 DEF SoftDeleteUser, DeleteToken, vars
<1>. QED
  BY <1>2, <1>3, <1>4, <1>5, <1>6, <1>7, <1>8, <1>9, <1>10, <1>11
     DEF Next, Handler, SettleCall, Sweeper, Environment

\* Wallet billing implements the one-shot account of RequestAccount: a record
\* is opened once and closed once, in one of three ways, and the money moves
\* with it in the same step.  BillingSession.Reserve, which only tests call, is
\* left out.
THEOREM WalletImplementsAccount ==
  ASSUME Targets = {}
  PROVE  Spec => ImplementsAccount
<1>1. Init => Account!Init /\ AllHeard
  BY DEF Init, Account!Init, AccountOf, AllHeard
<1>2. TypeOK /\ TypeOK' /\ IInv /\ [Next]_vars => IInv'
  BY SafeStep
<1>3. AllHeard /\ [Next]_vars => AllHeard'
  BY AllHeardStep
<1>4. AllHeard /\ TypeOK /\ IInv /\ [Next]_vars => [Account!Next]_acctBar
  BY AccountStep
<1>. QED
  BY <1>1, <1>2, <1>3, <1>4, SafeInit, WalletTypes, PTL
     DEF Spec, ImplementsAccount, Account!Spec, acctBar

-----------------------------------------------------------------------------
(* The balance. *)

\* What the requests of a user have taken, and what a process owes the row.
NetOf(u)  == [r \in Requests |-> IF UserOf[r] = u THEN net[r] ELSE 0]
DebtOf(u) == [n \in Nodes |-> pend[<<n, u>>]]

\* The balance and what was taken from it add up to what there was, but for
\* the debts that have not reached the row.  This holds in every instance,
\* also where records and charges may disagree.
LedgerOf(u) ==
  quota[u] + SumFunctionOnSet(NetOf(u), Requests)
    = InitQuota + SumFunctionOnSet(DebtOf(u), Nodes) + lost[u] + discarded[u]
Ledger == \A u \in Users : LedgerOf(u)

\* The summands are integers.
LEMMA LedgerTypes ==
  ASSUME MoneyType, BatchType, HistoryType, NEW u \in Users
  PROVE  /\ \A x \in Requests : NetOf(u)[x] \in Int
         /\ \A n \in Nodes : DebtOf(u)[n] \in Int
         /\ SumFunctionOnSet(NetOf(u), Requests) \in Int
         /\ SumFunctionOnSet(DebtOf(u), Nodes) \in Int
         /\ quota[u] \in Int /\ lost[u] \in Int /\ discarded[u] \in Int /\ InitQuota \in Int
<1>1. \A x \in Requests : NetOf(u)[x] \in Int
  BY DEF NetOf, MoneyType
<1>2. \A n \in Nodes : DebtOf(u)[n] \in Int
  BY DEF DebtOf, BatchType
<1>3. SumFunctionOnSet(NetOf(u), Requests) \in Int
  BY <1>1, SumInt, WalletConstants
<1>4. SumFunctionOnSet(DebtOf(u), Nodes) \in Int
  BY <1>2, SumInt, WalletConstants
<1>. QED BY <1>1, <1>2, <1>3, <1>4, WalletConstants DEF MoneyType, HistoryType

\* What is taken for r is taken from r's user only.
LEMMA NetMoves ==
  ASSUME MoneyType, BatchType, HistoryType, MoneyType', NEW r \in Requests, NEW d \in Int,
         net' = [net EXCEPT ![r] = @ + d], NEW u \in Users
  PROVE  SumFunctionOnSet(NetOf(u)', Requests)
           = SumFunctionOnSet(NetOf(u), Requests) + (IF UserOf[r] = u THEN d ELSE 0)
<1>1. /\ \A x \in Requests : NetOf(u)[x] \in Int /\ NetOf(u)'[x] \in Int
      /\ \A x \in Requests : x # r => NetOf(u)[x] = NetOf(u)'[x]
      /\ NetOf(u)'[r] - NetOf(u)[r] = IF UserOf[r] = u THEN d ELSE 0
  BY DEF NetOf, MoneyType
<1>2. SumFunctionOnSet(NetOf(u)', Requests)
        = SumFunctionOnSet(NetOf(u), Requests) + NetOf(u)'[r] - NetOf(u)[r]
  BY <1>1, SumChange, WalletConstants
<1>3. SumFunctionOnSet(NetOf(u), Requests) \in Int
  BY LedgerTypes
<1>4. NetOf(u)'[r] \in Int /\ NetOf(u)[r] \in Int
  BY <1>1
<1>. QED BY <1>1, <1>2, <1>3, <1>4

\* The debt of one process to one user changes.
LEMMA DebtMoves ==
  ASSUME MoneyType, BatchType, HistoryType, BatchType', NEW n \in Nodes, NEW v \in Users,
         NEW b \in Nat, pend' = [pend EXCEPT ![<<n, v>>] = b], NEW u \in Users
  PROVE  SumFunctionOnSet(DebtOf(u)', Nodes)
           = SumFunctionOnSet(DebtOf(u), Nodes) + (IF v = u THEN b - pend[<<n, v>>] ELSE 0)
<1>1. ASSUME NEW m \in Nodes
      PROVE  /\ DebtOf(u)[m] = pend[<<m, u>>] /\ DebtOf(u)'[m] = pend'[<<m, u>>]
             /\ pend[<<m, u>>] \in Nat /\ pend'[<<m, u>>] \in Nat
             /\ pend'[<<m, u>>] = IF m = n /\ u = v THEN b ELSE pend[<<m, u>>]
  BY DEF DebtOf, BatchType
<1>2. ASSUME NEW m \in Nodes
      PROVE  DebtOf(u)[m] \in Int /\ DebtOf(u)'[m] \in Int /\ (m # n => DebtOf(u)[m] = DebtOf(u)'[m])
  <2>1. pend[<<m, u>>] \in Int /\ pend'[<<m, u>>] \in Int
    BY <1>1
  <2>2. m # n => pend'[<<m, u>>] = pend[<<m, u>>]
    BY <1>1
  <2>3. DebtOf(u)[m] = pend[<<m, u>>] /\ DebtOf(u)'[m] = pend'[<<m, u>>]
    BY <1>1
  <2>. QED BY <2>1, <2>2, <2>3
<1>3. SumFunctionOnSet(DebtOf(u)', Nodes)
        = SumFunctionOnSet(DebtOf(u), Nodes) + DebtOf(u)'[n] - DebtOf(u)[n]
  BY <1>2, SumChange, WalletConstants
<1>4. SumFunctionOnSet(DebtOf(u), Nodes) \in Int
  BY LedgerTypes
<1>5. /\ DebtOf(u)[n] = pend[<<n, u>>] /\ pend[<<n, u>>] \in Int /\ b \in Int
      /\ DebtOf(u)'[n] = IF v = u THEN b ELSE pend[<<n, u>>]
  BY <1>1
<1>. QED BY <1>3, <1>4, <1>5

\* Steps without money.
LEMMA LedgerFrame ==
  ASSUME Ledger, UNCHANGED <<quota, net, pend, lost, discarded>>
  PROVE  Ledger'
<1>1. ASSUME NEW u \in Users PROVE NetOf(u)' = NetOf(u) /\ DebtOf(u)' = DebtOf(u)
  BY DEF NetOf, DebtOf
<1>. QED BY <1>1 DEF Ledger, LedgerOf

\* A transaction on the row: the balance loses what the request has taken.
LEMMA LedgerMove ==
  ASSUME TypeOK, TypeOK', Ledger, NEW r \in Requests, NEW d \in Int, MoveWallet(r, d),
         UNCHANGED <<pend, lost, discarded>>
  PROVE  Ledger'
<1>t. MoneyType /\ BatchType /\ HistoryType /\ MoneyType' /\ BatchType' /\ HistoryType'
  BY DEF TypeOK
<1>1. ASSUME NEW u \in Users PROVE LedgerOf(u)'
  <2>1. LedgerOf(u)
    BY DEF Ledger
  <2>2. SumFunctionOnSet(NetOf(u)', Requests)
          = SumFunctionOnSet(NetOf(u), Requests) + (IF UserOf[r] = u THEN d ELSE 0)
    BY <1>t, NetMoves DEF MoveWallet
  <2>3. DebtOf(u)' = DebtOf(u)
    BY DEF DebtOf
  <2>4. quota'[u] = quota[u] - (IF UserOf[r] = u THEN d ELSE 0)
    BY <1>t, WalletConstants DEF MoneyType, MoveWallet
  <2>5. /\ SumFunctionOnSet(NetOf(u), Requests) \in Int
        /\ SumFunctionOnSet(DebtOf(u), Nodes) \in Int
        /\ quota[u] \in Int /\ lost[u] \in Int /\ discarded[u] \in Int /\ InitQuota \in Int
    BY <1>t, LedgerTypes
  <2>. QED BY <2>1, <2>2, <2>3, <2>4, <2>5 DEF LedgerOf
<1>. QED BY <1>1 DEF Ledger

\* A trusted settlement is admitted by the updater.
LEMMA LedgerBatched ==
  ASSUME TypeOK, TypeOK', Ledger, NEW r \in Requests, NEW a \in Actuals, SettleBatched(r, a)
  PROVE  Ledger'
<1>t. MoneyType /\ BatchType /\ HistoryType /\ MoneyType' /\ BatchType' /\ HistoryType'
  BY DEF TypeOK
<1>1. NodeOf[r] \in Nodes /\ UserOf[r] \in Users /\ a \in Nat /\ a \in Int
  BY WalletConstants
<1> DEFINE n == NodeOf[r]
           v == UserOf[r]
           b == pend[<<n, v>>] + a
<1>2. /\ pend' = [pend EXCEPT ![<<n, v>>] = b] /\ net' = [net EXCEPT ![r] = @ + a]
      /\ UNCHANGED <<quota, lost, discarded>>
  BY DEF SettleBatched, db
<1>3. pend[<<n, v>>] \in Nat /\ b \in Nat
  BY <1>1, <1>t DEF BatchType
<1>4. ASSUME NEW u \in Users PROVE LedgerOf(u)'
  <2>1. LedgerOf(u)
    BY DEF Ledger
  <2> HIDE DEF n, v, b
  <2>2. SumFunctionOnSet(NetOf(u)', Requests)
          = SumFunctionOnSet(NetOf(u), Requests) + (IF UserOf[r] = u THEN a ELSE 0)
    BY <1>t, <1>1, <1>2, NetMoves
  <2>3. SumFunctionOnSet(DebtOf(u)', Nodes)
          = SumFunctionOnSet(DebtOf(u), Nodes) + (IF v = u THEN b - pend[<<n, v>>] ELSE 0)
    BY <1>t, <1>1, <1>2, <1>3, DebtMoves DEF n, v
  <2>4. b - pend[<<n, v>>] = a
    BY <1>1, <1>3 DEF b
  <2>5. /\ SumFunctionOnSet(NetOf(u), Requests) \in Int
        /\ SumFunctionOnSet(DebtOf(u), Nodes) \in Int
        /\ quota[u] \in Int /\ lost[u] \in Int /\ discarded[u] \in Int /\ InitQuota \in Int
    BY <1>t, LedgerTypes
  <2>6. quota'[u] = quota[u] /\ lost'[u] = lost[u] /\ discarded'[u] = discarded[u]
    BY <1>2
  <2>. QED BY <1>1, <2>1, <2>2, <2>3, <2>4, <2>5, <2>6 DEF LedgerOf, v
<1>. QED BY <1>4 DEF Ledger

\* A debt reaches the row, or the ledger of a deleted user.
LEMMA LedgerFlush ==
  ASSUME TypeOK, TypeOK', Ledger, NEW n \in Nodes, NEW v \in Users, FlushUser(n, v)
  PROVE  Ledger'
<1>t. MoneyType /\ BatchType /\ HistoryType /\ MoneyType' /\ BatchType' /\ HistoryType'
  BY DEF TypeOK
<1>1. pend[<<n, v>>] \in Nat
  BY <1>t DEF BatchType
<1>2. /\ pend' = [pend EXCEPT ![<<n, v>>] = 0] /\ UNCHANGED <<net, lost>>
      /\ \/ quota' = [quota EXCEPT ![v] = @ - pend[<<n, v>>]] /\ UNCHANGED discarded
         \/ discarded' = [discarded EXCEPT ![v] = @ + pend[<<n, v>>]] /\ UNCHANGED quota
  BY DEF FlushUser
<1>3. ASSUME NEW u \in Users PROVE LedgerOf(u)'
  <2>1. LedgerOf(u)
    BY DEF Ledger
  <2>2. NetOf(u)' = NetOf(u)
    BY <1>2 DEF NetOf
  <2>3. SumFunctionOnSet(DebtOf(u)', Nodes)
          = SumFunctionOnSet(DebtOf(u), Nodes) + (IF v = u THEN 0 - pend[<<n, v>>] ELSE 0)
    BY <1>t, <1>2, DebtMoves
  <2>4. /\ SumFunctionOnSet(NetOf(u), Requests) \in Int
        /\ SumFunctionOnSet(DebtOf(u), Nodes) \in Int
        /\ quota[u] \in Int /\ lost[u] \in Int /\ discarded[u] \in Int /\ InitQuota \in Int
    BY <1>t, LedgerTypes
  <2>5. \/ quota'[u] = quota[u] - (IF v = u THEN pend[<<n, v>>] ELSE 0) /\ discarded'[u] = discarded[u]
        \/ discarded'[u] = discarded[u] + (IF v = u THEN pend[<<n, v>>] ELSE 0) /\ quota'[u] = quota[u]
    BY <1>t, <1>2 DEF MoneyType, HistoryType
  <2>6. lost'[u] = lost[u]
    BY <1>2
  <2>. QED BY <1>1, <2>1, <2>2, <2>3, <2>4, <2>5, <2>6 DEF LedgerOf
<1>. QED BY <1>3 DEF Ledger

\* A crash takes the debts of one process with it, and only those.
LEMMA LedgerCrash ==
  ASSUME TypeOK, TypeOK', Ledger, NEW n \in Nodes, Crash(n)
  PROVE  Ledger'
<1>t. MoneyType /\ BatchType /\ HistoryType /\ MoneyType' /\ BatchType' /\ HistoryType'
  BY DEF TypeOK
<1>1. ASSUME NEW u \in Users PROVE LedgerOf(u)'
  <2>1. LedgerOf(u)
    BY DEF Ledger
  <2>2. NetOf(u)' = NetOf(u) /\ quota'[u] = quota[u] /\ discarded'[u] = discarded[u]
    BY DEF Crash, NetOf, db
  <2>3. lost'[u] = lost[u] + pend[<<n, u>>]
    BY DEF Crash
  <2>4. ASSUME NEW m \in Nodes
        PROVE  /\ DebtOf(u)[m] = pend[<<m, u>>] /\ pend[<<m, u>>] \in Nat
               /\ DebtOf(u)'[m] = IF m = n THEN 0 ELSE pend[<<m, u>>]
    BY <1>t DEF DebtOf, BatchType, Crash
  <2>5. ASSUME NEW m \in Nodes
        PROVE  DebtOf(u)[m] \in Int /\ DebtOf(u)'[m] \in Int /\ (m # n => DebtOf(u)[m] = DebtOf(u)'[m])
    <3>1. DebtOf(u)[m] = pend[<<m, u>>] /\ pend[<<m, u>>] \in Int
      BY <2>4
    <3>2. DebtOf(u)'[m] = IF m = n THEN 0 ELSE pend[<<m, u>>]
      BY <2>4
    <3>. QED BY <3>1, <3>2
  <2>8. DebtOf(u)'[n] = 0 /\ DebtOf(u)[n] = pend[<<n, u>>] /\ pend[<<n, u>>] \in Int
    BY <2>4
  <2>6. SumFunctionOnSet(DebtOf(u)', Nodes)
          = SumFunctionOnSet(DebtOf(u), Nodes) + DebtOf(u)'[n] - DebtOf(u)[n]
    BY <2>5, SumChange, WalletConstants
  <2>7. /\ SumFunctionOnSet(NetOf(u), Requests) \in Int
        /\ SumFunctionOnSet(DebtOf(u), Nodes) \in Int
        /\ quota[u] \in Int /\ lost[u] \in Int /\ discarded[u] \in Int /\ InitQuota \in Int
    BY <1>t, LedgerTypes
  <2>. QED BY <2>1, <2>2, <2>3, <2>6, <2>7, <2>8 DEF LedgerOf
<1>. QED BY <1>1 DEF Ledger

\* Every step keeps the ledger; one case per action that moves money.
LEMMA LedgerStep ==
  ASSUME TypeOK, TypeOK', Ledger, [Next]_vars
  PROVE  Ledger'
<1>. USE WalletConstants DEF db, mem, hist
<1>1. ASSUME NEW r \in Requests PROVE ses[r].pre \in Int
  BY DEF TypeOK, SessionType, Sessions
<1>2. ASSUME NEW r \in Requests, NEW d \in Int, NEW st, FinalizeUserTokenQuota(r, d, st),
             UNCHANGED <<pend, lost, discarded>>
      PROVE  Ledger'
  <2>1. CASE Claims(r)
    BY <1>2, <2>1, LedgerMove DEF FinalizeUserTokenQuota
  <2>2. CASE ~Claims(r)
    BY <1>2, <2>2, LedgerFrame DEF FinalizeUserTokenQuota, KeepMoney
  <2>. QED BY <2>1, <2>2
<1>3. ASSUME NEW r \in Requests, PreConsume(r) PROVE Ledger'
  BY <1>1, <1>3, LedgerMove DEF PreConsume
<1>4. ASSUME NEW r \in Requests, NEW target \in Targets, Reserve(r, target) PROVE Ledger'
  <2>1. target - ses[r].pre \in Int
    BY <1>1
  <2>. QED BY <1>4, <2>1, LedgerMove DEF Reserve
<1>5. ASSUME NEW r \in Requests, NEW a \in Actuals, SettleReserved(r, a) PROVE Ledger'
  <2>1. a - ses[r].pre \in Int
    BY <1>1
  <2>2. UNCHANGED <<pend, lost, discarded>>
    BY <1>5 DEF SettleReserved
  <2>3. CASE FinalizeUserTokenQuota(r, a - ses[r].pre, "settled")
    BY <1>2, <2>1, <2>2, <2>3
  <2>4. CASE MoveWallet(r, a - ses[r].pre)
    BY <2>1, <2>2, <2>4, LedgerMove
  <2>. QED BY <1>5, <2>3, <2>4 DEF SettleReserved
<1>6. ASSUME NEW r \in Requests, NEW a \in Actuals, SettleDirect(r, a) PROVE Ledger'
  <2>1. a \in Int
    OBVIOUS
  <2>. QED BY <1>6, <2>1, LedgerMove DEF SettleDirect
<1>7. ASSUME NEW r \in Requests, RefundJob(r) PROVE Ledger'
  <2>1. -ses[r].pre \in Int
    BY <1>1
  <2>2. UNCHANGED <<pend, lost, discarded>>
    BY <1>7 DEF RefundJob
  <2>3. CASE FinalizeUserTokenQuota(r, -ses[r].pre, "refunded")
    BY <1>2, <2>1, <2>2, <2>3
  <2>4. CASE MoveWallet(r, -ses[r].pre)
    BY <2>1, <2>2, <2>4, LedgerMove
  <2>. QED BY <1>7, <2>3, <2>4 DEF RefundJob
<1>8. ASSUME NEW n \in Nodes, NEW s \in sweep[n], SweepRefund(n, s) PROVE Ledger'
  <2>1. s.req \in Requests /\ -s.pre \in Int
    BY DEF TypeOK, SweepType
  <2>2. CASE rec[s.req].status = "reserved"
    BY <1>8, <2>1, <2>2, LedgerMove DEF SweepRefund
  <2>3. CASE rec[s.req].status # "reserved"
    BY <1>8, <2>3, LedgerFrame DEF SweepRefund, KeepMoney
  <2>. QED BY <2>2, <2>3
<1>9. ASSUME NEW r \in Requests,
             \/ \E q \in PreQuotas, f \in BOOLEAN : TryWallet(r, q, f)
             \/ \E a \in Actuals : SettleNothing(r, a)
             \/ PreConsumeFails(r) \/ Refund(r) \/ Finish(r) \/ RefundJobFails(r)
      PROVE  Ledger'
  <2>1. UNCHANGED <<quota, net, pend, lost, discarded>>
    BY <1>9 DEF TryWallet, SettleNothing, PreConsumeFails, Refund, Finish, RefundJobFails
  <2>. QED BY <2>1, LedgerFrame
<1>10. ASSUME NEW n \in Nodes,
              \/ SweepFind(n) \/ (\E s \in sweep[n] : SweepSkip(n, s))
              \/ (\E t \in Tokens : FlushToken(n, t)) \/ BeginDrain(n) \/ StopUpdater(n)
       PROVE  Ledger'
  <2>1. UNCHANGED <<quota, net, pend, lost, discarded>>
    BY <1>10 DEF SweepFind, SweepSkip, FlushToken, BeginDrain, StopUpdater
  <2>. QED BY <2>1, LedgerFrame
<1>11. ASSUME \/ \E u \in Users : SoftDeleteUser(u) \/ HardDeleteUser(u)
              \/ \E t \in Tokens : DeleteToken(t)
              \/ Tick \/ UNCHANGED vars
       PROVE  Ledger'
  <2>1. UNCHANGED <<quota, net, pend, lost, discarded>>
    BY <1>11 DEF SoftDeleteUser, HardDeleteUser, DeleteToken, Tick, vars
  <2>. QED BY <2>1, LedgerFrame
<1>. QED
  BY <1>3, <1>4, <1>5, <1>6, <1>7, <1>8, <1>9, <1>10, <1>11, LedgerBatched, LedgerFlush, LedgerCrash
     DEF Next, Handler, SettleCall, Sweeper, Environment

\* At first nothing was taken.
LEMMA LedgerInit == Init => Ledger
<1>. SUFFICES ASSUME Init, NEW u \in Users PROVE LedgerOf(u)
  BY DEF Ledger
<1>1. \A r \in Requests : NetOf(u)[r] = 0
  BY DEF Init, NetOf
<1>2. \A n \in Nodes : DebtOf(u)[n] = 0
  BY DEF Init, DebtOf
<1>3. SumFunctionOnSet(NetOf(u), Requests) = 0 /\ SumFunctionOnSet(DebtOf(u), Nodes) = 0
  BY <1>1, <1>2, SumZero, WalletConstants
<1>4. quota[u] = InitQuota /\ lost[u] = 0 /\ discarded[u] = 0 /\ InitQuota \in Int
  BY WalletConstants DEF Init
<1>. QED BY <1>3, <1>4 DEF LedgerOf

\* Where the charges agree with the records, the ledger is the balance
\* equation: what a record says is what was taken.
LEMMA LedgerTold ==
  ASSUME TypeOK, Ledger, ChargeMatchesRecord
  PROVE  BalanceAccounted
<1>. SUFFICES ASSUME NEW u \in Users, ustate[u] # "hard"
     PROVE  quota[u] + SumFunctionOnSet([r \in Requests |-> Held(r)],
                                        {r \in Requests : UserOf[r] = u})
              = InitQuota + SumFunctionOnSet([n \in Nodes |-> pend[<<n, u>>]], Nodes)
                  + lost[u] + discarded[u]
  BY DEF BalanceAccounted
<1> DEFINE f == [r \in Requests |-> Held(r)]
           P == {r \in Requests : UserOf[r] = u}
           g == [x \in Requests |-> IF x \in P THEN f[x] ELSE 0]
<1>1. ASSUME NEW r \in Requests PROVE Held(r) \in Int
  <2>1. rec[r].status \in {"none", "reserved", "settled", "refunded"} /\ rec[r].pre \in Nat
    BY DEF TypeOK, RecordType, Records, Statuses, Terminal
  <2>. QED BY <2>1 DEF Held, TypeOK, MoneyType, HistoryType
<1>2. ASSUME NEW r \in Requests, UserOf[r] = u PROVE Held(r) = net[r]
  <2>1. rec[r].status \in {"none", "reserved", "settled", "refunded"}
    BY DEF TypeOK, RecordType, Records, Statuses, Terminal
  <2>2. ChargeMatches(r)
    BY DEF ChargeMatchesRecord
  <2>. QED BY <1>2, <2>1, <2>2 DEF Held, ChargeMatches
<1>3. \A x \in Requests : f[x] \in Int
  BY <1>1
<1>4. \A x \in Requests : g[x] = NetOf(u)[x]
  BY <1>2 DEF NetOf
<1>5. P \in SUBSET Requests
  OBVIOUS
<1> HIDE DEF f, P
<1>6. SumFunctionOnSet(f, P) = SumFunctionOnSet(g, Requests)
  BY <1>3, <1>5, SumPart, WalletConstants
<1> HIDE DEF g
<1>7. SumFunctionOnSet(g, Requests) = SumFunctionOnSet(NetOf(u), Requests)
  BY <1>4, SumSame, WalletConstants
<1>8. LedgerOf(u)
  BY DEF Ledger
<1>. QED BY <1>6, <1>7, <1>8 DEF LedgerOf, DebtOf, f, P

\* In every reachable state each user's balance, the net charges and the debts
\* in the batch updaters add up; this needs nothing of the records, so it holds
\* with top-ups, lost acknowledgements and any threshold of the sweeper.
THEOREM LedgerAlways == Spec => []Ledger
<1>1. TypeOK /\ TypeOK' /\ Ledger /\ [Next]_vars => Ledger'
  BY LedgerStep
<1>. QED
  BY <1>1, LedgerInit, WalletTypes, PTL DEF Spec

\* Every unit missing from a user's balance is held by an open reservation,
\* charged by a settled request, or a batched debt that has not reached the
\* row: the balance equation of the wallet, over any number of requests.
THEOREM BalanceAlwaysAccounted == Spec => []BalanceAccounted
<1>1. TypeOK /\ Ledger /\ ChargeMatchesRecord => BalanceAccounted
  BY LedgerTold
<1>. QED
  BY <1>1, LedgerAlways, WalletSafe, WalletTypes, PTL

=============================================================================
