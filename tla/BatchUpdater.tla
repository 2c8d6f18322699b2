---------------------------- MODULE BatchUpdater ----------------------------
(***************************************************************************)
(* The batch updater (model/batch_updater.go): deltas of users, tokens and *)
(* channels are summed in memory and written by a periodic worker, one     *)
(* transaction per row.  A write is made replayable by a row of the flush  *)
(* operation ledger (model/flush_operation_ledger.go) that commits with    *)
(* it; deltas whose row has been deleted go to the delete ledger           *)
(* (model/batch_update_delete_ledger.go).                                  *)
(*                                                                         *)
(* The database is shared, the updater is one process.  A transaction may  *)
(* fail, may commit unseen by the client, or may stay open on the server   *)
(* after the client gave up ("in doubt") and be decided later; it holds    *)
(* its row locks until then.  The process may crash at any step.           *)
(***************************************************************************)
EXTENDS Integers

CONSTANTS
  Cells,       \* (kind, id): a column of a row
  Groups,      \* rows: "user:id", "token:id", "channel:id"
  GroupOf,     \* the row a cell belongs to (batchUpdateGroupKey)
  Channels,    \* rows that are deleted outright, never softly
  Legacy,      \* rows that may be soft-deleted from before there were delete ledgers
  Deltas,      \* amounts AddMany may be called with, 0 included
  OpIds, NoOp, \* flush operation ids (UUIDs), and their absence
  MaxInt,      \* largest int
  MaxAdds      \* bound: calls of AddMany that are admitted

ASSUME BatchConstants ==
  /\ GroupOf \in [Cells -> Groups]
  /\ Channels \subseteq Groups /\ Legacy \subseteq Groups \ Channels
  /\ Deltas \subseteq Int /\ NoOp \notin OpIds
  /\ MaxInt \in Nat /\ MaxAdds \in Nat

VARIABLES
  state,       \* "new", "running", "stopping", "stopped"
  stores,      \* deltas admitted since the last snapshot; 0 = no entry
  inFlight,    \* deltas being flushed; 0 = no entry
  operationIDs,    \* per row: id of the operation in flight
  worker,      \* run(): "off", "loop", "done" (workerDone closed)
  stopper,     \* StopAndFlush: "off", "waiting" (for workerDone), "loop"
  gate,        \* holder of flushGate: "free", "worker", "stopper"
  todo,        \* operations the current Flush has still to apply
  failures,    \* "none" or "some": groups of this Flush failed
  confirmed,   \* ids this Flush has confirmed
  \* database
  val,         \* column values, relative to their start
  row,         \* "active", "soft", "gone"
  deleteLedger,    \* cells that have a delete ledger row
  discarded,   \* its discarded_delta
  ledger,      \* flush_operation_ledgers: payload and result by id
  doubt,       \* open transactions whose client has given up
  \* history
  admitted,    \* per cell: sum of the deltas AddMany accepted
  lost,        \* per cell: deltas a crash lost
  orphaned,    \* per cell: deltas of open transactions that survived a crash
  done, minted,    \* operations whose write has committed / ids handed out
  adds

queue == <<stores, inFlight, operationIDs>>
threads == <<state, worker, stopper>>
flush == <<gate, todo, failures, confirmed>>
table == <<val, row, deleteLedger, discarded>>
journal == <<ledger, doubt, done>>
account == <<admitted, lost, orphaned>>
vars == <<queue, threads, flush, table, journal, account, minted, adds>>

NoDeltas == [c \in Cells |-> 0]
CellsOf(g) == {c \in Cells : GroupOf[c] = g}
Only(g, f) == [c \in Cells |-> IF GroupOf[c] = g THEN f[c] ELSE 0]
Touched(f) == {GroupOf[c] : c \in {d \in Cells : f[d] # 0}}
Ints == (-MaxInt - 1) .. MaxInt

NoEntry == [result |-> "none", upd |-> NoDeltas]

-----------------------------------------------------------------------------
Init ==
  /\ state = "new" /\ worker = "off" /\ stopper = "off"
  /\ stores = NoDeltas /\ inFlight = NoDeltas
  /\ operationIDs = [g \in Groups |-> NoOp]
  /\ gate = "free" /\ todo = {} /\ failures = "none" /\ confirmed = {}
  /\ val = NoDeltas /\ discarded = NoDeltas
  /\ row \in [Groups -> {"active", "soft"}] /\ \A g \in Groups : row[g] = "soft" => g \in Legacy
  /\ deleteLedger = {}
  /\ ledger = [i \in OpIds |-> NoEntry]
  /\ doubt = {} /\ done = {} /\ minted = {}
  /\ admitted = NoDeltas /\ lost = NoDeltas /\ orphaned = NoDeltas
  /\ adds = 0

-----------------------------------------------------------------------------
(* Admission and the life of the worker. *)

\* InitBatchUpdater.
Start ==
  /\ state = "new"
  /\ state' = "running" /\ worker' = "loop"
  /\ UNCHANGED <<queue, stopper, flush, table, journal, account, minted, adds>>

\* Mutant: the sum with the delta in flight is not checked.
FitsLiveOnly(upd) == \A c \in Cells : stores[c] + upd[c] \in Ints

\* The two overflow checks of AddMany.
Fits(upd) ==
  \A c \in Cells : upd[c] # 0 =>
    stores[c] + upd[c] \in Ints /\ inFlight[c] + (stores[c] + upd[c]) \in Ints

\* Mutant: deltas are admitted as long as the updater has been started.
AddManyAnyTime(upd) ==
  /\ state # "new" /\ upd # NoDeltas /\ Fits(upd) /\ adds < MaxAdds
  /\ stores' = [c \in Cells |-> stores[c] + upd[c]]
  /\ admitted' = [c \in Cells |-> admitted[c] + upd[c]]
  /\ adds' = adds + 1
  /\ UNCHANGED <<inFlight, operationIDs, threads, flush, table, journal, lost, orphaned, minted>>

\* AddMany, all or nothing; a rejected call changes nothing.
AddMany(upd) ==
  /\ state = "running" /\ upd # NoDeltas /\ Fits(upd)
  /\ adds < MaxAdds
  /\ stores' = [c \in Cells |-> stores[c] + upd[c]]
  /\ admitted' = [c \in Cells |-> admitted[c] + upd[c]]
  /\ adds' = adds + 1
  /\ UNCHANGED <<inFlight, operationIDs, threads, flush, table, journal, lost, orphaned, minted>>

\* The worker leaves its loop once stopCh is closed.
WorkerExit ==
  /\ worker = "loop" /\ gate # "worker" /\ state # "running"
  /\ worker' = "done"
  /\ UNCHANGED <<queue, state, stopper, flush, table, journal, account, minted, adds>>

\* StopAndFlush is called, by shutdown's retry loop again after an error.
StopCall ==
  /\ state \in {"running", "stopping"} /\ stopper = "off"
  /\ state' = "stopping" /\ stopper' = "waiting"
  /\ UNCHANGED <<queue, worker, flush, table, journal, account, minted, adds>>

\* Its context expires while it waits.
StopExpires ==
  /\ stopper \in {"waiting", "loop"} /\ gate # "stopper"
  /\ stopper' = "off"
  /\ UNCHANGED <<queue, state, worker, flush, table, journal, account, minted, adds>>

-----------------------------------------------------------------------------
(* Flush. *)

\* Who may call Flush: the worker on a tick (also once more after stopCh is
\* closed, both cases of its select being ready), and StopAndFlush.
MayFlush(who) ==
  \/ who = "worker" /\ worker = "loop"
  \/ who = "stopper" /\ (stopper = "loop" \/ (stopper = "waiting" /\ worker = "done"))

\* prepareInFlightLocked: the rows to snapshot, those with an operation in
\* flight keep their new deltas in stores.
Ready == {g \in Touched(stores) : operationIDs[g] = NoOp}

\* newFlushOperationID for every row of Ready: different ids nobody has used.
Mintings == {f \in [Ready -> OpIds \ minted] : \A g, h \in Ready : f[g] = f[h] => g = h}
Fresh == CHOOSE f \in Mintings : TRUE

\* Mutant: new deltas of a row in flight join its operation, under the same id.
FlushBeginMerges(who) ==
  /\ gate = "free" /\ MayFlush(who) /\ state \in {"running", "stopping"}
  /\ stopper' = IF who = "stopper" THEN "loop" ELSE stopper
  /\ Mintings # {}
  /\ operationIDs' = [g \in Groups |-> IF g \in Ready THEN Fresh[g] ELSE operationIDs[g]]
  /\ minted' = minted \cup {Fresh[g] : g \in Ready}
  /\ inFlight' = [c \in Cells |-> inFlight[c] + stores[c]]
  /\ stores' = NoDeltas
  /\ todo' = {[grp |-> g, id |-> operationIDs'[g], upd |-> Only(g, inFlight')] :
                g \in Touched(inFlight')}
  /\ gate' = who /\ failures' = "none" /\ confirmed' = {}
  /\ UNCHANGED <<state, worker, table, journal, account, adds>>

\* Flush takes the gate, snapshots, and lists one operation per row in flight.
FlushBegin(who) ==
  /\ gate = "free" /\ MayFlush(who) /\ state \in {"running", "stopping"}
  /\ stopper' = IF who = "stopper" THEN "loop" ELSE stopper
  /\ Mintings # {}
  /\ operationIDs' = [g \in Groups |-> IF g \in Ready THEN Fresh[g] ELSE operationIDs[g]]
  /\ minted' = minted \cup {Fresh[g] : g \in Ready}
  /\ inFlight' = [c \in Cells |->
       IF GroupOf[c] \in Ready /\ stores[c] # 0 THEN stores[c] ELSE inFlight[c]]
  /\ stores' = [c \in Cells |-> IF GroupOf[c] \in Ready THEN 0 ELSE stores[c]]
  /\ todo' = {[grp |-> g, id |-> operationIDs'[g], upd |-> Only(g, inFlight')] :
                g \in Touched(inFlight')}
  /\ gate' = who /\ failures' = "none" /\ confirmed' = {}
  /\ UNCHANGED <<state, worker, table, journal, account, adds>>

\* finalizeGroup after a success; a mismatch of identity or delta is an error.
Finalize(o) ==
  LET same == /\ operationIDs[o.grp] = o.id
              /\ \A c \in CellsOf(o.grp) : o.upd[c] # 0 => inFlight[c] = o.upd[c] IN
  /\ operationIDs' = IF same THEN [operationIDs EXCEPT ![o.grp] = NoOp] ELSE operationIDs
  /\ inFlight' = IF same
                 THEN [c \in Cells |-> IF o.upd[c] # 0 THEN 0 ELSE inFlight[c]]
                 ELSE inFlight
  /\ confirmed' = IF same THEN confirmed \cup {o.id} ELSE confirmed
  /\ failures' = IF same THEN failures ELSE "some"

\* What a caller does that gets an error: the operation stays in flight.
Keep == failures' = "some" /\ UNCHANGED <<operationIDs, inFlight, confirmed>>

\* The apply function of applyDefaultBatchUpdates finds its row, or finds it
\* deleted and every delta absorbed by a delete ledger (created on the spot
\* for a row that was soft-deleted before ledgers existed).
Applies(o) ==
  \/ row[o.grp] = "active"
  \/ \A c \in Cells : o.upd[c] # 0 => c \in deleteLedger \/ row[o.grp] = "soft"

\* No open transaction holds the row's lock.
Unlocked(g) == \A d \in doubt : d.grp # g

\* Mutant: the result is not recorded with the write.
CommitUnrecorded(o) ==
  /\ IF row[o.grp] = "active"
     THEN /\ val' = [c \in Cells |-> val[c] + o.upd[c]]
          /\ UNCHANGED <<deleteLedger, discarded>>
     ELSE /\ deleteLedger' = deleteLedger \cup {c \in Cells : o.upd[c] # 0}
          /\ discarded' = [c \in Cells |-> discarded[c] + o.upd[c]]
          /\ UNCHANGED val
  /\ done' = done \cup {o.id}
  /\ UNCHANGED <<row, ledger>>

\* The transaction of applyFlushOperation commits.
Commit(o) ==
  /\ IF row[o.grp] = "active"
     THEN /\ val' = [c \in Cells |-> val[c] + o.upd[c]]
          /\ ledger' = [ledger EXCEPT ![o.id] = [result |-> "updated", upd |-> o.upd]]
          /\ UNCHANGED <<deleteLedger, discarded>>
     ELSE /\ deleteLedger' = deleteLedger \cup {c \in Cells : o.upd[c] # 0}
          /\ discarded' = [c \in Cells |-> discarded[c] + o.upd[c]]
          /\ ledger' = [ledger EXCEPT ![o.id] = [result |-> "discarded", upd |-> o.upd]]
          /\ UNCHANGED val
  /\ done' = done \cup {o.id}
  /\ UNCHANGED row

\* It commits.  The client sees it, in the answer or by the look-up after an
\* error, or it does not.
ApplyCommits(o, seen) ==
  /\ o \in todo /\ ledger[o.id] = NoEntry /\ Applies(o) /\ Unlocked(o.grp)
  /\ Commit(o)
  /\ IF seen THEN Finalize(o) ELSE Keep
  /\ todo' = todo \ {o}
  /\ UNCHANGED <<stores, threads, gate, doubt, account, minted, adds>>

\* The ledger already has a result for this id and payload: nothing is
\* written again.
ApplyReplays(o) ==
  /\ o \in todo /\ ledger[o.id] # NoEntry /\ ledger[o.id].upd = o.upd
  /\ Finalize(o)
  /\ todo' = todo \ {o}
  /\ UNCHANGED <<stores, threads, gate, table, journal, account, minted, adds>>

\* It fails or is not tried (context, database, reward ticket, missing row,
\* payload mismatch).
ApplyFails(o) ==
  /\ o \in todo
  /\ Keep
  /\ todo' = todo \ {o}
  /\ UNCHANGED <<stores, threads, gate, table, journal, account, minted, adds>>

\* The client gives up and finds no ledger row, but the server still has the
\* transaction.
ApplyInDoubt(o) ==
  /\ o \in todo /\ ledger[o.id] = NoEntry /\ Applies(o) /\ Unlocked(o.grp)
  /\ doubt' = doubt \cup {o}
  /\ Keep
  /\ todo' = todo \ {o}
  /\ UNCHANGED <<stores, threads, gate, table, ledger, done, account, minted, adds>>

\* Flush returns: confirmed ledger rows are deleted (an error is only
\* logged); StopAndFlush goes round, stops, or returns the error.
FlushEnd ==
  /\ gate # "free" /\ todo = {}
  /\ \E cleaned \in BOOLEAN :
       ledger' = IF cleaned
                 THEN [i \in OpIds |-> IF i \in confirmed THEN NoEntry ELSE ledger[i]]
                 ELSE ledger
  /\ gate' = "free" /\ confirmed' = {} /\ failures' = "none"
  /\ IF gate = "worker"
     THEN UNCHANGED <<state, stopper>>
     ELSE /\ stopper' = IF failures = "some" \/ Touched(stores) \cup Touched(inFlight) = {}
                        THEN "off" ELSE "loop"
          /\ state' = IF failures = "none" /\ Touched(stores) \cup Touched(inFlight) = {}
                      THEN "stopped" ELSE state
  /\ UNCHANGED <<queue, worker, todo, table, doubt, done, account, minted, adds>>

-----------------------------------------------------------------------------
(* The database and the environment. *)

\* d belongs to an updater that no longer exists.
Orphan(d) == operationIDs[d.grp] # d.id

\* The server commits a transaction in doubt ...
DoubtCommits(d) ==
  /\ d \in doubt
  /\ Commit(d)
  /\ doubt' = doubt \ {d}
  /\ orphaned' = IF Orphan(d) THEN [c \in Cells |-> orphaned[c] - d.upd[c]] ELSE orphaned
  /\ UNCHANGED <<queue, threads, flush, admitted, lost, minted, adds>>

\* ... or rolls it back.
DoubtAborts(d) ==
  /\ d \in doubt
  /\ doubt' = doubt \ {d}
  /\ orphaned' = IF Orphan(d) THEN [c \in Cells |-> orphaned[c] - d.upd[c]] ELSE orphaned
  /\ lost' = IF Orphan(d) THEN [c \in Cells |-> lost[c] + d.upd[c]] ELSE lost
  /\ UNCHANGED <<queue, threads, flush, table, ledger, done, admitted, minted, adds>>

\* deleteUserWithLedger and deleteTokenWithLedger, soft: the row and, in the
\* same transaction, a delete ledger row for each of its columns.
SoftDelete(g) ==
  /\ g \notin Channels /\ row[g] = "active" /\ Unlocked(g)
  /\ deleteLedger \cap CellsOf(g) = {}
  /\ row' = [row EXCEPT ![g] = "soft"]
  /\ deleteLedger' = deleteLedger \cup CellsOf(g)
  /\ UNCHANGED <<val, discarded, queue, threads, flush, journal, account, minted, adds>>

\* Mutant: a row that was soft-deleted is taken to have its ledger.
HardDeleteTrustsSoft(g) ==
  /\ row[g] # "gone" /\ Unlocked(g)
  /\ row' = [row EXCEPT ![g] = "gone"]
  /\ deleteLedger' = IF row[g] = "active" THEN deleteLedger \cup CellsOf(g) ELSE deleteLedger
  /\ UNCHANGED <<val, discarded, queue, threads, flush, journal, account, minted, adds>>

\* The row disappears: deleteUserWithLedger, hard, with the user's tokens, and
\* the deletion of channels.  Ledger rows are created, or completed when the
\* row was soft-deleted before (ensureBatchUpdateDeleteLedgers).
HardDelete(g) ==
  /\ row[g] # "gone" /\ Unlocked(g)
  /\ row[g] = "active" => deleteLedger \cap CellsOf(g) = {}
  /\ row' = [row EXCEPT ![g] = "gone"]
  /\ deleteLedger' = deleteLedger \cup CellsOf(g)
  /\ UNCHANGED <<val, discarded, queue, threads, flush, journal, account, minted, adds>>

\* The process dies; a new one starts with an empty updater.
Crash ==
  LET written(c) == operationIDs[GroupOf[c]] \in done
      open(c)    == \E d \in doubt : d.grp = GroupOf[c] /\ ~Orphan(d)
  IN
  /\ state # "new"
  /\ state' = "new" /\ worker' = "off" /\ stopper' = "off"
  /\ stores' = NoDeltas /\ inFlight' = NoDeltas
  /\ operationIDs' = [g \in Groups |-> NoOp]
  /\ gate' = "free" /\ todo' = {} /\ failures' = "none" /\ confirmed' = {}
  /\ lost' = [c \in Cells |-> lost[c] + stores[c] +
                (IF written(c) \/ open(c) THEN 0 ELSE inFlight[c])]
  /\ orphaned' = [c \in Cells |-> orphaned[c] +
                (IF open(c) /\ ~written(c) THEN inFlight[c] ELSE 0)]
  /\ UNCHANGED <<table, journal, admitted, minted, adds>>

-----------------------------------------------------------------------------
Apply(o) ==
  \/ \E seen \in BOOLEAN : ApplyCommits(o, seen)
  \/ ApplyReplays(o) \/ ApplyFails(o) \/ ApplyInDoubt(o)

Updater ==
  \/ Start
  \/ \E upd \in [Cells -> Deltas] : AddMany(upd)
  \/ WorkerExit \/ StopCall \/ StopExpires
  \/ \E who \in {"worker", "stopper"} : FlushBegin(who)
  \/ \E o \in todo : Apply(o)
  \/ FlushEnd

Environment ==
  \/ \E d \in doubt : DoubtCommits(d) \/ DoubtAborts(d)
  \/ \E g \in Groups : SoftDelete(g) \/ HardDelete(g)
  \/ Crash

Next == Updater \/ Environment

Spec == Init /\ [][Next]_vars

(* Fairness: the ticker fires, the worker and shutdown's retry loop run on,  *)
(* a select of two ready channels does not take the same one for ever, the  *)
(* server decides open transactions, and a transaction that is tried again  *)
(* and again succeeds and is seen to succeed in the end.                    *)
Succeeds(g) == \E o \in todo : o.grp = g /\ (ApplyCommits(o, TRUE) \/ ApplyReplays(o))

FairSpec ==
  /\ Spec
  /\ WF_vars(Start) /\ SF_vars(WorkerExit)
  /\ WF_vars(state = "stopping" /\ StopCall)
  /\ WF_vars(FlushBegin("worker")) /\ SF_vars(FlushBegin("stopper")) /\ WF_vars(FlushEnd)
  /\ WF_vars(\E o \in todo : Apply(o))
  /\ \A g \in Groups : SF_vars(Succeeds(g))
  /\ WF_vars(\E d \in doubt : DoubtCommits(d) \/ DoubtAborts(d))

-----------------------------------------------------------------------------
CellInts == [Cells -> Int]
Operations == [grp : Groups, id : OpIds, upd : CellInts]

QueueType == /\ stores \in CellInts /\ inFlight \in CellInts
             /\ operationIDs \in [Groups -> OpIds \cup {NoOp}]
ThreadType == /\ state \in {"new", "running", "stopping", "stopped"}
              /\ worker \in {"off", "loop", "done"}
              /\ stopper \in {"off", "waiting", "loop"}
FlushType == /\ gate \in {"free", "worker", "stopper"}
             /\ todo \subseteq Operations /\ failures \in {"none", "some"}
             /\ confirmed \subseteq OpIds
TableType == /\ val \in CellInts /\ discarded \in CellInts
             /\ row \in [Groups -> {"active", "soft", "gone"}]
             /\ deleteLedger \subseteq Cells
JournalType == /\ ledger \in [OpIds -> [result : {"none", "updated", "discarded"}, upd : CellInts]]
               /\ doubt \subseteq Operations /\ done \subseteq OpIds
AccountType == /\ admitted \in CellInts /\ lost \in CellInts /\ orphaned \in CellInts
               /\ minted \subseteq OpIds /\ adds \in Nat

\* The type of every variable.
TypeOK ==
  QueueType /\ ThreadType /\ FlushType /\ TableType /\ JournalType /\ AccountType

\* What is in flight for c and has not been written.
Unwritten(c) == IF operationIDs[GroupOf[c]] \in done THEN 0 ELSE inFlight[c]

\* Exactly once: every admitted delta is in exactly one place - written to
\* its row or to the delete ledger of its deleted row, waiting, in flight,
\* lost with a crashed process, or in a transaction that outlived one.  In
\* particular the retry of an operation whose commit was not seen, or is seen
\* late, never writes it twice (applyFlushOperation), and a failed group never
\* loses it (finalizeGroup).
ExactlyOnce ==
  \A c \in Cells :
    admitted[c] = val[c] + discarded[c] + stores[c] + Unwritten(c) + lost[c] + orphaned[c]

\* A stopped updater has written everything it admitted, except what an
\* earlier crash took: nothing is admitted behind the last flush of
\* StopAndFlush.
StoppedIsWritten ==
  state = "stopped" =>
    \A c \in Cells : admitted[c] = val[c] + discarded[c] + lost[c] + orphaned[c]

\* The errors "operation identity missing", "operation identity mismatch",
\* "in-flight state mismatch" and the payload mismatch of the ledger never
\* happen: an operation keeps its id and its payload from the snapshot to the
\* confirmation, through every retry.
OperationsKeepIdentity ==
  /\ \A g \in Touched(inFlight) : operationIDs[g] # NoOp
  /\ \A o \in todo : operationIDs[o.grp] = o.id /\ o.upd = Only(o.grp, inFlight)
  /\ \A g \in Groups : operationIDs[g] # NoOp /\ ledger[operationIDs[g]] # NoEntry =>
       ledger[operationIDs[g]].upd = Only(g, inFlight)

\* The sum a row will receive never leaves the range of int, although stores
\* and inFlight are checked at admission only.
SumsFit == \A c \in Cells : inFlight[c] + stores[c] \in Ints /\ stores[c] \in Ints

\* A row that is gone has a delete ledger for every column, so its deltas can
\* always be absorbed and never block the queue; also when only some columns
\* of an old soft-deleted row had got one.
GoneRowsAbsorb == \A g \in Groups : row[g] = "gone" => CellsOf(g) \subseteq deleteLedger

\* Shutdown's final flush completes, whatever fails on the way, unless the
\* process is killed.
StopCompletes == state = "stopping" ~> state \in {"stopped", "new"}

\* Every operation is confirmed in the end, unless the process dies.
OperationsConfirm ==
  \A g \in Groups : operationIDs[g] # NoOp ~> operationIDs[g] = NoOp

=============================================================================
