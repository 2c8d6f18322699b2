------------------------- MODULE BatchUpdaterProofs -------------------------
(***************************************************************************)
(* Proofs about the batch updater, for any rows, cells, ids and deltas.    *)
(*                                                                         *)
(* BatchInv is inductive: types, and the identity of operations from the   *)
(* minting of an id to its confirmation, through unseen commits, commits   *)
(* the server decides late, and crashes.  ExactlyOnce, OrphansOpen,        *)
(* SumsFit, StoppedEmpty and GoneRowsAbsorb are each inductive relative to *)
(* it.                                                                     *)
(***************************************************************************)
EXTENDS BatchUpdater, TLAPS

(* The inductive invariant. *)

\* Ids are never reused: those in flight are minted and belong to one row
\* each, what has been written was minted, and a ledger row tells of a write.
IdsMinted ==
  /\ \A g \in Groups : operationIDs[g] # NoOp => operationIDs[g] \in minted
  /\ \A g, h \in Groups : operationIDs[g] # NoOp /\ operationIDs[g] = operationIDs[h] => g = h
  /\ done \subseteq minted
  /\ \A i \in OpIds : ledger[i] # NoEntry => i \in done

\* While an operation is in flight its write is in the ledger: what makes the
\* retry of a commit nobody saw safe.  Only confirmed ids are cleaned up, and
\* those are no longer in flight.
WrittenRecorded ==
  /\ \A g \in Groups : operationIDs[g] \in done => ledger[operationIDs[g]] # NoEntry
  /\ \A g \in Groups : operationIDs[g] \notin confirmed

\* An open transaction has not been written, is the only one of its row and
\* of its id, and carries what is in flight under its id, if anything is.
OpenKnown ==
  \A d \in doubt :
    /\ d.id \in minted /\ d.id \notin done
    /\ \A g \in Groups : operationIDs[g] = d.id => g = d.grp /\ d.upd = Only(g, inFlight)
    /\ \A e \in doubt : e.grp = d.grp \/ e.id = d.id => e = d
    /\ \A c \in Cells : GroupOf[c] # d.grp => d.upd[c] = 0

\* What the history calls orphaned is exactly what open transactions of dead
\* processes carry: nothing once none is open.
OrphansOpen ==
  \A c \in Cells :
    /\ \A d \in doubt : d.grp = GroupOf[c] /\ Orphan(d) => orphaned[c] = d.upd[c]
    /\ (\A d \in doubt : d.grp = GroupOf[c] => ~Orphan(d)) => orphaned[c] = 0

\* The life of an operation, from its id to its confirmation.
Identity == IdsMinted /\ WrittenRecorded /\ OpenKnown /\ OperationsKeepIdentity

\* A stopped updater holds nothing.
StoppedEmpty ==
  state = "stopped" => \A c \in Cells : stores[c] = 0 /\ inFlight[c] = 0

BatchInv == TypeOK /\ Identity

-----------------------------------------------------------------------------
(* The operators. *)

\* The ids handed out are a minting.
LEMMA FreshMints ==
  Mintings # {} => Fresh \in Mintings
  BY Zenon DEF Fresh

\* What a minting gives.
LEMMA FreshIds ==
  ASSUME Mintings # {}
  PROVE  /\ \A g \in Ready : Fresh[g] \in OpIds /\ Fresh[g] \notin minted
         /\ \A g, h \in Ready : Fresh[g] = Fresh[h] => g = h
  BY FreshMints DEF Mintings

\* A table of integers, written point by point.
LEMMA NoDeltasType == NoDeltas \in CellInts /\ \A c \in Cells : NoDeltas[c] = 0
  BY DEF NoDeltas, CellInts

\* The restriction of integer deltas to a row.
LEMMA OnlyType ==
  ASSUME NEW g, NEW f \in CellInts
  PROVE  Only(g, f) \in CellInts
  BY DEF Only, CellInts

\* The sum of two tables of integers is one.
LEMMA SumType ==
  ASSUME NEW f \in CellInts, NEW h \in CellInts
  PROVE  /\ [c \in Cells |-> f[c] + h[c]] \in CellInts
         /\ [c \in Cells |-> f[c] - h[c]] \in CellInts
  BY DEF CellInts

\* The restriction, point by point.
LEMMA OnlyAt ==
  ASSUME NEW g, NEW f, NEW c \in Cells
  PROVE  Only(g, f)[c] = IF GroupOf[c] = g THEN f[c] ELSE 0
  BY DEF Only

\* Only the deltas of the row count.
LEMMA OnlyKept ==
  ASSUME NEW g, NEW f, NEW h, \A c \in Cells : GroupOf[c] = g => f[c] = h[c]
  PROVE  Only(g, f) = Only(g, h)
  BY DEF Only

\* The rows with a delta.
LEMMA TouchedAt ==
  ASSUME NEW g, NEW f
  PROVE  g \in Touched(f) <=> \E c \in Cells : f[c] # 0 /\ GroupOf[c] = g
  BY DEF Touched

\* A row that is touched is a row.
LEMMA TouchedGroups ==
  ASSUME NEW f
  PROVE  Touched(f) \subseteq Groups
  BY BatchConstants DEF Touched

\* The rows to snapshot are rows without an operation.
LEMMA ReadyGroups == Ready \subseteq Groups /\ \A g \in Ready : operationIDs[g] = NoOp
  BY TouchedGroups DEF Ready

\* The fields of an operation.
LEMMA OperationFields ==
  ASSUME NEW o \in Operations
  PROVE  o.grp \in Groups /\ o.id \in OpIds /\ o.upd \in CellInts /\ o.id # NoOp
  BY BatchConstants DEF Operations

\* A ledger row that holds a result is not the absence of one.
LEMMA EntryIsEntry ==
  ASSUME NEW u
  PROVE  /\ [result |-> "updated", upd |-> u] # NoEntry
         /\ [result |-> "discarded", upd |-> u] # NoEntry
  BY DEF NoEntry

-----------------------------------------------------------------------------
(* Types. *)

\* The initial state is typed.
LEMMA InitTypes == Init => TypeOK
<1> SUFFICES ASSUME Init PROVE TypeOK
  OBVIOUS
<1>1. QueueType
  BY NoDeltasType DEF Init, QueueType
<1>2. ThreadType /\ FlushType
  BY DEF Init, ThreadType, FlushType
<1>3. TableType
  BY NoDeltasType DEF Init, TableType
<1>4. NoEntry \in [result : {"none", "updated", "discarded"}, upd : CellInts]
  BY NoDeltasType DEF NoEntry
<1>5. JournalType
  BY <1>4 DEF Init, JournalType
<1>6. AccountType
  BY NoDeltasType DEF Init, AccountType
<1> QED
  BY <1>1, <1>2, <1>3, <1>5, <1>6 DEF TypeOK

\* A commit keeps the types of the tables.
LEMMA CommitTypes ==
  ASSUME TypeOK, NEW o \in Operations, Commit(o)
  PROVE  TableType' /\ ledger' \in [OpIds -> [result : {"none", "updated", "discarded"}, upd : CellInts]]
         /\ done' \subseteq OpIds
<1>1. o.grp \in Groups /\ o.id \in OpIds /\ o.upd \in CellInts
  BY OperationFields
<1>2. val \in CellInts /\ discarded \in CellInts
  BY DEF TypeOK, TableType
<1>3. val' \in CellInts /\ discarded' \in CellInts
  BY <1>1, <1>2, SumType DEF Commit
<1>4. TableType'
  BY <1>3 DEF Commit, TypeOK, TableType
<1>5. ledger' \in [OpIds -> [result : {"none", "updated", "discarded"}, upd : CellInts]]
  BY <1>1 DEF Commit, TypeOK, JournalType
<1> QED
  BY <1>1, <1>4, <1>5 DEF Commit, TypeOK, JournalType

\* The end of an operation keeps the types of the queue.
LEMMA FinalizeTypes ==
  ASSUME TypeOK, NEW o \in Operations, Finalize(o) \/ Keep
  PROVE  /\ inFlight' \in CellInts /\ operationIDs' \in [Groups -> OpIds \cup {NoOp}]
         /\ confirmed' \subseteq OpIds /\ failures' \in {"none", "some"}
<1>1. o.grp \in Groups /\ o.id \in OpIds /\ o.upd \in CellInts
  BY OperationFields
<1>2. inFlight \in CellInts
  BY DEF TypeOK, QueueType
<1>3. [c \in Cells |-> IF o.upd[c] # 0 THEN 0 ELSE inFlight[c]] \in CellInts
  BY <1>2 DEF CellInts
<1> QED
  BY <1>1, <1>2, <1>3 DEF Finalize, Keep, TypeOK, QueueType, FlushType

\* What the snapshot of a flush does, row by row and cell by cell: a row that
\* has no operation gets a new id and its stored deltas go in flight; the
\* others stay as they are.
Snapshot ==
  /\ \A g \in Ready : /\ operationIDs[g] = NoOp
                      /\ operationIDs'[g] \in OpIds /\ operationIDs'[g] \notin minted
                      /\ operationIDs'[g] \in minted'
  /\ \A g, h \in Ready : operationIDs'[g] = operationIDs'[h] => g = h
  /\ \A g \in Groups \ Ready : operationIDs'[g] = operationIDs[g]
  /\ minted \subseteq minted'
  /\ \A c \in Cells : GroupOf[c] \in Ready =>
       inFlight[c] = 0 /\ inFlight'[c] = stores[c] /\ stores'[c] = 0
  /\ \A c \in Cells : GroupOf[c] \notin Ready =>
       inFlight'[c] = inFlight[c] /\ stores'[c] = stores[c]

\* The snapshot a flush takes.
LEMMA FlushEffect ==
  ASSUME TypeOK, OperationsKeepIdentity, NEW who, FlushBegin(who)
  PROVE  Snapshot
<1>1. Mintings # {}
  BY DEF FlushBegin
<1>2. Ready \subseteq Groups /\ \A g \in Ready : operationIDs[g] = NoOp
  BY ReadyGroups
<1>3. \A g \in Groups : operationIDs'[g] = IF g \in Ready THEN Fresh[g] ELSE operationIDs[g]
  BY DEF FlushBegin
<1>4. /\ \A g \in Ready : Fresh[g] \in OpIds /\ Fresh[g] \notin minted
      /\ \A g, h \in Ready : Fresh[g] = Fresh[h] => g = h
  BY <1>1, FreshIds
<1>5. minted' = minted \cup {Fresh[g] : g \in Ready}
  BY DEF FlushBegin
<1>6. \A c \in Cells : GroupOf[c] \in Ready => inFlight[c] = 0
  BY <1>2, TouchedAt DEF OperationsKeepIdentity
<1>7. \A c \in Cells : GroupOf[c] \in Ready => inFlight'[c] = stores[c] /\ stores'[c] = 0
  BY <1>6 DEF FlushBegin
<1>8. \A c \in Cells : GroupOf[c] \notin Ready => inFlight'[c] = inFlight[c] /\ stores'[c] = stores[c]
  BY DEF FlushBegin
<1> QED
  BY <1>2, <1>3, <1>4, <1>5, <1>6, <1>7, <1>8 DEF Snapshot

\* The operations a flush lists.
LEMMA FlushLists ==
  ASSUME NEW who, FlushBegin(who), NEW o \in todo'
  PROVE  \E g \in Touched(inFlight') :
           o = [grp |-> g, id |-> operationIDs'[g], upd |-> Only(g, inFlight')]
<1>1. todo' = {[grp |-> g, id |-> operationIDs'[g], upd |-> Only(g, inFlight')] :
                 g \in Touched(inFlight')}
  BY DEF FlushBegin
<1> QED
  BY <1>1

\* A row in flight after the snapshot has an id.
LEMMA FlushIds ==
  ASSUME TypeOK, OperationsKeepIdentity, NEW who, FlushBegin(who),
         NEW g \in Touched(inFlight')
  PROVE  g \in Groups /\ operationIDs'[g] \in OpIds
<1>1. g \in Groups
  BY TouchedGroups
<1>2. PICK c \in Cells : inFlight'[c] # 0 /\ GroupOf[c] = g
  BY TouchedAt
<1>3. CASE g \in Ready
  BY <1>1, <1>3, FlushEffect DEF Snapshot
<1>4. CASE g \notin Ready
  <2>1. inFlight[c] # 0 /\ operationIDs'[g] = operationIDs[g]
    BY <1>1, <1>2, <1>4, FlushEffect DEF Snapshot
  <2>2. operationIDs[g] # NoOp
    BY <1>2, <2>1, TouchedAt DEF OperationsKeepIdentity
  <2> QED
    BY <1>1, <2>1, <2>2 DEF TypeOK, QueueType
<1> QED
  BY <1>3, <1>4

\* Every step keeps the types.  That a flush lists only operations that have
\* an id needs the identity of what is in flight.
LEMMA NextTypes == TypeOK /\ OperationsKeepIdentity /\ [Next]_vars => TypeOK'
<1> SUFFICES ASSUME TypeOK, OperationsKeepIdentity, [Next]_vars PROVE TypeOK'
  OBVIOUS
<1> USE DEF queue, threads, flush, table, journal, account
<1>1. CASE Start \/ WorkerExit \/ StopCall \/ StopExpires
  BY <1>1 DEF Start, WorkerExit, StopCall, StopExpires, TypeOK, QueueType, ThreadType,
              FlushType, TableType, JournalType, AccountType
<1>2. ASSUME NEW upd \in [Cells -> Deltas], AddMany(upd) PROVE TypeOK'
  <2>1. upd \in CellInts
    BY BatchConstants DEF CellInts
  <2>2. stores \in CellInts /\ admitted \in CellInts
    BY DEF TypeOK, QueueType, AccountType
  <2>3. stores' \in CellInts
    BY <1>2, <2>1, <2>2, SumType DEF AddMany
  <2>4. admitted' \in CellInts
    BY <1>2, <2>1, <2>2, SumType DEF AddMany
  <2>5. adds' \in Nat
    BY <1>2 DEF AddMany, TypeOK, AccountType
  <2> QED
    BY <1>2, <2>3, <2>4, <2>5 DEF AddMany, TypeOK, QueueType, ThreadType,
              FlushType, TableType, JournalType, AccountType
<1>3. ASSUME NEW who \in {"worker", "stopper"}, FlushBegin(who) PROVE TypeOK'
  <2>1. Ready \subseteq Groups
    BY ReadyGroups
  <2>2. stores \in CellInts /\ inFlight \in CellInts
    BY DEF TypeOK, QueueType
  <2>3. stores' \in CellInts /\ inFlight' \in CellInts
    BY <1>3, <2>2 DEF FlushBegin, CellInts
  <2>4. \A g \in Ready : Fresh[g] \in OpIds
    BY <1>3, FreshIds DEF FlushBegin
  <2>5. operationIDs' \in [Groups -> OpIds \cup {NoOp}] /\ minted' \subseteq OpIds
    BY <1>3, <2>1, <2>4 DEF FlushBegin, TypeOK, QueueType, AccountType
  <2>6. ASSUME NEW g \in Touched(inFlight')
        PROVE  g \in Groups /\ operationIDs'[g] \in OpIds /\ Only(g, inFlight') \in CellInts
    BY <1>3, <2>3, <2>6, OnlyType, FlushIds
  <2>7. ASSUME NEW o \in todo' PROVE o \in Operations
    <3>1. PICK g \in Touched(inFlight') :
            o = [grp |-> g, id |-> operationIDs'[g], upd |-> Only(g, inFlight')]
      BY <1>3, FlushLists
    <3> QED
      BY <2>6, <3>1 DEF Operations
  <2>8. todo' \subseteq Operations
    BY <2>7
  <2> QED
    BY <1>3, <2>3, <2>5, <2>8 DEF FlushBegin, TypeOK, QueueType, ThreadType,
              FlushType, TableType, JournalType, AccountType
<1>4. ASSUME NEW o \in todo, Apply(o) PROVE TypeOK'
  <2>1. o \in Operations
    BY DEF TypeOK, FlushType
  <2>2. Finalize(o) \/ Keep
    BY <1>4 DEF Apply, ApplyCommits, ApplyReplays, ApplyFails, ApplyInDoubt
  <2>3. /\ inFlight' \in CellInts /\ operationIDs' \in [Groups -> OpIds \cup {NoOp}]
        /\ confirmed' \subseteq OpIds /\ failures' \in {"none", "some"}
    BY <2>1, <2>2, FinalizeTypes
  <2>4. QueueType' /\ ThreadType' /\ FlushType' /\ AccountType'
    BY <1>4, <2>3 DEF Apply, ApplyCommits, ApplyReplays, ApplyFails, ApplyInDoubt,
              TypeOK, QueueType, ThreadType, FlushType, AccountType
  <2>5. TableType' /\ JournalType'
    <3>1. CASE \E seen \in BOOLEAN : ApplyCommits(o, seen)
      BY <2>1, <3>1, CommitTypes DEF ApplyCommits, TypeOK, JournalType
    <3>2. CASE ApplyReplays(o) \/ ApplyFails(o)
      BY <3>2 DEF ApplyReplays, ApplyFails, TypeOK, TableType, JournalType
    <3>3. CASE ApplyInDoubt(o)
      BY <2>1, <3>3 DEF ApplyInDoubt, TypeOK, TableType, JournalType
    <3> QED
      BY <1>4, <3>1, <3>2, <3>3 DEF Apply
  <2> QED
    BY <2>4, <2>5 DEF TypeOK
<1>5. CASE FlushEnd
  <2>1. NoEntry \in [result : {"none", "updated", "discarded"}, upd : CellInts]
    BY NoDeltasType DEF NoEntry
  <2>2. ledger' \in [OpIds -> [result : {"none", "updated", "discarded"}, upd : CellInts]]
    BY <1>5, <2>1 DEF FlushEnd, TypeOK, JournalType
  <2> QED
    BY <1>5, <2>2 DEF FlushEnd, TypeOK, QueueType, ThreadType,
              FlushType, TableType, JournalType, AccountType
<1>6. ASSUME NEW d \in doubt, DoubtCommits(d) \/ DoubtAborts(d) PROVE TypeOK'
  <2>1. d \in Operations /\ d.upd \in CellInts
    BY OperationFields DEF TypeOK, JournalType
  <2>2. orphaned \in CellInts /\ lost \in CellInts
    BY DEF TypeOK, AccountType
  <2>3. orphaned' \in CellInts
    BY <1>6, <2>1, <2>2, SumType DEF DoubtCommits, DoubtAborts
  <2>4. lost' \in CellInts
    BY <1>6, <2>1, <2>2, SumType DEF DoubtCommits, DoubtAborts
  <2>5. TableType' /\ JournalType'
    <3>1. CASE DoubtCommits(d)
      BY <2>1, <3>1, CommitTypes DEF DoubtCommits, TypeOK, JournalType
    <3>2. CASE DoubtAborts(d)
      BY <3>2 DEF DoubtAborts, TypeOK, TableType, JournalType
    <3> QED
      BY <1>6, <3>1, <3>2
  <2> QED
    BY <1>6, <2>3, <2>4, <2>5 DEF DoubtCommits, DoubtAborts, TypeOK, QueueType, ThreadType,
              FlushType, AccountType
<1>7. ASSUME NEW g \in Groups, SoftDelete(g) \/ HardDelete(g) PROVE TypeOK'
  BY <1>7 DEF SoftDelete, HardDelete, CellsOf, TypeOK, QueueType, ThreadType,
              FlushType, TableType, JournalType, AccountType
<1>8. CASE Crash
  <2>1. /\ orphaned \in CellInts /\ lost \in CellInts /\ stores \in CellInts
        /\ inFlight \in CellInts
    BY DEF TypeOK, AccountType, QueueType
  <2>2. lost' \in CellInts /\ orphaned' \in CellInts
    BY <1>8, <2>1 DEF Crash, CellInts
  <2> QED
    BY <1>8, <2>2, NoDeltasType DEF Crash, TypeOK, QueueType, ThreadType,
              FlushType, TableType, JournalType, AccountType
<1>9. CASE UNCHANGED vars
  BY <1>9 DEF vars, TypeOK, QueueType, ThreadType,
              FlushType, TableType, JournalType, AccountType
<1> QED
  BY <1>1, <1>2, <1>3, <1>4, <1>5, <1>6, <1>7, <1>8, <1>9 DEF Next, Updater, Environment

-----------------------------------------------------------------------------
(* What the parts of an operation do. *)

\* A confirmed operation leaves flight, with its whole row.
LEMMA FinalizeEffect ==
  ASSUME TypeOK, OperationsKeepIdentity, NEW o \in todo, Finalize(o)
  PROVE  /\ operationIDs'[o.grp] = NoOp
         /\ \A g \in Groups : g # o.grp => operationIDs'[g] = operationIDs[g]
         /\ \A c \in Cells : inFlight'[c] = IF GroupOf[c] = o.grp THEN 0 ELSE inFlight[c]
         /\ confirmed' = confirmed \cup {o.id}
<1>1. o.grp \in Groups /\ o.id \in OpIds /\ o.upd \in CellInts
  BY OperationFields DEF TypeOK, FlushType
<1>2. operationIDs[o.grp] = o.id /\ o.upd = Only(o.grp, inFlight)
  BY DEF OperationsKeepIdentity
<1>3. \A c \in Cells : o.upd[c] = IF GroupOf[c] = o.grp THEN inFlight[c] ELSE 0
  BY <1>2, OnlyAt
<1>4. \A c \in CellsOf(o.grp) : o.upd[c] # 0 => inFlight[c] = o.upd[c]
  BY <1>3 DEF CellsOf
<1>5. operationIDs' = [operationIDs EXCEPT ![o.grp] = NoOp]
  BY <1>2, <1>4 DEF Finalize
<1>6. inFlight' = [c \in Cells |-> IF o.upd[c] # 0 THEN 0 ELSE inFlight[c]]
  BY <1>2, <1>4 DEF Finalize
<1>7. confirmed' = confirmed \cup {o.id}
  BY <1>2, <1>4 DEF Finalize
<1>8. operationIDs \in [Groups -> OpIds \cup {NoOp}]
  BY DEF TypeOK, QueueType
<1> QED
  BY <1>1, <1>3, <1>5, <1>6, <1>7, <1>8

\* A commit writes the deltas to the row or to its delete ledger, with the
\* result in the flush ledger.
LEMMA CommitEffect ==
  ASSUME TypeOK, NEW o \in Operations, Commit(o)
  PROVE  /\ \A c \in Cells : val'[c] + discarded'[c] = val[c] + discarded[c] + o.upd[c]
         /\ ledger'[o.id] # NoEntry /\ ledger'[o.id].upd = o.upd
         /\ \A i \in OpIds : i # o.id => ledger'[i] = ledger[i]
         /\ done' = done \cup {o.id}
<1>1. o.grp \in Groups /\ o.id \in OpIds /\ o.upd \in CellInts
  BY OperationFields
<1>2. val \in CellInts /\ discarded \in CellInts
  BY DEF TypeOK, TableType
<1>3. \A c \in Cells : val[c] \in Int /\ discarded[c] \in Int /\ o.upd[c] \in Int
  BY <1>1, <1>2 DEF CellInts
<1>4. \A c \in Cells : val'[c] + discarded'[c] = val[c] + discarded[c] + o.upd[c]
  BY <1>3 DEF Commit
<1>5. DOMAIN ledger = OpIds
  BY DEF TypeOK, JournalType
<1>6. ledger' = [ledger EXCEPT ![o.id] = [result |-> "updated", upd |-> o.upd]] \/
      ledger' = [ledger EXCEPT ![o.id] = [result |-> "discarded", upd |-> o.upd]]
  BY DEF Commit
<1>7. ledger'[o.id] # NoEntry /\ ledger'[o.id].upd = o.upd
  BY <1>1, <1>5, <1>6, EntryIsEntry
<1>8. \A i \in OpIds : i # o.id => ledger'[i] = ledger[i]
  BY <1>5, <1>6
<1> QED
  BY <1>4, <1>7, <1>8 DEF Commit

-----------------------------------------------------------------------------
(* The identity of operations. *)

\* A row, an id and a payload that no step touches stay a good operation.
LEMMA InitIdentity == Init => Identity
<1> SUFFICES ASSUME Init PROVE Identity
  OBVIOUS
<1>1. \A g \in Groups : operationIDs[g] = NoOp
  BY DEF Init
<1>2. \A i \in OpIds : ledger[i] = NoEntry
  BY DEF Init
<1>3. Touched(inFlight) = {}
  BY NoDeltasType DEF Init, Touched
<1>4. done = {} /\ doubt = {} /\ todo = {} /\ confirmed = {}
  BY DEF Init
<1> QED
  BY <1>1, <1>2, <1>3, <1>4 DEF Identity, IdsMinted, WrittenRecorded, OpenKnown,
                                OperationsKeepIdentity

\* The snapshot: new ids are nobody's, and rows in flight are left alone.
LEMMA FlushBeginIdentity ==
  ASSUME BatchInv, NEW who \in {"worker", "stopper"}, FlushBegin(who)
  PROVE  Identity'
<1>1. TypeOK /\ OperationsKeepIdentity /\ IdsMinted /\ WrittenRecorded /\ OpenKnown
  BY DEF BatchInv, Identity
<1>2. UNCHANGED <<ledger, doubt, done>> /\ confirmed' = {}
  BY DEF FlushBegin, journal
<1>e. Snapshot
  BY <1>1, FlushEffect
<1>g. operationIDs \in [Groups -> OpIds \cup {NoOp}] /\ Ready \subseteq Groups
  BY <1>1, ReadyGroups DEF TypeOK, QueueType
<1>3. IdsMinted'
  BY <1>1, <1>2, <1>e, <1>g DEF IdsMinted, Snapshot
<1>4. WrittenRecorded'
  BY <1>1, <1>2, <1>e, <1>g DEF IdsMinted, WrittenRecorded, Snapshot
<1>5. \A g \in Groups \ Ready : Only(g, inFlight') = Only(g, inFlight)
  BY <1>e, OnlyKept DEF Snapshot
<1>6. OpenKnown'
  <2> SUFFICES ASSUME NEW d \in doubt, NEW g \in Groups, operationIDs'[g] = d.id
               PROVE  g = d.grp /\ d.upd = Only(g, inFlight')
    BY <1>1, <1>2, <1>e DEF OpenKnown, Snapshot
  <2>1. d.id \in minted
    BY <1>1 DEF OpenKnown
  <2>2. g \notin Ready
    BY <1>e, <2>1 DEF Snapshot
  <2> QED
    BY <1>1, <1>e, <1>5, <2>2 DEF OpenKnown, Snapshot
<1>7. \A g \in Touched(inFlight') : operationIDs'[g] # NoOp
  BY <1>1, FlushIds, BatchConstants
<1>8. \A o \in todo' : operationIDs'[o.grp] = o.id /\ o.upd = Only(o.grp, inFlight')
  BY FlushLists
<1>9. ASSUME NEW g \in Groups, operationIDs'[g] # NoOp, ledger[operationIDs'[g]] # NoEntry
      PROVE  ledger[operationIDs'[g]].upd = Only(g, inFlight')
  <2>1. operationIDs'[g] \in minted
    BY <1>1, <1>9, <1>e, <1>g DEF IdsMinted, Snapshot
  <2>2. g \notin Ready
    BY <1>e, <2>1 DEF Snapshot
  <2> QED
    BY <1>1, <1>e, <1>5, <1>9, <2>2 DEF OperationsKeepIdentity, Snapshot
<1> QED
  BY <1>2, <1>3, <1>4, <1>6, <1>7, <1>8, <1>9 DEF Identity, OperationsKeepIdentity

\* What Identity speaks of.
IdentityKept ==
  UNCHANGED <<operationIDs, inFlight, minted, done, ledger, doubt>>

\* A step that leaves operations alone, and lists and confirms no more of
\* them, keeps their identity.
LEMMA KeptIdentity ==
  ASSUME Identity, IdentityKept, todo' \subseteq todo,
         \A i \in confirmed' : i \in confirmed
  PROVE  Identity'
<1>1. IdsMinted'
  BY DEF Identity, IdentityKept, IdsMinted
<1>2. WrittenRecorded'
  BY DEF Identity, IdentityKept, WrittenRecorded
<1>3. OpenKnown'
  BY DEF Identity, IdentityKept, OpenKnown
<1>4. OperationsKeepIdentity'
  BY DEF Identity, IdentityKept, OperationsKeepIdentity
<1> QED
  BY <1>1, <1>2, <1>3, <1>4 DEF Identity

\* An operation of the flush that has no result in the ledger is not written.
LEMMA UnrecordedUnwritten ==
  ASSUME BatchInv, NEW o \in todo
  PROVE  /\ o \in Operations /\ o.grp \in Groups /\ o.id \in OpIds /\ o.id # NoOp
         /\ operationIDs[o.grp] = o.id /\ o.upd = Only(o.grp, inFlight)
         /\ o.id \in minted
         /\ ledger[o.id] = NoEntry <=> o.id \notin done
<1>1. o \in Operations
  BY DEF BatchInv, TypeOK, FlushType
<1>2. o.grp \in Groups /\ o.id \in OpIds /\ o.id # NoOp
  BY <1>1, OperationFields
<1>3. operationIDs[o.grp] = o.id /\ o.upd = Only(o.grp, inFlight)
  BY DEF BatchInv, Identity, OperationsKeepIdentity
<1> QED
  BY <1>1, <1>2, <1>3 DEF BatchInv, Identity, IdsMinted, WrittenRecorded

\* An open transaction of an operation in flight carries its payload; an
\* operation with a result has no open transaction, nor has one whose row is
\* unlocked.
LEMMA NoOpenTransaction ==
  ASSUME BatchInv, NEW o \in todo, (o.id \in done \/ Unlocked(o.grp)), NEW d \in doubt
  PROVE  d.id # o.id
  BY UnrecordedUnwritten DEF BatchInv, Identity, OpenKnown, Unlocked

\* Confirming an operation that has been written.
LEMMA FinalizeIdentity ==
  ASSUME BatchInv, NEW o \in todo, Finalize(o), todo' = todo \ {o},
         \A d \in doubt : d.id # o.id,
         \A i \in OpIds : i # o.id => ledger'[i] = ledger[i],
         ledger'[o.id] # NoEntry,
         done' = done \cup {o.id}, UNCHANGED <<minted, doubt>>
  PROVE  Identity'
<1>1. TypeOK /\ OperationsKeepIdentity /\ IdsMinted /\ WrittenRecorded /\ OpenKnown
  BY DEF BatchInv, Identity
<1>2. /\ operationIDs'[o.grp] = NoOp
      /\ \A g \in Groups : g # o.grp => operationIDs'[g] = operationIDs[g]
      /\ \A c \in Cells : inFlight'[c] = IF GroupOf[c] = o.grp THEN 0 ELSE inFlight[c]
      /\ confirmed' = confirmed \cup {o.id}
  BY <1>1, FinalizeEffect
<1>3. /\ o.grp \in Groups /\ o.id \in OpIds /\ o.id # NoOp /\ operationIDs[o.grp] = o.id
      /\ o.id \in minted
  BY UnrecordedUnwritten
<1>4. operationIDs \in [Groups -> OpIds \cup {NoOp}] /\ confirmed \subseteq OpIds /\ done \subseteq OpIds
  BY <1>1 DEF TypeOK, QueueType, FlushType, JournalType
<1>5. NoOp \notin OpIds
  BY BatchConstants
<1>6. \A g \in Groups : g # o.grp => operationIDs[g] # o.id
  BY <1>1, <1>3 DEF IdsMinted
<1>7. IdsMinted'
  BY <1>1, <1>2, <1>3, <1>4, <1>5 DEF IdsMinted
<1>8. WrittenRecorded'
  <2> SUFFICES ASSUME NEW g \in Groups
               PROVE  /\ operationIDs'[g] \in done' => ledger'[operationIDs'[g]] # NoEntry
                      /\ operationIDs'[g] \notin confirmed'
    BY DEF WrittenRecorded
  <2>1. CASE g = o.grp
    BY <1>2, <1>3, <1>4, <1>5, <2>1
  <2>2. CASE g # o.grp
    <3>1. operationIDs'[g] = operationIDs[g] /\ operationIDs[g] # o.id
      BY <1>2, <1>6, <2>2
    <3> QED
      BY <1>1, <1>2, <1>4, <3>1 DEF WrittenRecorded
  <2> QED
    BY <2>1, <2>2
<1>9. \A g \in Groups : g # o.grp => Only(g, inFlight') = Only(g, inFlight)
  BY <1>2, OnlyKept
<1>10. OpenKnown'
  <2>1. \A d \in doubt : d.id \in OpIds
    BY <1>1, OperationFields DEF TypeOK, JournalType
  <2>2. \A d \in doubt : d.id \in minted' /\ d.id \notin done'
    BY <1>1 DEF OpenKnown
  <2>3. ASSUME NEW d \in doubt, NEW g \in Groups, operationIDs'[g] = d.id
        PROVE  g = d.grp /\ d.upd = Only(g, inFlight')
    <3>1. g # o.grp
      BY <1>2, <1>5, <2>1, <2>3
    <3> QED
      BY <1>1, <1>2, <1>9, <2>3, <3>1 DEF OpenKnown
  <2> QED
    BY <1>1, <2>2, <2>3 DEF OpenKnown
<1>11. ASSUME NEW g \in Touched(inFlight') PROVE operationIDs'[g] # NoOp
  <2>1. PICK c \in Cells : inFlight'[c] # 0 /\ GroupOf[c] = g
    BY TouchedAt
  <2>2. g # o.grp /\ inFlight[c] # 0 /\ g \in Groups
    BY <1>2, <2>1, BatchConstants
  <2>3. g \in Touched(inFlight)
    BY <2>1, <2>2, TouchedAt
  <2> QED
    BY <1>1, <1>2, <2>2, <2>3 DEF OperationsKeepIdentity
<1>12. ASSUME NEW p \in todo' PROVE operationIDs'[p.grp] = p.id /\ p.upd = Only(p.grp, inFlight')
  <2>1. p \in todo /\ p # o /\ p \in Operations /\ o \in Operations
    BY <1>1 DEF TypeOK, FlushType
  <2>2. operationIDs[p.grp] = p.id /\ p.upd = Only(p.grp, inFlight) /\ p.grp \in Groups
    BY <1>1, <2>1, OperationFields DEF OperationsKeepIdentity
  <2>3. o.upd = Only(o.grp, inFlight)
    BY <1>1 DEF OperationsKeepIdentity
  <2>4. p.grp # o.grp
    BY <1>3, <2>1, <2>2, <2>3 DEF Operations
  <2> QED
    BY <1>2, <1>9, <2>2, <2>4
<1>13. ASSUME NEW g \in Groups, operationIDs'[g] # NoOp, ledger'[operationIDs'[g]] # NoEntry
       PROVE  ledger'[operationIDs'[g]].upd = Only(g, inFlight')
  <2>1. g # o.grp
    BY <1>2, <1>13
  <2>2. operationIDs'[g] = operationIDs[g] /\ operationIDs[g] # o.id
    BY <1>2, <1>6, <2>1
  <2>3. ledger'[operationIDs[g]] = ledger[operationIDs[g]]
    BY <1>4, <1>13, <2>2
  <2> QED
    BY <1>1, <1>9, <1>13, <2>1, <2>2, <2>3 DEF OperationsKeepIdentity
<1> QED
  BY <1>7, <1>8, <1>10, <1>11, <1>12, <1>13 DEF Identity, OperationsKeepIdentity

\* A commit that nobody confirms: the flush did not see it, or the server
\* decided it later.
LEMMA CommitIdentity ==
  ASSUME BatchInv, NEW o \in Operations, Commit(o), o.id \in minted,
         \A g \in Groups : operationIDs[g] = o.id => g = o.grp /\ o.upd = Only(g, inFlight),
         doubt' \subseteq doubt, \A d \in doubt' : d.id # o.id,
         UNCHANGED <<operationIDs, inFlight, minted, confirmed>>, todo' \subseteq todo
  PROVE  Identity'
<1>1. TypeOK /\ OperationsKeepIdentity /\ IdsMinted /\ WrittenRecorded /\ OpenKnown
  BY DEF BatchInv, Identity
<1>2. /\ ledger'[o.id] # NoEntry /\ ledger'[o.id].upd = o.upd
      /\ \A i \in OpIds : i # o.id => ledger'[i] = ledger[i]
      /\ done' = done \cup {o.id}
  BY <1>1, CommitEffect
<1>3. operationIDs \in [Groups -> OpIds \cup {NoOp}] /\ done \subseteq OpIds /\ NoOp \notin OpIds
  BY <1>1, BatchConstants DEF TypeOK, QueueType, JournalType
<1>4. IdsMinted'
  BY <1>1, <1>2 DEF IdsMinted
<1>5. WrittenRecorded'
  BY <1>1, <1>2, <1>3 DEF WrittenRecorded
<1>6. OpenKnown'
  BY <1>1, <1>2 DEF OpenKnown
<1>7. OperationsKeepIdentity'
  BY <1>1, <1>2, <1>3 DEF OperationsKeepIdentity
<1> QED
  BY <1>4, <1>5, <1>6, <1>7 DEF Identity

\* The application of one operation.
LEMMA ApplyIdentity ==
  ASSUME BatchInv, NEW o \in todo, Apply(o)
  PROVE  Identity'
<1>1. /\ o \in Operations /\ o.grp \in Groups /\ o.id \in OpIds /\ o.id # NoOp
      /\ operationIDs[o.grp] = o.id /\ o.upd = Only(o.grp, inFlight)
      /\ o.id \in minted
      /\ ledger[o.id] = NoEntry <=> o.id \notin done
  BY UnrecordedUnwritten
<1>2. TypeOK /\ Identity
  BY DEF BatchInv
<1>3. \A g \in Groups : operationIDs[g] = o.id => g = o.grp
  BY <1>1, <1>2 DEF Identity, IdsMinted
<1>4. ASSUME ApplyCommits(o, TRUE) PROVE Identity'
  <2>1. Commit(o) /\ Unlocked(o.grp) /\ Finalize(o) /\ todo' = todo \ {o} /\ UNCHANGED <<minted, doubt>>
    BY <1>4 DEF ApplyCommits
  <2>2. \A d \in doubt : d.id # o.id
    BY <2>1, NoOpenTransaction
  <2>3. /\ ledger'[o.id] # NoEntry
        /\ \A i \in OpIds : i # o.id => ledger'[i] = ledger[i]
        /\ done' = done \cup {o.id}
    BY <1>1, <1>2, <2>1, CommitEffect
  <2> QED
    BY <2>1, <2>2, <2>3, FinalizeIdentity
<1>5. ASSUME ApplyCommits(o, FALSE) PROVE Identity'
  <2>1. /\ Commit(o) /\ Unlocked(o.grp) /\ todo' \subseteq todo
        /\ UNCHANGED <<operationIDs, inFlight, minted, confirmed>> /\ UNCHANGED doubt
    BY <1>5 DEF ApplyCommits, Keep
  <2>2. \A d \in doubt : d.id # o.id
    BY <2>1, NoOpenTransaction
  <2> QED
    BY <1>1, <1>3, <2>1, <2>2, CommitIdentity
<1>6. ASSUME ApplyReplays(o) PROVE Identity'
  <2>1. /\ ledger[o.id] # NoEntry /\ Finalize(o) /\ todo' = todo \ {o}
        /\ UNCHANGED <<minted, doubt>> /\ UNCHANGED <<ledger, done>>
    BY <1>6 DEF ApplyReplays, journal
  <2>2. o.id \in done
    BY <1>1, <2>1
  <2>3. \A d \in doubt : d.id # o.id
    BY <2>2, NoOpenTransaction
  <2>4. done' = done \cup {o.id}
    BY <2>1, <2>2
  <2> QED
    BY <2>1, <2>3, <2>4, FinalizeIdentity
<1>7. ASSUME ApplyFails(o) PROVE Identity'
  BY <1>2, <1>7, KeptIdentity DEF ApplyFails, Keep, journal, IdentityKept
<1>8. ASSUME ApplyInDoubt(o) PROVE Identity'
  <2>1. /\ ledger[o.id] = NoEntry /\ Unlocked(o.grp) /\ doubt' = doubt \cup {o}
        /\ todo' \subseteq todo
        /\ UNCHANGED <<operationIDs, inFlight, confirmed, ledger, done, minted>>
    BY <1>8 DEF ApplyInDoubt, Keep
  <2>2. \A d \in doubt : d.id # o.id /\ d.grp # o.grp
    BY <2>1, NoOpenTransaction DEF Unlocked
  <2>3. \A c \in Cells : GroupOf[c] # o.grp => o.upd[c] = 0
    BY <1>1, OnlyAt
  <2>4. OpenKnown'
    BY <1>1, <1>2, <1>3, <2>1, <2>2, <2>3 DEF Identity, OpenKnown
  <2>5. IdsMinted'
    BY <1>2, <2>1 DEF Identity, IdsMinted
  <2>6. WrittenRecorded'
    BY <1>2, <2>1 DEF Identity, WrittenRecorded
  <2>7. OperationsKeepIdentity'
    BY <1>2, <2>1 DEF Identity, OperationsKeepIdentity
  <2> QED
    BY <2>4, <2>5, <2>6, <2>7 DEF Identity
<1> QED
  BY <1>4, <1>5, <1>6, <1>7, <1>8 DEF Apply

\* The end of a flush forgets ledger rows of operations no longer in flight.
LEMMA FlushEndIdentity ==
  ASSUME BatchInv, FlushEnd
  PROVE  Identity'
<1>1. TypeOK /\ OperationsKeepIdentity /\ IdsMinted /\ WrittenRecorded /\ OpenKnown
  BY DEF BatchInv, Identity
<1>2. /\ UNCHANGED <<operationIDs, inFlight, todo, doubt, done, minted>> /\ confirmed' = {}
  BY DEF FlushEnd, queue
<1>3. \A i \in OpIds : /\ i \notin confirmed => ledger'[i] = ledger[i]
                       /\ ledger'[i] # NoEntry => ledger'[i] = ledger[i]
  BY DEF FlushEnd
<1>4. operationIDs \in [Groups -> OpIds \cup {NoOp}] /\ done \subseteq OpIds
  BY <1>1 DEF TypeOK, QueueType, JournalType
<1>5. IdsMinted'
  BY <1>1, <1>2, <1>3 DEF IdsMinted
<1>6. WrittenRecorded'
  BY <1>1, <1>2, <1>3, <1>4 DEF WrittenRecorded
<1>7. OpenKnown'
  BY <1>1, <1>2 DEF OpenKnown
<1>8. OperationsKeepIdentity'
  BY <1>1, <1>2, <1>3, <1>4 DEF OperationsKeepIdentity
<1> QED
  BY <1>5, <1>6, <1>7, <1>8 DEF Identity

\* The server decides an open transaction.
LEMMA DoubtIdentity ==
  ASSUME BatchInv, NEW d \in doubt, DoubtCommits(d) \/ DoubtAborts(d)
  PROVE  Identity'
<1>1. TypeOK /\ OperationsKeepIdentity /\ IdsMinted /\ WrittenRecorded /\ OpenKnown
  BY DEF BatchInv, Identity
<1>2. UNCHANGED <<operationIDs, inFlight, minted, confirmed, todo>> /\ doubt' = doubt \ {d}
  BY DEF DoubtCommits, DoubtAborts, queue, flush
<1>3. CASE DoubtCommits(d)
  <2>1. d \in Operations /\ d.id \in minted
    BY <1>1 DEF TypeOK, JournalType, OpenKnown
  <2>2. \A g \in Groups : operationIDs[g] = d.id => g = d.grp /\ d.upd = Only(g, inFlight)
    BY <1>1 DEF OpenKnown
  <2>3. \A e \in doubt' : e.id # d.id
    BY <1>1, <1>2 DEF OpenKnown
  <2>4. Commit(d)
    BY <1>3 DEF DoubtCommits
  <2> QED
    BY <1>2, <2>1, <2>2, <2>3, <2>4, CommitIdentity
<1>4. CASE DoubtAborts(d)
  <2>1. UNCHANGED <<ledger, done>>
    BY <1>4 DEF DoubtAborts
  <2>2. IdsMinted'
    BY <1>1, <1>2, <2>1 DEF IdsMinted
  <2>3. WrittenRecorded'
    BY <1>1, <1>2, <2>1 DEF WrittenRecorded
  <2>4. OpenKnown'
    BY <1>1, <1>2, <2>1 DEF OpenKnown
  <2>5. OperationsKeepIdentity'
    BY <1>1, <1>2, <2>1 DEF OperationsKeepIdentity
  <2> QED
    BY <2>2, <2>3, <2>4, <2>5 DEF Identity
<1> QED
  BY <1>3, <1>4

\* A crash forgets every operation in flight; the ledger and the open
\* transactions stay, under ids that are never used again.
LEMMA CrashIdentity ==
  ASSUME BatchInv, Crash
  PROVE  Identity'
<1>1. TypeOK /\ OperationsKeepIdentity /\ IdsMinted /\ WrittenRecorded /\ OpenKnown
  BY DEF BatchInv, Identity
<1>2. /\ \A g \in Groups : operationIDs'[g] = NoOp
      /\ inFlight' = NoDeltas /\ todo' = {} /\ confirmed' = {}
      /\ UNCHANGED <<ledger, doubt, done, minted>>
  BY DEF Crash, journal
<1>3. Touched(inFlight') = {}
  BY <1>2, NoDeltasType DEF Touched
<1>4. NoOp \notin done
  BY <1>1, BatchConstants DEF TypeOK, JournalType
<1>5. \A d \in doubt : d.id # NoOp
  BY <1>1, OperationFields DEF TypeOK, JournalType
<1>6. IdsMinted'
  BY <1>1, <1>2 DEF IdsMinted
<1>7. WrittenRecorded'
  BY <1>2, <1>4 DEF WrittenRecorded
<1>8. OpenKnown'
  BY <1>1, <1>2, <1>5 DEF OpenKnown
<1>9. OperationsKeepIdentity'
  BY <1>2, <1>3 DEF OperationsKeepIdentity
<1> QED
  BY <1>6, <1>7, <1>8, <1>9 DEF Identity

\* Every step keeps types and identity.
LEMMA NextBatchInv == BatchInv /\ [Next]_vars => BatchInv'
<1> SUFFICES ASSUME BatchInv, [Next]_vars PROVE BatchInv'
  OBVIOUS
<1>1. TypeOK'
  BY NextTypes DEF BatchInv, Identity
<1>2. Identity
  BY DEF BatchInv
<1>3. ASSUME Start \/ WorkerExit \/ StopCall \/ StopExpires PROVE Identity'
  BY <1>2, <1>3, KeptIdentity DEF Start, WorkerExit, StopCall, StopExpires, IdentityKept,
                                  queue, flush, journal
<1>4. ASSUME NEW upd \in [Cells -> Deltas], AddMany(upd) PROVE Identity'
  BY <1>2, <1>4, KeptIdentity DEF AddMany, IdentityKept, flush, journal
<1>5. ASSUME NEW g \in Groups, SoftDelete(g) \/ HardDelete(g) PROVE Identity'
  BY <1>2, <1>5, KeptIdentity DEF SoftDelete, HardDelete, IdentityKept, queue, flush, journal
<1>6. ASSUME UNCHANGED vars PROVE Identity'
  BY <1>2, <1>6, KeptIdentity DEF vars, IdentityKept, queue, flush, journal
<1>7. Identity'
  BY <1>3, <1>4, <1>5, <1>6, FlushBeginIdentity, ApplyIdentity, FlushEndIdentity,
     DoubtIdentity, CrashIdentity DEF Next, Updater, Environment
<1> QED
  BY <1>1, <1>7 DEF BatchInv

\* Types and identity hold in every state.
LEMMA AlwaysBatchInv == Spec => []BatchInv
<1>1. Init => BatchInv
  BY InitTypes, InitIdentity DEF BatchInv
<1> QED
  BY <1>1, NextBatchInv, PTL DEF Spec

-----------------------------------------------------------------------------
(* Exactly once. *)

\* The numbers of a cell are integers.
LEMMA CellTypes ==
  ASSUME TypeOK, NEW c \in Cells
  PROVE  /\ stores[c] \in Int /\ inFlight[c] \in Int /\ val[c] \in Int /\ discarded[c] \in Int
         /\ admitted[c] \in Int /\ lost[c] \in Int /\ orphaned[c] \in Int
         /\ Unwritten(c) \in Int /\ GroupOf[c] \in Groups
  BY BatchConstants DEF TypeOK, QueueType, TableType, AccountType, CellInts, Unwritten

\* A step that leaves a cell's numbers alone.
LEMMA KeptOnce ==
  ASSUME ExactlyOnce, UNCHANGED <<stores, inFlight, operationIDs, done>>,
         UNCHANGED <<val, discarded, admitted, lost, orphaned>>
  PROVE  ExactlyOnce'
  BY DEF ExactlyOnce, Unwritten

\* The snapshot moves deltas from the store into flight.
LEMMA FlushBeginOnce ==
  ASSUME BatchInv, ExactlyOnce, NEW who \in {"worker", "stopper"}, FlushBegin(who)
  PROVE  ExactlyOnce'
<1>1. TypeOK /\ OperationsKeepIdentity /\ IdsMinted
  BY DEF BatchInv, Identity
<1>2. Snapshot
  BY <1>1, FlushEffect
<1>3. UNCHANGED <<val, discarded, admitted, lost, orphaned, done>>
  BY DEF FlushBegin, table, journal, account
<1>4. SUFFICES ASSUME NEW c \in Cells PROVE stores'[c] + Unwritten(c)' = stores[c] + Unwritten(c)
  <2>1. \A c \in Cells :
          /\ stores[c] \in Int /\ stores'[c] \in Int
          /\ Unwritten(c) \in Int /\ Unwritten(c)' \in Int
          /\ val[c] \in Int /\ discarded[c] \in Int /\ lost[c] \in Int /\ orphaned[c] \in Int
    <3>1. TypeOK'
      BY <1>1, NextTypes DEF Next, Updater
    <3>2. \A c \in Cells : stores'[c] \in Int /\ inFlight'[c] \in Int
      BY <3>1 DEF TypeOK, QueueType, CellInts
    <3> QED
      BY <1>1, <3>2, CellTypes DEF Unwritten
  <2> QED
    BY <1>3, <1>4, <2>1 DEF ExactlyOnce
<1>5. stores[c] \in Int /\ inFlight[c] \in Int /\ GroupOf[c] \in Groups
  BY <1>1, CellTypes
<1>6. CASE GroupOf[c] \in Ready
  <2>1. operationIDs[GroupOf[c]] = NoOp /\ operationIDs'[GroupOf[c]] \notin done
    BY <1>1, <1>2, <1>6 DEF IdsMinted, Snapshot
  <2>2. inFlight[c] = 0 /\ inFlight'[c] = stores[c] /\ stores'[c] = 0
    BY <1>2, <1>6 DEF Snapshot
  <2> QED
    BY <1>3, <1>5, <2>1, <2>2 DEF Unwritten
<1>7. CASE GroupOf[c] \notin Ready
  BY <1>2, <1>3, <1>5, <1>7 DEF Unwritten, Snapshot
<1> QED
  BY <1>6, <1>7

\* A commit of something not yet written moves it from flight, or from the
\* open transactions of a dead process, to the tables.
LEMMA CommitOnce ==
  ASSUME BatchInv, ExactlyOnce, NEW o \in Operations, Commit(o), o.id \notin done,
         operationIDs[o.grp] = o.id, o.upd = Only(o.grp, inFlight),
         UNCHANGED <<stores, admitted, lost, orphaned>>,
         \/ UNCHANGED <<operationIDs, inFlight>>
         \/ o \in todo /\ Finalize(o)
  PROVE  ExactlyOnce'
<1>1. TypeOK /\ OperationsKeepIdentity /\ IdsMinted
  BY DEF BatchInv, Identity
<1>2. o.grp \in Groups /\ o.id \in OpIds /\ o.upd \in CellInts /\ o.id # NoOp
  BY OperationFields
<1>3. /\ \A c \in Cells : val'[c] + discarded'[c] = val[c] + discarded[c] + o.upd[c]
      /\ done' = done \cup {o.id}
  BY <1>1, CommitEffect
<1>4. TableType' /\ done \subseteq OpIds /\ NoOp \notin OpIds
  BY <1>1, CommitTypes, BatchConstants DEF TypeOK, JournalType
<1>5. \A c \in Cells : val'[c] \in Int /\ discarded'[c] \in Int
  BY <1>4 DEF TableType, CellInts
<1>6. SUFFICES ASSUME NEW c \in Cells PROVE Unwritten(c) = Unwritten(c)' + o.upd[c] /\ Unwritten(c)' \in Int
  <2>1. \A c \in Cells :
          /\ stores[c] \in Int /\ Unwritten(c) \in Int /\ o.upd[c] \in Int
          /\ val[c] \in Int /\ discarded[c] \in Int /\ lost[c] \in Int /\ orphaned[c] \in Int
    BY <1>1, <1>2, CellTypes DEF CellInts
  <2> QED
    BY <1>3, <1>5, <1>6, <2>1 DEF ExactlyOnce
<1>7. inFlight[c] \in Int /\ GroupOf[c] \in Groups
  BY <1>1, CellTypes
<1>8. o.upd[c] = IF GroupOf[c] = o.grp THEN inFlight[c] ELSE 0
  BY OnlyAt
<1>9. CASE GroupOf[c] = o.grp
  <2>1. Unwritten(c) = o.upd[c]
    BY <1>8, <1>9 DEF Unwritten
  <2>2. Unwritten(c)' = 0
    <3>1. CASE UNCHANGED <<operationIDs, inFlight>>
      BY <1>3, <1>9, <3>1 DEF Unwritten
    <3>2. CASE o \in todo /\ Finalize(o)
      <4>1. inFlight'[c] = 0
        BY <1>1, <1>9, <3>2, FinalizeEffect
      <4> QED
        BY <4>1 DEF Unwritten
    <3> QED
      BY <3>1, <3>2
  <2> QED
    BY <1>7, <1>8, <1>9, <2>1, <2>2
<1>10. CASE GroupOf[c] # o.grp
  <2>1. operationIDs'[GroupOf[c]] = operationIDs[GroupOf[c]] /\ inFlight'[c] = inFlight[c]
    BY <1>1, <1>7, <1>10, FinalizeEffect
  <2>2. operationIDs[GroupOf[c]] # o.id
    BY <1>1, <1>2, <1>7, <1>10 DEF IdsMinted
  <2>3. Unwritten(c)' = Unwritten(c)
    BY <1>3, <2>1, <2>2 DEF Unwritten
  <2> QED
    BY <1>7, <1>8, <1>10, <2>3 DEF Unwritten
<1> QED
  BY <1>9, <1>10

\* The application of one operation.
LEMMA ApplyOnce ==
  ASSUME BatchInv, ExactlyOnce, NEW o \in todo, Apply(o)
  PROVE  ExactlyOnce'
<1>1. /\ o \in Operations /\ o.grp \in Groups /\ o.id \in OpIds
      /\ operationIDs[o.grp] = o.id /\ o.upd = Only(o.grp, inFlight)
      /\ ledger[o.id] = NoEntry <=> o.id \notin done
  BY UnrecordedUnwritten
<1>2. ASSUME NEW seen \in BOOLEAN, ApplyCommits(o, seen) PROVE ExactlyOnce'
  <2>1. /\ ledger[o.id] = NoEntry /\ Commit(o)
        /\ UNCHANGED <<stores, admitted, lost, orphaned>>
    BY <1>2 DEF ApplyCommits, account
  <2>2. Finalize(o) \/ UNCHANGED <<operationIDs, inFlight>>
    BY <1>2 DEF ApplyCommits, Keep
  <2> QED
    BY <1>1, <2>1, <2>2, CommitOnce
<1>3. ASSUME ApplyReplays(o) PROVE ExactlyOnce'
  <2>1. /\ ledger[o.id] # NoEntry /\ Finalize(o)
        /\ UNCHANGED <<stores, admitted, lost, orphaned, val, discarded, done>>
    BY <1>3 DEF ApplyReplays, account, table, journal
  <2>2. o.id \in done /\ TypeOK /\ OperationsKeepIdentity
    BY <1>1, <2>1 DEF BatchInv, Identity
  <2>3. ASSUME NEW c \in Cells PROVE Unwritten(c)' = Unwritten(c)
    <3>1. GroupOf[c] \in Groups
      BY BatchConstants
    <3>2. CASE GroupOf[c] = o.grp
      <4>1. inFlight'[c] = 0
        BY <2>1, <2>2, <3>2, FinalizeEffect
      <4> QED
        BY <1>1, <2>2, <3>2, <4>1 DEF Unwritten
    <3>3. CASE GroupOf[c] # o.grp
      <4>1. operationIDs'[GroupOf[c]] = operationIDs[GroupOf[c]] /\ inFlight'[c] = inFlight[c]
        BY <2>1, <2>2, <3>1, <3>3, FinalizeEffect
      <4> QED
        BY <2>1, <4>1 DEF Unwritten
    <3> QED
      BY <3>2, <3>3
  <2> QED
    BY <2>1, <2>3 DEF ExactlyOnce
<1>4. ASSUME ApplyFails(o) \/ ApplyInDoubt(o) PROVE ExactlyOnce'
  BY <1>4, KeptOnce DEF ApplyFails, ApplyInDoubt, Keep, table, journal, account
<1> QED
  BY <1>2, <1>3, <1>4 DEF Apply

\* The server decides an open transaction, of this process or of a dead one.
LEMMA DoubtOnce ==
  ASSUME BatchInv, ExactlyOnce, NEW d \in doubt, DoubtCommits(d) \/ DoubtAborts(d)
  PROVE  ExactlyOnce'
<1>1. TypeOK /\ OpenKnown
  BY DEF BatchInv, Identity
<1>2. /\ d \in Operations /\ d.grp \in Groups /\ d.id \in OpIds /\ d.upd \in CellInts
      /\ d.id \notin done
  BY <1>1, OperationFields DEF TypeOK, JournalType, OpenKnown
<1>3. UNCHANGED <<stores, inFlight, operationIDs, admitted>>
  BY DEF DoubtCommits, DoubtAborts, queue
<1>4. ASSUME NEW c \in Cells
      PROVE  /\ stores[c] \in Int /\ inFlight[c] \in Int /\ val[c] \in Int /\ discarded[c] \in Int
             /\ admitted[c] \in Int /\ lost[c] \in Int /\ orphaned[c] \in Int
             /\ Unwritten(c) \in Int /\ GroupOf[c] \in Groups /\ d.upd[c] \in Int
  BY <1>1, <1>2, CellTypes DEF CellInts
<1>5. CASE DoubtCommits(d) /\ ~Orphan(d)
  <2>1. Commit(d) /\ UNCHANGED <<lost, orphaned>>
    BY <1>5 DEF DoubtCommits
  <2>2. operationIDs[d.grp] = d.id /\ d.upd = Only(d.grp, inFlight)
    BY <1>1, <1>2, <1>5 DEF Orphan, OpenKnown
  <2> QED
    BY <1>2, <1>3, <2>1, <2>2, CommitOnce
<1>6. CASE DoubtCommits(d) /\ Orphan(d)
  <2>1. Commit(d) /\ UNCHANGED lost /\ orphaned' = [c \in Cells |-> orphaned[c] - d.upd[c]]
    BY <1>6 DEF DoubtCommits
  <2>2. /\ \A c \in Cells : val'[c] + discarded'[c] = val[c] + discarded[c] + d.upd[c]
        /\ done' = done \cup {d.id} /\ TableType'
    BY <1>1, <1>2, <2>1, CommitEffect, CommitTypes
  <2>3. ASSUME NEW c \in Cells PROVE Unwritten(c)' = Unwritten(c)
    <3>1. operationIDs[GroupOf[c]] # d.id
      BY <1>1, <1>4, <1>6 DEF OpenKnown, Orphan
    <3> QED
      BY <1>3, <2>2, <3>1 DEF Unwritten
  <2>4. ASSUME NEW c \in Cells
        PROVE  /\ val'[c] \in Int /\ discarded'[c] \in Int
               /\ orphaned'[c] = orphaned[c] - d.upd[c]
    BY <2>1, <2>2 DEF TableType, CellInts
  <2> QED
    BY <1>3, <1>4, <2>1, <2>2, <2>3, <2>4 DEF ExactlyOnce
<1>7. CASE DoubtAborts(d)
  <2>1. UNCHANGED <<val, discarded, done>>
    BY <1>7 DEF DoubtAborts, table
  <2>2. ASSUME NEW c \in Cells PROVE lost'[c] + orphaned'[c] = lost[c] + orphaned[c]
                                     /\ lost'[c] \in Int /\ orphaned'[c] \in Int
    BY <1>4, <1>7 DEF DoubtAborts
  <2>3. \A c \in Cells : Unwritten(c)' = Unwritten(c)
    BY <1>3, <2>1 DEF Unwritten
  <2> QED
    BY <1>3, <1>4, <2>1, <2>2, <2>3 DEF ExactlyOnce
<1> QED
  BY <1>5, <1>6, <1>7

\* A crash loses what waits and what is in flight, unless it has been written
\* or is in an open transaction.
LEMMA CrashOnce ==
  ASSUME BatchInv, ExactlyOnce, Crash
  PROVE  ExactlyOnce'
<1>1. TypeOK
  BY DEF BatchInv
<1>2. UNCHANGED <<val, discarded, admitted, done>>
  BY DEF Crash, table, journal
<1>3. SUFFICES ASSUME NEW c \in Cells
               PROVE  admitted'[c] = val'[c] + discarded'[c] + stores'[c] + Unwritten(c)'
                                       + lost'[c] + orphaned'[c]
  BY DEF ExactlyOnce
<1>4. /\ stores[c] \in Int /\ inFlight[c] \in Int /\ val[c] \in Int /\ discarded[c] \in Int
      /\ admitted[c] \in Int /\ lost[c] \in Int /\ orphaned[c] \in Int
      /\ GroupOf[c] \in Groups
  BY <1>1, CellTypes
<1>5. admitted[c] = val[c] + discarded[c] + stores[c] + Unwritten(c) + lost[c] + orphaned[c]
  BY DEF ExactlyOnce
<1>6. stores'[c] = 0 /\ inFlight'[c] = 0
  BY NoDeltasType DEF Crash
<1>7. Unwritten(c)' = 0
  BY <1>6 DEF Unwritten
<1> DEFINE w == operationIDs[GroupOf[c]] \in done
           p == \E d \in doubt : d.grp = GroupOf[c] /\ ~Orphan(d)
<1>8. /\ lost'[c] = lost[c] + stores[c] + (IF w \/ p THEN 0 ELSE inFlight[c])
      /\ orphaned'[c] = orphaned[c] + (IF p /\ ~w THEN inFlight[c] ELSE 0)
  BY DEF Crash
<1>9. Unwritten(c) = IF w THEN 0 ELSE inFlight[c]
  BY DEF Unwritten
<1> HIDE DEF w, p
<1> QED
  BY <1>2, <1>4, <1>5, <1>6, <1>7, <1>8, <1>9

\* Every step keeps the account of every cell.
LEMMA NextOnce == BatchInv /\ ExactlyOnce /\ [Next]_vars => ExactlyOnce'
<1> SUFFICES ASSUME BatchInv, ExactlyOnce, [Next]_vars PROVE ExactlyOnce'
  OBVIOUS
<1>1. ASSUME Start \/ WorkerExit \/ StopCall \/ StopExpires \/ FlushEnd PROVE ExactlyOnce'
  BY <1>1, KeptOnce DEF Start, WorkerExit, StopCall, StopExpires, FlushEnd,
                        queue, table, journal, account
<1>2. ASSUME NEW upd \in [Cells -> Deltas], AddMany(upd) PROVE ExactlyOnce'
  <2>1. UNCHANGED <<inFlight, operationIDs, done, val, discarded, lost, orphaned>>
    BY <1>2 DEF AddMany, table, journal
  <2>2. \A c \in Cells : Unwritten(c)' = Unwritten(c)
    BY <2>1 DEF Unwritten
  <2>3. ASSUME NEW c \in Cells
        PROVE  /\ upd[c] \in Int
               /\ stores'[c] = stores[c] + upd[c] /\ admitted'[c] = admitted[c] + upd[c]
    BY <1>2, BatchConstants DEF AddMany
  <2>4. ASSUME NEW c \in Cells
        PROVE  /\ stores[c] \in Int /\ val[c] \in Int /\ discarded[c] \in Int
               /\ lost[c] \in Int /\ orphaned[c] \in Int /\ Unwritten(c) \in Int
    BY CellTypes DEF BatchInv
  <2> QED
    BY <2>1, <2>2, <2>3, <2>4 DEF ExactlyOnce
<1>3. ASSUME NEW g \in Groups, SoftDelete(g) \/ HardDelete(g) PROVE ExactlyOnce'
  BY <1>3, KeptOnce DEF SoftDelete, HardDelete, queue, journal, account
<1>4. ASSUME UNCHANGED vars PROVE ExactlyOnce'
  BY <1>4, KeptOnce DEF vars, queue, table, journal, account
<1> QED
  BY <1>1, <1>2, <1>3, <1>4, FlushBeginOnce, ApplyOnce, DoubtOnce, CrashOnce
     DEF Next, Updater, Environment

-----------------------------------------------------------------------------
(* Transactions that outlive their process. *)

\* Transactions that stay open and stay, or stay not, orphans.
LEMMA KeptOrphans ==
  ASSUME OrphansOpen, UNCHANGED orphaned,
         \A d \in doubt : d \in doubt' /\ (Orphan(d)' <=> Orphan(d)),
         \A d \in doubt' : d \in doubt \/ ~Orphan(d)'
  PROVE  OrphansOpen'
<1> SUFFICES ASSUME NEW c \in Cells
             PROVE  /\ \A d \in doubt' : d.grp = GroupOf[c] /\ Orphan(d)' => orphaned'[c] = d.upd[c]
                    /\ (\A d \in doubt' : d.grp = GroupOf[c] => ~Orphan(d)') => orphaned'[c] = 0
  BY DEF OrphansOpen
<1> QED
  BY DEF OrphansOpen

\* Every step keeps the account of orphans.
LEMMA NextOrphans == BatchInv /\ OrphansOpen /\ [Next]_vars => OrphansOpen'
<1> SUFFICES ASSUME BatchInv, OrphansOpen, [Next]_vars PROVE OrphansOpen'
  OBVIOUS
<1>1. TypeOK /\ OperationsKeepIdentity /\ IdsMinted /\ WrittenRecorded /\ OpenKnown
  BY DEF BatchInv, Identity
<1>2. \A d \in doubt : d \in Operations /\ d.grp \in Groups /\ d.id \in OpIds /\ d.id # NoOp
  BY <1>1, OperationFields DEF TypeOK, JournalType
<1>3. ASSUME UNCHANGED <<operationIDs, doubt, orphaned>> PROVE OrphansOpen'
  BY <1>3 DEF OrphansOpen, Orphan
<1>4. ASSUME NEW who \in {"worker", "stopper"}, FlushBegin(who) PROVE OrphansOpen'
  <2>1. Snapshot /\ UNCHANGED <<doubt, orphaned>>
    BY <1>1, <1>4, FlushEffect DEF FlushBegin, journal, account
  <2>2. ASSUME NEW d \in doubt PROVE Orphan(d)' <=> Orphan(d)
    BY <1>1, <1>2, <2>1 DEF Orphan, Snapshot, OpenKnown
  <2> QED
    BY <2>1, <2>2, KeptOrphans
<1>5. ASSUME NEW o \in todo, Apply(o) PROVE OrphansOpen'
  <2>1. /\ o.grp \in Groups /\ operationIDs[o.grp] = o.id
        /\ ledger[o.id] = NoEntry <=> o.id \notin done
    BY UnrecordedUnwritten
  <2>2. CASE Finalize(o) /\ UNCHANGED <<doubt, orphaned>> /\ (o.id \in done \/ Unlocked(o.grp))
    <3>1. /\ operationIDs'[o.grp] = NoOp
          /\ \A g \in Groups : g # o.grp => operationIDs'[g] = operationIDs[g]
      BY <1>1, <2>2, FinalizeEffect
    <3>2. \A d \in doubt : d.id # o.id
      BY <2>2, NoOpenTransaction
    <3>3. \A d \in doubt : Orphan(d)' <=> Orphan(d)
      BY <1>2, <2>1, <3>1, <3>2 DEF Orphan
    <3> QED
      BY <2>2, <3>3, KeptOrphans
  <2>3. CASE UNCHANGED <<operationIDs, doubt, orphaned>>
    BY <1>3, <2>3
  <2>4. CASE UNCHANGED <<operationIDs, orphaned>> /\ doubt' = doubt \cup {o}
    <3>1. \A d \in doubt : Orphan(d)' <=> Orphan(d)
      BY <2>4 DEF Orphan
    <3>2. ~Orphan(o)'
      BY <2>1, <2>4 DEF Orphan
    <3> QED
      BY <2>4, <3>1, <3>2, KeptOrphans
  <2>5. ASSUME NEW seen \in BOOLEAN, ApplyCommits(o, seen) PROVE OrphansOpen'
    BY <2>2, <2>3, <2>5 DEF ApplyCommits, Keep, account
  <2>6. ASSUME ApplyReplays(o) PROVE OrphansOpen'
    BY <2>1, <2>2, <2>6 DEF ApplyReplays, account, journal
  <2>7. ASSUME ApplyFails(o) PROVE OrphansOpen'
    BY <2>3, <2>7 DEF ApplyFails, Keep, account, journal
  <2>8. ASSUME ApplyInDoubt(o) PROVE OrphansOpen'
    BY <2>4, <2>8 DEF ApplyInDoubt, Keep, account
  <2> QED
    BY <1>5, <2>5, <2>6, <2>7, <2>8 DEF Apply
<1>6. ASSUME NEW d \in doubt, DoubtCommits(d) \/ DoubtAborts(d) PROVE OrphansOpen'
  <2>1. /\ UNCHANGED operationIDs /\ doubt' = doubt \ {d}
        /\ orphaned' = IF Orphan(d) THEN [c \in Cells |-> orphaned[c] - d.upd[c]] ELSE orphaned
    BY <1>6 DEF DoubtCommits, DoubtAborts, queue
  <2>2. SUFFICES ASSUME NEW c \in Cells
                 PROVE  /\ \A e \in doubt' : e.grp = GroupOf[c] /\ Orphan(e) => orphaned'[c] = e.upd[c]
                        /\ (\A e \in doubt' : e.grp = GroupOf[c] => ~Orphan(e)) => orphaned'[c] = 0
    BY <2>1 DEF OrphansOpen, Orphan
  <2>3. orphaned[c] \in Int /\ d.upd[c] \in Int
    BY <1>1, <1>2, CellTypes, OperationFields DEF CellInts
  <2>4. /\ \A e \in doubt : e.grp = GroupOf[c] /\ Orphan(e) => orphaned[c] = e.upd[c]
        /\ (\A e \in doubt : e.grp = GroupOf[c] => ~Orphan(e)) => orphaned[c] = 0
    BY DEF OrphansOpen
  <2>5. CASE d.grp = GroupOf[c]
    <3>1. \A e \in doubt' : e.grp # GroupOf[c]
      BY <1>1, <2>1, <2>5 DEF OpenKnown
    <3>2. orphaned'[c] = 0
      <4>1. CASE Orphan(d)
        BY <2>1, <2>3, <2>4, <2>5, <4>1
      <4>2. CASE ~Orphan(d)
        <5>1. \A e \in doubt : e.grp = GroupOf[c] => ~Orphan(e)
          BY <1>1, <2>5, <4>2 DEF OpenKnown
        <5> QED
          BY <2>1, <2>4, <4>2, <5>1
      <4> QED
        BY <4>1, <4>2
    <3> QED
      BY <3>1, <3>2
  <2>6. CASE d.grp # GroupOf[c]
    <3>1. orphaned'[c] = orphaned[c]
      <4>1. d.upd[c] = 0
        BY <1>1, <2>6 DEF OpenKnown
      <4> QED
        BY <2>1, <2>3, <4>1
    <3> QED
      BY <2>1, <2>4, <2>6, <3>1
  <2> QED
    BY <2>5, <2>6
<1>7. ASSUME Crash PROVE OrphansOpen'
  <2>1. /\ \A g \in Groups : operationIDs'[g] = NoOp
        /\ UNCHANGED doubt
    BY <1>7 DEF Crash, journal
  <2>2. \A d \in doubt : Orphan(d)'
    BY <1>2, <2>1 DEF Orphan
  <2>3. SUFFICES ASSUME NEW c \in Cells
                 PROVE  /\ \A e \in doubt : e.grp = GroupOf[c] => orphaned'[c] = e.upd[c]
                        /\ (\A e \in doubt : e.grp # GroupOf[c]) => orphaned'[c] = 0
    BY <2>1, <2>2 DEF OrphansOpen
  <2>4. orphaned[c] \in Int /\ inFlight[c] \in Int /\ GroupOf[c] \in Groups
    BY <1>1, CellTypes
  <2> DEFINE p == \E d \in doubt : d.grp = GroupOf[c] /\ ~Orphan(d)
  <2>5. orphaned'[c] = orphaned[c] +
          (IF p /\ operationIDs[GroupOf[c]] \notin done THEN inFlight[c] ELSE 0)
    BY <1>7 DEF Crash
  <2>6. /\ \A e \in doubt : e.grp = GroupOf[c] /\ Orphan(e) => orphaned[c] = e.upd[c]
        /\ (\A e \in doubt : e.grp = GroupOf[c] => ~Orphan(e)) => orphaned[c] = 0
    BY DEF OrphansOpen
  <2>7. CASE p
    <3>1. PICK d \in doubt : d.grp = GroupOf[c] /\ ~Orphan(d)
      BY <2>7
    <3>2. \A e \in doubt : e.grp = GroupOf[c] => e = d
      BY <1>1, <3>1 DEF OpenKnown
    <3>3. operationIDs[GroupOf[c]] = d.id /\ d.id \notin done /\ d.upd = Only(GroupOf[c], inFlight)
      BY <1>1, <2>4, <3>1 DEF Orphan, OpenKnown
    <3>4. d.upd[c] = inFlight[c]
      BY <3>3, OnlyAt
    <3>5. orphaned[c] = 0
      BY <2>6, <3>1, <3>2
    <3>6. orphaned'[c] = inFlight[c]
      BY <2>4, <2>5, <2>7, <3>3, <3>5
    <3> QED
      BY <3>1, <3>2, <3>4, <3>6
  <2>8. CASE ~p
    <3>1. orphaned'[c] = orphaned[c]
      BY <2>4, <2>5, <2>8
    <3> QED
      BY <2>6, <2>8, <3>1
  <2> QED
    BY <2>7, <2>8
<1>8. ASSUME Start \/ WorkerExit \/ StopCall \/ StopExpires \/ FlushEnd PROVE OrphansOpen'
  BY <1>3, <1>8 DEF Start, WorkerExit, StopCall, StopExpires, FlushEnd, queue, journal, account
<1>9. ASSUME NEW upd \in [Cells -> Deltas], AddMany(upd) PROVE OrphansOpen'
  BY <1>3, <1>9 DEF AddMany, journal
<1>10. ASSUME NEW g \in Groups, SoftDelete(g) \/ HardDelete(g) PROVE OrphansOpen'
  BY <1>3, <1>10 DEF SoftDelete, HardDelete, queue, journal, account
<1>11. ASSUME UNCHANGED vars PROVE OrphansOpen'
  BY <1>3, <1>11 DEF vars, queue, journal, account
<1> QED
  BY <1>4, <1>5, <1>6, <1>7, <1>8, <1>9, <1>10, <1>11 DEF Next, Updater, Environment

-----------------------------------------------------------------------------
(* The queue. *)

\* What applying an operation can do to what is in flight.
LEMMA ApplyShrinks ==
  ASSUME BatchInv, NEW o \in todo, Apply(o)
  PROVE  /\ \A c \in Cells : inFlight'[c] = inFlight[c] \/ inFlight'[c] = 0
         /\ UNCHANGED <<stores, state>>
<1>1. TypeOK /\ OperationsKeepIdentity
  BY DEF BatchInv, Identity
<1>2. Finalize(o) \/ UNCHANGED inFlight
  BY DEF Apply, ApplyCommits, ApplyReplays, ApplyFails, ApplyInDoubt, Keep
<1>3. \A c \in Cells : inFlight'[c] = inFlight[c] \/ inFlight'[c] = 0
  BY <1>1, <1>2, FinalizeEffect
<1> QED
  BY <1>3 DEF Apply, ApplyCommits, ApplyReplays, ApplyFails, ApplyInDoubt, threads

\* The integers of the machine.
LEMMA ZeroFits == 0 \in Ints /\ Ints \subseteq Int
  BY BatchConstants DEF Ints

\* Every step keeps the sums in range, although only AddMany checks them.
LEMMA NextFits == BatchInv /\ SumsFit /\ [Next]_vars => SumsFit'
<1> SUFFICES ASSUME BatchInv, SumsFit, [Next]_vars PROVE SumsFit'
  OBVIOUS
<1>1. TypeOK /\ OperationsKeepIdentity
  BY DEF BatchInv, Identity
<1>2. ASSUME UNCHANGED <<stores, inFlight>> PROVE SumsFit'
  BY <1>2 DEF SumsFit
<1>3. \A c \in Cells : stores[c] \in Int /\ inFlight[c] \in Int
  BY <1>1, CellTypes
<1>4. ASSUME NEW upd \in [Cells -> Deltas], AddMany(upd) PROVE SumsFit'
  <2> SUFFICES ASSUME NEW c \in Cells PROVE inFlight'[c] + stores'[c] \in Ints /\ stores'[c] \in Ints
    BY DEF SumsFit
  <2>1. stores'[c] = stores[c] + upd[c] /\ inFlight' = inFlight /\ Fits(upd) /\ upd[c] \in Int
    BY <1>4, BatchConstants DEF AddMany
  <2>2. CASE upd[c] = 0
    BY <1>3, <2>1, <2>2 DEF SumsFit
  <2>3. CASE upd[c] # 0
    BY <2>1, <2>3 DEF Fits
  <2> QED
    BY <2>2, <2>3
<1>5. ASSUME NEW who \in {"worker", "stopper"}, FlushBegin(who) PROVE SumsFit'
  <2> SUFFICES ASSUME NEW c \in Cells PROVE inFlight'[c] + stores'[c] \in Ints /\ stores'[c] \in Ints
    BY DEF SumsFit
  <2>1. Snapshot
    BY <1>1, <1>5, FlushEffect
  <2>2. stores[c] \in Int /\ stores[c] \in Ints /\ inFlight[c] + stores[c] \in Ints
    BY <1>3 DEF SumsFit
  <2>3. CASE GroupOf[c] \in Ready
    BY <2>1, <2>2, <2>3, ZeroFits DEF Snapshot
  <2>4. CASE GroupOf[c] \notin Ready
    BY <2>1, <2>2, <2>4 DEF Snapshot
  <2> QED
    BY <2>3, <2>4
<1>6. ASSUME NEW o \in todo, Apply(o) PROVE SumsFit'
  <2> SUFFICES ASSUME NEW c \in Cells PROVE inFlight'[c] + stores'[c] \in Ints /\ stores'[c] \in Ints
    BY DEF SumsFit
  <2>1. stores' = stores /\ (inFlight'[c] = inFlight[c] \/ inFlight'[c] = 0)
    BY <1>6, ApplyShrinks
  <2> QED
    BY <1>3, <2>1 DEF SumsFit
<1>7. ASSUME Crash PROVE SumsFit'
  <2>1. \A c \in Cells : stores'[c] = 0 /\ inFlight'[c] = 0
    BY <1>7, NoDeltasType DEF Crash
  <2> QED
    BY <2>1, ZeroFits DEF SumsFit
<1>8. ASSUME Start \/ WorkerExit \/ StopCall \/ StopExpires \/ FlushEnd PROVE SumsFit'
  BY <1>2, <1>8 DEF Start, WorkerExit, StopCall, StopExpires, FlushEnd, queue
<1>9. ASSUME NEW d \in doubt, DoubtCommits(d) \/ DoubtAborts(d) PROVE SumsFit'
  BY <1>2, <1>9 DEF DoubtCommits, DoubtAborts, queue
<1>10. ASSUME NEW g \in Groups, SoftDelete(g) \/ HardDelete(g) PROVE SumsFit'
  BY <1>2, <1>10 DEF SoftDelete, HardDelete, queue
<1>11. ASSUME UNCHANGED vars PROVE SumsFit'
  BY <1>2, <1>11 DEF vars, queue
<1> QED
  BY <1>4, <1>5, <1>6, <1>7, <1>8, <1>9, <1>10, <1>11 DEF Next, Updater, Environment

\* The last flush of StopAndFlush leaves nothing, and nothing comes after it.
LEMMA NextStopped == BatchInv /\ StoppedEmpty /\ [Next]_vars => StoppedEmpty'
<1> SUFFICES ASSUME BatchInv, StoppedEmpty, [Next]_vars, state' = "stopped"
             PROVE  \A c \in Cells : stores'[c] = 0 /\ inFlight'[c] = 0
  BY DEF StoppedEmpty
<1>1. ASSUME UNCHANGED <<stores, inFlight>>, state = "stopped"
      PROVE  \A c \in Cells : stores'[c] = 0 /\ inFlight'[c] = 0
  BY <1>1 DEF StoppedEmpty
<1>2. ASSUME NEW o \in todo, Apply(o)
      PROVE  \A c \in Cells : stores'[c] = 0 /\ inFlight'[c] = 0
  BY <1>2, ApplyShrinks DEF StoppedEmpty
<1>3. ASSUME FlushEnd
      PROVE  \A c \in Cells : stores'[c] = 0 /\ inFlight'[c] = 0
  <2>1. UNCHANGED <<stores, inFlight>>
    BY <1>3 DEF FlushEnd, queue
  <2>2. CASE state = "stopped"
    BY <1>1, <2>1, <2>2
  <2>3. CASE state # "stopped"
    <3>1. Touched(stores) \cup Touched(inFlight) = {}
      BY <1>3, <2>3 DEF FlushEnd
    <3>2. \A c \in Cells : stores[c] = 0 /\ inFlight[c] = 0
      BY <3>1, TouchedAt
    <3> QED
      BY <2>1, <3>2
  <2> QED
    BY <2>2, <2>3
<1>4. ASSUME NEW who \in {"worker", "stopper"}, FlushBegin(who) PROVE FALSE
  BY <1>4 DEF FlushBegin
<1>5. ASSUME NEW upd \in [Cells -> Deltas], AddMany(upd) PROVE FALSE
  BY <1>5 DEF AddMany, threads
<1>6. ASSUME Start \/ StopCall \/ Crash PROVE FALSE
  BY <1>6 DEF Start, StopCall, Crash
<1>7. ASSUME WorkerExit \/ StopExpires
      PROVE  \A c \in Cells : stores'[c] = 0 /\ inFlight'[c] = 0
  BY <1>1, <1>7 DEF WorkerExit, StopExpires, queue
<1>8. ASSUME NEW d \in doubt, DoubtCommits(d) \/ DoubtAborts(d)
      PROVE  \A c \in Cells : stores'[c] = 0 /\ inFlight'[c] = 0
  BY <1>1, <1>8 DEF DoubtCommits, DoubtAborts, queue, threads
<1>9. ASSUME NEW g \in Groups, SoftDelete(g) \/ HardDelete(g)
      PROVE  \A c \in Cells : stores'[c] = 0 /\ inFlight'[c] = 0
  BY <1>1, <1>9 DEF SoftDelete, HardDelete, queue, threads
<1>10. ASSUME UNCHANGED vars
      PROVE  \A c \in Cells : stores'[c] = 0 /\ inFlight'[c] = 0
  BY <1>1, <1>10 DEF vars, queue, threads
<1> QED
  BY <1>2, <1>3, <1>4, <1>5, <1>6, <1>7, <1>8, <1>9, <1>10 DEF Next, Updater, Environment

\* Every step keeps the ledgers of the rows that are gone.
LEMMA NextAbsorb == BatchInv /\ GoneRowsAbsorb /\ [Next]_vars => GoneRowsAbsorb'
<1> SUFFICES ASSUME BatchInv, GoneRowsAbsorb, [Next]_vars PROVE GoneRowsAbsorb'
  OBVIOUS
<1>1. ASSUME deleteLedger \subseteq deleteLedger', UNCHANGED row PROVE GoneRowsAbsorb'
  BY <1>1 DEF GoneRowsAbsorb
<1>2. ASSUME NEW o, Commit(o) PROVE GoneRowsAbsorb'
  BY <1>1, <1>2 DEF Commit
<1>3. ASSUME NEW g \in Groups, SoftDelete(g) PROVE GoneRowsAbsorb'
  BY <1>3 DEF SoftDelete, GoneRowsAbsorb, BatchInv, TypeOK, TableType
<1>4. ASSUME NEW g \in Groups, HardDelete(g) PROVE GoneRowsAbsorb'
  BY <1>4 DEF HardDelete, GoneRowsAbsorb, BatchInv, TypeOK, TableType
<1>5. ASSUME NEW o \in todo, Apply(o) PROVE GoneRowsAbsorb'
  BY <1>1, <1>2, <1>5 DEF Apply, ApplyCommits, ApplyReplays, ApplyFails, ApplyInDoubt, table
<1>6. ASSUME NEW d \in doubt, DoubtCommits(d) \/ DoubtAborts(d) PROVE GoneRowsAbsorb'
  BY <1>1, <1>2, <1>6 DEF DoubtCommits, DoubtAborts, table
<1>7. ASSUME Start \/ WorkerExit \/ StopCall \/ StopExpires \/ FlushEnd \/ Crash
      PROVE  GoneRowsAbsorb'
  BY <1>1, <1>7 DEF Start, WorkerExit, StopCall, StopExpires, FlushEnd, Crash, table
<1>8. ASSUME NEW upd \in [Cells -> Deltas], AddMany(upd) PROVE GoneRowsAbsorb'
  BY <1>1, <1>8 DEF AddMany, table
<1>9. ASSUME NEW who \in {"worker", "stopper"}, FlushBegin(who) PROVE GoneRowsAbsorb'
  BY <1>1, <1>9 DEF FlushBegin, table
<1>10. ASSUME UNCHANGED vars PROVE GoneRowsAbsorb'
  BY <1>1, <1>10 DEF vars, table
<1> QED
  BY <1>3, <1>4, <1>5, <1>6, <1>7, <1>8, <1>9, <1>10 DEF Next, Updater, Environment

-----------------------------------------------------------------------------
(* The results. *)

\* Every variable of the batch updater keeps its type.
THEOREM BatchTypes == Spec => []TypeOK
  BY AlwaysBatchInv, PTL DEF BatchInv

\* The errors of finalizeGroup and of the ledger's payload comparison never
\* happen: an operation keeps its id and payload through every retry, unseen
\* commit, late commit and crash.
THEOREM IdentityKeptAlways == Spec => []OperationsKeepIdentity
<1>1. BatchInv => OperationsKeepIdentity
  BY DEF BatchInv, Identity
<1> QED
  BY <1>1, AlwaysBatchInv, PTL

\* Every admitted delta is in exactly one place: no retry of
\* applyFlushOperation writes it twice and no failure loses it.
THEOREM DeltasExactlyOnce == Spec => []ExactlyOnce
<1>1. Init => ExactlyOnce
  <2> SUFFICES ASSUME Init, NEW c \in Cells
               PROVE  admitted[c] = val[c] + discarded[c] + stores[c] + Unwritten(c)
                                      + lost[c] + orphaned[c]
    BY DEF ExactlyOnce
  <2>1. /\ admitted[c] = 0 /\ val[c] = 0 /\ discarded[c] = 0 /\ stores[c] = 0
        /\ inFlight[c] = 0 /\ lost[c] = 0 /\ orphaned[c] = 0
    BY NoDeltasType DEF Init
  <2>2. Unwritten(c) = 0
    BY <2>1 DEF Unwritten
  <2> QED
    BY <2>1, <2>2
<1> QED
  BY <1>1, NextOnce, AlwaysBatchInv, PTL DEF Spec

\* Deltas in the hands of nobody but the database server are those of
\* transactions that are still open: once it has decided them all, every
\* admitted delta is written, queued or lost with its process.
THEOREM OrphansAccounted == Spec => []OrphansOpen
<1>1. Init => OrphansOpen
  BY NoDeltasType DEF Init, OrphansOpen
<1> QED
  BY <1>1, NextOrphans, AlwaysBatchInv, PTL DEF Spec

\* What StopAndFlush has stopped has written all it admitted.
THEOREM StopWritesAll == Spec => []StoppedIsWritten
<1>1. Init => StoppedEmpty
  BY DEF Init, StoppedEmpty
<1>2. TypeOK /\ StoppedEmpty /\ ExactlyOnce => StoppedIsWritten
  <2> SUFFICES ASSUME TypeOK, StoppedEmpty, ExactlyOnce, state = "stopped", NEW c \in Cells
               PROVE  admitted[c] = val[c] + discarded[c] + lost[c] + orphaned[c]
    BY DEF StoppedIsWritten
  <2>1. stores[c] = 0 /\ Unwritten(c) = 0
    BY DEF StoppedEmpty, Unwritten
  <2>2. val[c] \in Int /\ discarded[c] \in Int /\ lost[c] \in Int /\ orphaned[c] \in Int
    BY CellTypes
  <2>3. admitted[c] = val[c] + discarded[c] + stores[c] + Unwritten(c) + lost[c] + orphaned[c]
    BY DEF ExactlyOnce
  <2> QED
    BY <2>1, <2>2, <2>3
<1> QED
  BY <1>1, <1>2, NextStopped, AlwaysBatchInv, BatchTypes, DeltasExactlyOnce, PTL DEF Spec

\* The sum a row receives never overflows, although AddMany checks it before
\* the snapshot that will form it.
THEOREM SumsAlwaysFit == Spec => []SumsFit
<1>1. Init => SumsFit
  <2> SUFFICES ASSUME Init, NEW c \in Cells
               PROVE  inFlight[c] + stores[c] \in Ints /\ stores[c] \in Ints
    BY DEF SumsFit
  <2>1. stores[c] = 0 /\ inFlight[c] = 0
    BY NoDeltasType DEF Init
  <2>2. inFlight[c] + stores[c] = 0
    BY <2>1
  <2> QED
    BY <2>1, <2>2, ZeroFits
<1> QED
  BY <1>1, NextFits, AlwaysBatchInv, PTL DEF Spec

\* A row that is gone can absorb the deltas of every column.
THEOREM GoneRowsAlwaysAbsorb == Spec => []GoneRowsAbsorb
<1>1. Init => GoneRowsAbsorb
  BY DEF Init, GoneRowsAbsorb
<1> QED
  BY <1>1, NextAbsorb, AlwaysBatchInv, PTL DEF Spec
=============================================================================
