----------------------- MODULE GracefulShutdownProofs -----------------------
(***************************************************************************)
(* TLAPS proofs about BillingLifecycle, by itself, and about the process   *)
(* that runs it (GracefulShutdown), for any number of requests, tickets,   *)
(* producers, debts, tasks and captures.                                   *)
(*                                                                         *)
(* The waits of the coordinator look at a counter, not at the tickets.     *)
(* ActiveCounts is therefore part of every argument: with it, "active = 1  *)
(* while draining" means that the sentinel is the only registered ticket.  *)
(*                                                                         *)
(* Whatever the process does to the coordinator is a step of               *)
(* BillingLifecycle, so the invariant proved of it holds in the process as *)
(* well; the rest of the argument is about the order of                    *)
(* runGracefulShutdown: as long as no step has failed, what an earlier     *)
(* step waited for stays so.                                               *)
(***************************************************************************)
EXTENDS GracefulShutdown, FiniteSetTheorems, TLAPS

-----------------------------------------------------------------------------
(* The coordinator by itself, for any number of tickets and producers. *)

\* What is known of a ticket by itself.
TicketOK(i) ==
  /\ tickets[i] = "unused" <=> kind[i] = "none"
  /\ kind[i] # "none" => origin[i] \in Ids
  /\ kind[i] = "sentinel" => /\ origin[i] = i /\ admission # "open"
                             /\ admission = "draining" => tickets[i] = "reserved"
  /\ admission = "closed" => ~Live(i)

\* A producer goroutine that has not returned holds its ticket, and one that
\* has not left the map is the one its name stands for.
ProducerOK(i) ==
  /\ goroutine[i] \in {"running", "canceled"} => tickets[i] = "running" /\ kind[i] = "root"
  /\ goroutine[i] # "none" => names[i] \in Names /\ producers[names[i]] = i
  /\ tickets[i] = "unused" => goroutine[i] = "none"
  /\ stopWait = "returned" => goroutine[i] = "none"

\* After WaitOnly only the sentinel's descendants are registered.
QuietOK(i) == quiet = "yes" /\ Live(i) => origin[i] \in Sentinels

\* The order of the drain's own steps.
DrainOK ==
  /\ admission = "draining" => \E s \in Ids : kind[s] = "sentinel"
  /\ quiet = "yes" => admission # "open"
  /\ stopWait # "no" => producerAdmission = "closed"

\* The inductive invariant.
LInv ==
  /\ TypeOK /\ ActiveCounts /\ DrainOK
  /\ \A i \in Ids : TicketOK(i) /\ ProducerOK(i) /\ QuietOK(i)

-----------------------------------------------------------------------------
(* The counter. *)

\* The registered tickets are finitely many.
LEMMA LiveFinite == IsFiniteSet(LiveTickets) /\ Cardinality(LiveTickets) \in Nat
<1>1. IsFiniteSet(Ids)
  BY LifecycleConstants, FS_Interval DEF Ids
<1>2. LiveTickets \subseteq Ids
  BY DEF LiveTickets
<1>. QED BY <1>1, <1>2, FS_Subset, FS_CardinalityType

\* A ticket more is one more (reserveTicketLocked).
LEMMA LiveMore ==
  ASSUME TypeOK, ActiveCounts, NEW i \in Ids, ~Live(i),
         NEW st \in {"reserved", "running"},
         tickets' = [tickets EXCEPT ![i] = st], active' = active + 1
  PROVE  (ActiveCounts)' /\ active' \in Nat
<1>1. (LiveTickets)' = LiveTickets \cup {i} /\ i \notin LiveTickets
  BY DEF LiveTickets, Live, TypeOK, CoordType
<1>2. Cardinality(LiveTickets \cup {i}) = Cardinality(LiveTickets) + 1
  BY <1>1, LiveFinite, FS_AddElement
<1>. QED BY <1>1, <1>2, LiveFinite DEF ActiveCounts

\* A ticket less is one less (release).
LEMMA LiveLess ==
  ASSUME TypeOK, ActiveCounts, NEW i \in Ids, Live(i),
         tickets' = [tickets EXCEPT ![i] = "released"], active' = active - 1
  PROVE  (ActiveCounts)' /\ active' \in Nat
<1>1. (LiveTickets)' = LiveTickets \ {i} /\ i \in LiveTickets
  BY DEF LiveTickets, Live, TypeOK, CoordType
<1>2. Cardinality(LiveTickets \ {i}) = Cardinality(LiveTickets) - 1
  BY <1>1, LiveFinite, FS_RemoveElement
<1>3. IsFiniteSet(LiveTickets \ {i})
  BY LiveFinite, FS_RemoveElement
<1>4. Cardinality(LiveTickets \ {i}) \in Nat
  BY <1>3, FS_CardinalityType
<1>. QED BY <1>1, <1>2, <1>4 DEF ActiveCounts

\* A status that stays registered or unregistered leaves the counter right.
LEMMA LiveSame ==
  ASSUME TypeOK, ActiveCounts, (LiveTickets)' = LiveTickets, active' = active
  PROVE  (ActiveCounts)'
BY DEF ActiveCounts

\* What the waits of the drain conclude from active = 1: only the sentinel is
\* registered.
LEMMA OnlySentinel ==
  ASSUME LInv, admission = "draining", active = 1
  PROVE  \E s \in Ids : kind[s] = "sentinel" /\ LiveTickets = {s}
<1>1. PICK s \in Ids : kind[s] = "sentinel"
  BY DEF LInv, DrainOK
<1>2. s \in LiveTickets
  BY <1>1 DEF LInv, TicketOK, LiveTickets, Live
<1>3. \E x : LiveTickets = {x}
  <2>1. Cardinality(LiveTickets) = 1
    BY DEF LInv, ActiveCounts
  <2>. QED BY <2>1, LiveFinite, FS_Singleton
<1>. QED BY <1>1, <1>2, <1>3

-----------------------------------------------------------------------------
\* The initial states satisfy the invariant.
LEMMA LInit == Init => LInv
<1>. SUFFICES ASSUME Init PROVE LInv
  OBVIOUS
<1>. USE DEF Init
<1>1. LiveTickets = {}
  BY DEF LiveTickets, Live
<1>2. ActiveCounts
  BY <1>1, FS_EmptySet DEF ActiveCounts
<1>3. TypeOK
  BY DEF TypeOK, CoordType, ProducerType, HistoryType
<1>4. \A i \in Ids : TicketOK(i) /\ ProducerOK(i) /\ QuietOK(i)
  BY DEF TicketOK, ProducerOK, QuietOK, Live
<1>. QED BY <1>2, <1>3, <1>4 DEF LInv, DrainOK

-----------------------------------------------------------------------------
(* The steps. *)

\* A ticket that is not registered yet has no goroutine and no descendants.
LEMMA FreshTicket ==
  ASSUME LInv, NEW i \in Ids, tickets[i] = "unused"
  PROVE  ~Live(i) /\ kind[i] = "none" /\ goroutine[i] = "none"
BY DEF LInv, TicketOK, ProducerOK, Live

\* Registering a ticket of any kind keeps the counter right and the other
\* tickets as they are.
LEMMA ReserveCounts ==
  ASSUME LInv, NEW i \in Ids, NEW k, NEW from, NEW st \in {"reserved", "running"},
         ReserveTicket(i, k, from, st)
  PROVE  (ActiveCounts)' /\ active' \in Nat
<1>1. ~Live(i)
  BY FreshTicket DEF ReserveTicket
<1>. QED BY <1>1, LiveMore DEF LInv, ReserveTicket

\* ReserveRoot
LEMMA StepRoot ==
  ASSUME LInv, NEW i \in Ids, ReserveRoot(i)
  PROVE  LInv'
<1>. USE DEF ReserveRoot
<1>1. ReserveTicket(i, "root", i, "reserved") /\ admission = "open"
  OBVIOUS
<1>2. (ActiveCounts)' /\ active' \in Nat
  BY <1>1, ReserveCounts
<1>3. (TypeOK)'
  BY <1>2 DEF LInv, TypeOK, CoordType, ProducerType, HistoryType,
              ReserveTicket, prods
<1>4. DrainOK'
  BY DEF LInv, DrainOK, prods
<1>5. ASSUME NEW j \in Ids PROVE TicketOK(j)'
  <2>1. CASE j = i
    BY <2>1 DEF LInv, TypeOK, CoordType, HistoryType, TicketOK,
                ReserveTicket, Live
  <2>2. CASE j # i
    BY <2>2 DEF LInv, TypeOK, CoordType, HistoryType, TicketOK,
                ReserveTicket, Live
  <2>. QED BY <2>1, <2>2
<1>6. ASSUME NEW j \in Ids PROVE ProducerOK(j)'
  BY FreshTicket DEF LInv, TypeOK, CoordType, ProducerOK, ReserveTicket, prods
<1>7. ASSUME NEW j \in Ids PROVE QuietOK(j)'
  BY DEF LInv, DrainOK, QuietOK, TypeOK, HistoryType, CoordType
<1>. QED BY <1>2, <1>3, <1>4, <1>5, <1>6, <1>7 DEF LInv

\* ReserveChild: the child inherits the origin of a registered parent.
LEMMA StepChild ==
  ASSUME LInv, NEW p \in Ids, NEW i \in Ids, ReserveChild(p, i)
  PROVE  LInv'
<1>. USE DEF ReserveChild
<1>1. ReserveTicket(i, "child", origin[p], "reserved") /\ admission # "closed"
  OBVIOUS
<1>2. (ActiveCounts)' /\ active' \in Nat
  BY <1>1, ReserveCounts
<1>3. (TypeOK)'
  BY <1>2 DEF LInv, TypeOK, CoordType, ProducerType, HistoryType,
              ReserveTicket, prods
<1>4. kind[i] = "none" /\ ~Live(i) /\ goroutine[i] = "none" /\ tickets[i] = "unused"
  BY <1>1, FreshTicket DEF ReserveTicket
<1>5. kind[p] # "none" /\ origin[p] \in Ids /\ (quiet = "yes" => origin[p] \in Sentinels)
  BY DEF LInv, TicketOK, QuietOK, Live
<1>6. (Sentinels)' = Sentinels
  BY <1>1, <1>4 DEF Sentinels, LInv, TypeOK, CoordType, ReserveTicket
<1>7. DrainOK'
  <2>1. \A s \in Ids : kind[s] = "sentinel" => kind'[s] = "sentinel"
    BY <1>1, <1>4 DEF LInv, TypeOK, CoordType, ReserveTicket
  <2>. QED BY <2>1 DEF LInv, DrainOK, prods
<1>8. ASSUME NEW j \in Ids PROVE TicketOK(j)'
  <2>1. CASE j = i
    BY <2>1, <1>1, <1>5 DEF LInv, TypeOK, CoordType, HistoryType, TicketOK,
                            ReserveTicket, Live
  <2>2. CASE j # i
    BY <2>2, <1>1 DEF LInv, TypeOK, CoordType, HistoryType, TicketOK,
                      ReserveTicket, Live
  <2>. QED BY <2>1, <2>2
<1>9. ASSUME NEW j \in Ids PROVE ProducerOK(j)'
  BY <1>1, <1>4 DEF LInv, TypeOK, CoordType, ProducerOK, ReserveTicket, prods
<1>10. ASSUME NEW j \in Ids PROVE QuietOK(j)'
  <2>1. CASE j = i
    BY <2>1, <1>1, <1>5, <1>6 DEF LInv, TypeOK, HistoryType, QuietOK, ReserveTicket
  <2>2. CASE j # i
    BY <2>2, <1>1, <1>6 DEF LInv, TypeOK, CoordType, HistoryType, QuietOK,
                            ReserveTicket, Live
  <2>. QED BY <2>1, <2>2
<1>. QED BY <1>2, <1>3, <1>7, <1>8, <1>9, <1>10 DEF LInv

\* Submit
LEMMA StepSubmit ==
  ASSUME LInv, NEW i \in Ids, Submit(i)
  PROVE  LInv'
<1>. USE DEF Submit
<1>1. (LiveTickets)' = LiveTickets
  BY DEF LiveTickets, Live, LInv, TypeOK, CoordType
<1>2. (ActiveCounts)'
  BY <1>1, LiveSame DEF LInv
<1>3. (TypeOK)'
  BY DEF LInv, TypeOK, CoordType, ProducerType, HistoryType, prods
<1>4. DrainOK'
  BY DEF LInv, DrainOK, prods
<1>5. ASSUME NEW j \in Ids PROVE TicketOK(j)'
  BY DEF LInv, TypeOK, CoordType, TicketOK, Live
<1>6. ASSUME NEW j \in Ids PROVE ProducerOK(j)'
  BY DEF LInv, TypeOK, CoordType, ProducerOK, prods
<1>7. ASSUME NEW j \in Ids PROVE QuietOK(j)'
  BY DEF LInv, TypeOK, CoordType, QuietOK, Live, Sentinels
<1>. QED BY <1>2, <1>3, <1>4, <1>5, <1>6, <1>7 DEF LInv

\* Release
LEMMA StepRelease ==
  ASSUME LInv, NEW i \in Ids, Release(i)
  PROVE  LInv'
<1>. USE DEF Release
<1>1. (ActiveCounts)' /\ active' \in Nat
  BY LiveLess DEF LInv
<1>2. (TypeOK)'
  BY <1>1 DEF LInv, TypeOK, CoordType, ProducerType, HistoryType, prods
<1>3. DrainOK'
  BY DEF LInv, DrainOK, prods
<1>4. ASSUME NEW j \in Ids PROVE TicketOK(j)'
  BY DEF LInv, TypeOK, CoordType, TicketOK, Live
<1>5. ASSUME NEW j \in Ids PROVE ProducerOK(j)'
  BY DEF LInv, TypeOK, CoordType, ProducerOK, prods
<1>6. ASSUME NEW j \in Ids PROVE QuietOK(j)'
  BY DEF LInv, TypeOK, CoordType, QuietOK, Live, Sentinels
<1>. QED BY <1>1, <1>2, <1>3, <1>4, <1>5, <1>6 DEF LInv

\* StartProducer: the name was free, so no goroutine that still runs has it.
LEMMA StepStart ==
  ASSUME LInv, NEW p \in Names, NEW i \in Ids, StartProducer(p, i)
  PROVE  LInv'
<1>. USE DEF StartProducer
<1>1. /\ ReserveTicket(i, "root", i, "running")
      /\ admission = "open" /\ producerAdmission = "open" /\ stopWait # "returned"
  BY DEF LInv, DrainOK
<1>2. (ActiveCounts)' /\ active' \in Nat
  BY <1>1, ReserveCounts
<1>3. (TypeOK)'
  BY <1>2 DEF LInv, TypeOK, CoordType, ProducerType, HistoryType,
              ReserveTicket
<1>4. DrainOK'
  BY DEF LInv, DrainOK
<1>5. ASSUME NEW j \in Ids PROVE TicketOK(j)'
  <2>1. CASE j = i
    BY <2>1, <1>1 DEF LInv, TypeOK, CoordType, HistoryType, TicketOK,
                      ReserveTicket, Live
  <2>2. CASE j # i
    BY <2>2, <1>1 DEF LInv, TypeOK, CoordType, HistoryType, TicketOK,
                      ReserveTicket, Live
  <2>. QED BY <2>1, <2>2
<1>6. ASSUME NEW j \in Ids PROVE ProducerOK(j)'
  <2>1. CASE j = i
    BY <2>1, <1>1 DEF LInv, TypeOK, CoordType, ProducerType, ProducerOK,
                      ReserveTicket
  <2>2. CASE j # i
    <3>1. goroutine[j] # "none" => names[j] # p
      BY DEF LInv, ProducerOK, Ids, NoTicket
    <3>. QED BY <2>2, <3>1, <1>1 DEF LInv, TypeOK, CoordType, ProducerType,
                                     ProducerOK, ReserveTicket
  <2>. QED BY <2>1, <2>2
<1>7. ASSUME NEW j \in Ids PROVE QuietOK(j)'
  BY DEF LInv, DrainOK, QuietOK, TypeOK, HistoryType, CoordType
<1>. QED BY <1>2, <1>3, <1>4, <1>5, <1>6, <1>7 DEF LInv

\* ProducerReturns
LEMMA StepReturns ==
  ASSUME LInv, NEW i \in Ids, ProducerReturns(i)
  PROVE  LInv'
<1>. USE DEF ProducerReturns
<1>1. tickets[i] = "running" /\ kind[i] = "root"
  BY DEF LInv, ProducerOK
<1>2. (ActiveCounts)' /\ active' \in Nat
  BY <1>1, LiveLess DEF LInv, Live
<1>3. (TypeOK)'
  BY <1>2 DEF LInv, TypeOK, CoordType, ProducerType, HistoryType
<1>4. DrainOK'
  BY DEF LInv, DrainOK
<1>5. ASSUME NEW j \in Ids PROVE TicketOK(j)'
  BY <1>1 DEF LInv, TypeOK, CoordType, TicketOK, Live
<1>6. ASSUME NEW j \in Ids PROVE ProducerOK(j)'
  BY <1>1 DEF LInv, TypeOK, CoordType, ProducerType, ProducerOK
<1>7. ASSUME NEW j \in Ids PROVE QuietOK(j)'
  BY DEF LInv, TypeOK, CoordType, QuietOK, Live, Sentinels
<1>. QED BY <1>2, <1>3, <1>4, <1>5, <1>6, <1>7 DEF LInv

\* ProducerForgets: the entry under its name is its own.
LEMMA StepForgets ==
  ASSUME LInv, NEW i \in Ids, ProducerForgets(i)
  PROVE  LInv'
<1>. USE DEF ProducerForgets
<1>1. (LiveTickets)' = LiveTickets
  BY DEF LiveTickets, Live, coord
<1>2. (ActiveCounts)'
  BY <1>1, LiveSame DEF LInv, coord
<1>3. (TypeOK)'
  BY DEF LInv, TypeOK, CoordType, ProducerType, HistoryType, coord
<1>4. DrainOK'
  BY DEF LInv, DrainOK, coord
<1>5. ASSUME NEW j \in Ids PROVE TicketOK(j)'
  BY DEF LInv, TicketOK, Live, coord
<1>6. ASSUME NEW j \in Ids PROVE ProducerOK(j)'
  BY DEF LInv, TypeOK, CoordType, ProducerType, ProducerOK, coord
<1>7. ASSUME NEW j \in Ids PROVE QuietOK(j)'
  BY DEF LInv, QuietOK, Live, Sentinels, coord
<1>. QED BY <1>2, <1>3, <1>4, <1>5, <1>6, <1>7 DEF LInv

\* StopProducers
LEMMA StepStop ==
  ASSUME LInv, StopProducers
  PROVE  LInv'
<1>. USE DEF StopProducers
<1>1. (LiveTickets)' = LiveTickets
  BY DEF LiveTickets, Live
<1>2. (ActiveCounts)'
  BY <1>1, LiveSame DEF LInv
<1>3. (TypeOK)'
  BY DEF LInv, TypeOK, CoordType, ProducerType, HistoryType
<1>4. DrainOK'
  BY DEF LInv, DrainOK
<1>5. ASSUME NEW j \in Ids PROVE TicketOK(j)'
  BY DEF LInv, TicketOK, Live
<1>6. ASSUME NEW j \in Ids PROVE ProducerOK(j)'
  <2>1. /\ goroutine'[j] \in {"running", "canceled"} => goroutine[j] \in {"running", "canceled"}
        /\ goroutine'[j] = "none" <=> goroutine[j] = "none"
    BY DEF LInv, TypeOK, ProducerType
  <2>. QED BY <2>1 DEF LInv, ProducerOK
<1>7. ASSUME NEW j \in Ids PROVE QuietOK(j)'
  BY DEF LInv, QuietOK, Live, Sentinels
<1>. QED BY <1>2, <1>3, <1>4, <1>5, <1>6, <1>7 DEF LInv

\* StopProducersReturns: an empty map means that every goroutine has left.
LEMMA StepStopped ==
  ASSUME LInv, StopProducersReturns
  PROVE  LInv'
<1>. USE DEF StopProducersReturns
<1>1. (LiveTickets)' = LiveTickets
  BY DEF LiveTickets, Live, coord
<1>2. (ActiveCounts)'
  BY <1>1, LiveSame DEF LInv, coord
<1>3. (TypeOK)'
  BY DEF LInv, TypeOK, CoordType, ProducerType, HistoryType, coord
<1>4. DrainOK'
  BY DEF LInv, DrainOK, coord
<1>5. ASSUME NEW j \in Ids PROVE TicketOK(j)'
  BY DEF LInv, TicketOK, Live, coord
<1>6. ASSUME NEW j \in Ids PROVE ProducerOK(j)'
  <2>1. goroutine[j] = "none"
    BY DEF LInv, ProducerOK, Ids, NoTicket
  <2>. QED BY <2>1 DEF LInv, ProducerOK, coord
<1>7. ASSUME NEW j \in Ids PROVE QuietOK(j)'
  BY DEF LInv, QuietOK, Live, Sentinels, coord
<1>. QED BY <1>2, <1>3, <1>4, <1>5, <1>6, <1>7 DEF LInv

\* BeginDrain
LEMMA StepDrain ==
  ASSUME LInv, NEW i \in Ids, BeginDrain(i)
  PROVE  LInv'
<1>. USE DEF BeginDrain
<1>1. ReserveTicket(i, "sentinel", i, "reserved") /\ admission = "open" /\ quiet # "yes"
  BY DEF LInv, DrainOK
<1>2. (ActiveCounts)' /\ active' \in Nat
  BY <1>1, ReserveCounts
<1>3. (TypeOK)'
  BY <1>2 DEF LInv, TypeOK, CoordType, ProducerType, HistoryType,
              ReserveTicket, prods
<1>4. DrainOK'
  <2>1. kind'[i] = "sentinel"
    BY DEF LInv, TypeOK, CoordType, ReserveTicket
  <2>. QED BY <2>1, <1>1 DEF LInv, DrainOK, prods
<1>5. ASSUME NEW j \in Ids PROVE TicketOK(j)'
  <2>1. CASE j = i
    BY <2>1, <1>1 DEF LInv, TypeOK, CoordType, HistoryType, TicketOK,
                      ReserveTicket, Live
  <2>2. CASE j # i
    <3>1. kind[j] # "sentinel"
      BY DEF LInv, TicketOK
    <3>. QED BY <2>2, <1>1, <3>1 DEF LInv, TypeOK, CoordType, HistoryType,
                                     TicketOK, ReserveTicket, Live
  <2>. QED BY <2>1, <2>2
<1>6. ASSUME NEW j \in Ids PROVE ProducerOK(j)'
  BY FreshTicket DEF LInv, TypeOK, CoordType, ProducerOK, ReserveTicket, prods
<1>7. ASSUME NEW j \in Ids PROVE QuietOK(j)'
  BY <1>1 DEF QuietOK
<1>. QED BY <1>2, <1>3, <1>4, <1>5, <1>6, <1>7 DEF LInv

\* WaitOnly
LEMMA StepWait ==
  ASSUME LInv, WaitOnly
  PROVE  LInv'
<1>. USE DEF WaitOnly
<1>1. PICK s \in Ids : kind[s] = "sentinel" /\ LiveTickets = {s}
  BY OnlySentinel
<1>2. (LiveTickets)' = LiveTickets
  BY DEF LiveTickets, Live, coord
<1>3. (ActiveCounts)'
  BY <1>2, LiveSame DEF LInv, coord
<1>4. (TypeOK)'
  BY DEF LInv, TypeOK, CoordType, ProducerType, HistoryType, coord,
         prods
<1>5. DrainOK'
  BY DEF LInv, DrainOK, coord, prods
<1>6. ASSUME NEW j \in Ids PROVE TicketOK(j)'
  BY DEF LInv, TicketOK, Live, coord
<1>7. ASSUME NEW j \in Ids PROVE ProducerOK(j)'
  BY DEF LInv, ProducerOK, coord, prods
<1>8. ASSUME NEW j \in Ids PROVE QuietOK(j)'
  <2>1. Live(j) => j = s
    BY <1>1 DEF LiveTickets
  <2>2. origin[s] = s
    BY <1>1 DEF LInv, TicketOK
  <2>. QED BY <1>1, <2>1, <2>2 DEF QuietOK, Live, Sentinels, coord
<1>. QED BY <1>3, <1>4, <1>5, <1>6, <1>7, <1>8 DEF LInv

\* CloseAdmission: with only the sentinel registered, releasing it leaves
\* nothing, and zero is the right count.
LEMMA StepClose ==
  ASSUME LInv, CloseAdmission
  PROVE  LInv'
<1>. USE DEF CloseAdmission
<1>1. PICK s \in Ids : kind[s] = "sentinel" /\ LiveTickets = {s}
  BY OnlySentinel
<1>2. ASSUME NEW j \in Ids PROVE ~Live(j)'
  <2>1. CASE kind[j] = "sentinel"
    BY <2>1 DEF Live
  <2>2. CASE kind[j] # "sentinel"
    BY <2>2, <1>1 DEF Live, LiveTickets
  <2>. QED BY <2>1, <2>2
<1>3. (LiveTickets)' = {}
  BY <1>2 DEF LiveTickets
<1>4. (ActiveCounts)'
  BY <1>3, FS_EmptySet DEF ActiveCounts
<1>5. (TypeOK)'
  BY DEF LInv, TypeOK, CoordType, ProducerType, HistoryType, prods
<1>6. DrainOK'
  BY DEF LInv, DrainOK, prods
<1>7. ASSUME NEW j \in Ids PROVE TicketOK(j)'
  BY <1>2 DEF LInv, TicketOK
<1>8. ASSUME NEW j \in Ids PROVE ProducerOK(j)'
  <2>1. kind[j] = "sentinel" => tickets[j] # "unused" /\ goroutine[j] \notin {"running", "canceled"}
    BY DEF LInv, TicketOK, ProducerOK
  <2>2. tickets[j] # "running" \/ kind[j] = "sentinel"
    BY <1>1 DEF LiveTickets, Live
  <2>. QED BY <2>1, <2>2 DEF LInv, ProducerOK, prods
<1>9. ASSUME NEW j \in Ids PROVE QuietOK(j)'
  BY <1>2 DEF QuietOK
<1>. QED BY <1>4, <1>5, <1>6, <1>7, <1>8, <1>9 DEF LInv

\* Every step keeps the invariant.
LEMMA LStep == LInv /\ [Next]_vars => LInv'
<1>. SUFFICES ASSUME LInv, [Next]_vars PROVE LInv'
  OBVIOUS
<1>1. ASSUME NEW i \in Ids, Work(i) PROVE LInv'
  BY <1>1, StepRoot, StepSubmit, StepRelease, StepChild, StepStart, StepReturns, StepForgets
     DEF Work
<1>2. CASE Drain
  BY <1>2, StepDrain, StepStop, StepStopped, StepWait, StepClose DEF Drain
<1>3. CASE UNCHANGED vars
  BY <1>3 DEF vars, coord, prods, LInv, TypeOK, CoordType,
              ProducerType, HistoryType,
     ActiveCounts, LiveTickets, Live, DrainOK, TicketOK, ProducerOK, QuietOK,
     Sentinels
<1>. QED BY <1>1, <1>2, <1>3 DEF Next

\* LInv holds in every reachable state.
LEMMA LAlways == Spec => []LInv
BY LInit, LStep, PTL DEF Spec

\* The coordinator's variables keep their types; active, which several places
\* decrement, is never negative.
THEOREM LifecycleTypes == Spec => []TypeOK
<1>1. LInv => TypeOK
  BY DEF LInv
<1>. QED BY <1>1, LAlways, PTL

\* The counter the waits of the drain look at is the number of registered
\* tickets, for any number of tickets.
THEOREM CounterRight == Spec => []ActiveCounts
<1>1. LInv => ActiveCounts
  BY DEF LInv
<1>. QED BY <1>1, LAlways, PTL

\* After WaitOnly has returned, only descendants of the sentinel are at work.
THEOREM QuietAfterWait == Spec => []OnlySentinelWork
<1>1. LInv => OnlySentinelWork
  BY DEF LInv, QuietOK, OnlySentinelWork, LiveTickets
<1>. QED BY <1>1, LAlways, PTL

\* A coordinator that CloseAdmissionAndWait has closed has no registered work.
THEOREM IdleWhenClosed == Spec => []ClosedIsIdle
<1>1. LInv => ClosedIsIdle
  BY DEF LInv, TicketOK, ClosedIsIdle, LiveTickets
<1>. QED BY <1>1, LAlways, PTL

\* No producer goroutine is left, or comes back, after StopProducers returned.
THEOREM NoProducerReturns == Spec => []ProducersStayStopped
<1>1. LInv => ProducersStayStopped
  BY DEF LInv, ProducerOK, ProducersStayStopped
<1>. QED BY <1>1, LAlways, PTL

-----------------------------------------------------------------------------
(* The process. *)

\* The stages in which a step is over.
PastBackground == {"decide", "resources", "handoff"}
PastAudit      == PastBackground \cup {"background"}
PastCleaner    == PastAudit \cup {"audit"}
PastAdmission  == PastCleaner \cup {"cleaner"}
PastFlush      == PastAdmission \cup {"admission"}
PastRoots      == PastFlush \cup {"flush"}
PastHTTP       == PastRoots \cup {"roots", "producers", "drain"}

\* No handler is left once HTTP was drained, and none comes.
HandlersGone ==
  /\ stage # "serving" => ready = "no"
  /\ stage \in PastHTTP \/ updater # "running" => ready = "no" /\ HTTPIdle

\* The final flush begins after the roots have ended, and leaves nothing.
FlushLast ==
  /\ updater = "stopped" => debts = 0
  /\ failed = "no" => refused = 0
  /\ failed = "no" /\ (stage \in PastRoots \/ updater # "running") => quiet = "yes"
  /\ failed = "no" /\ stage \in PastFlush => updater = "stopped"

\* What the later steps waited for stays so.
PartsStopped ==
  /\ group = "closed" => tasks = 0 /\ periodic = "gone"
  /\ failed = "no" /\ stage \in PastAdmission => admission = "closed"
  /\ failed = "no" /\ stage \in PastCleaner => services["cleaner"] = "stopped"
  /\ failed = "no" /\ stage \in PastAudit => services["audit"] = "stopped"
  /\ failed = "no" /\ stage \in PastBackground => group = "closed"

\* Everything that was drained is quiet.
AllQuiet ==
  /\ HTTPIdle /\ ready = "no"
  /\ LiveTickets = {} /\ admission = "closed"
  /\ updater = "stopped" /\ debts = 0
  /\ periodic = "gone" /\ tasks = 0 /\ group = "closed"
  /\ \A s \in {"cleaner", "audit"} : services[s] = "stopped"

\* Resources are closed, and the process ends well, only without a failure.
EndsWell ==
  /\ stage \in {"resources", "handoff"} => failed = "no"
  /\ exit = "clean" => failed = "no" /\ updater = "stopped" /\ stage = "exited"
  /\ db = "closed" => stage \in {"handoff", "exited"}
  /\ db = "closed" /\ stage = "exited" => AllQuiet

\* The inductive invariant.
ShutdownInv ==
  /\ LInv /\ MainType /\ HTTPType /\ PartsType
  /\ HandlersGone /\ FlushLast /\ PartsStopped /\ EndsWell

-----------------------------------------------------------------------------
(* The coordinator inside the process. *)

\* What the invariant of the coordinator means for the rest of the process.
LEMMA CoordinatorFacts ==
  ASSUME LInv
  PROVE  /\ TypeOK
         /\ admission = "closed" => LiveTickets = {}
         /\ quiet = "yes" => \A i \in LiveTickets : origin[i] \in Sentinels
<1>1. TypeOK
  BY DEF LInv
<1>2. ASSUME NEW i \in Ids PROVE TicketOK(i) /\ QuietOK(i)
  BY DEF LInv
<1>3. admission = "closed" => LiveTickets = {}
  BY <1>2 DEF TicketOK, LiveTickets
<1>4. quiet = "yes" => \A i \in LiveTickets : origin[i] \in Sentinels
  BY <1>2 DEF QuietOK, LiveTickets
<1> QED
  BY <1>1, <1>3, <1>4

\* Whatever the process does to the coordinator is a step of the coordinator.
LEMMA CoordinatorSteps ==
  ASSUME [ProcessNext]_processVars
  PROVE  [Next]_vars
<1> USE DEF Ids
<1>1. UNCHANGED billing => UNCHANGED vars
  BY DEF billing, vars, coord, prods
<1>2. CASE UNCHANGED processVars
  BY <1>1, <1>2 DEF processVars
<1>3. CASE Handlers
  <2>1. ASSUME NEW r \in Reqs, NEW i \in Ids, HandlerRefund(r, i) PROVE Next
    BY <2>1 DEF HandlerRefund, Next, Work
  <2>2. ASSUME NEW r \in Reqs, Arrive(r) \/ MarkStream(r) \/ Leave(r) \/ Capture(r) \/ RatioFetch(r)
        PROVE  UNCHANGED billing
    BY <2>2 DEF Arrive, MarkStream, Leave, Capture, RatioFetch
  <2> QED
    BY <1>1, <1>3, <2>1, <2>2 DEF Handlers
<1>4. CASE OwnWork
  <2>1. CASE BillingWork
    BY <2>1 DEF BillingWork, Next, Work
  <2>2. ASSUME NEW i \in Ids, FlushReward(i) PROVE Next
    BY <2>2 DEF FlushReward, Next, Work
  <2>3. ASSUME AddDebt \/ WriteDebts \/ SubmitTask \/ TaskEnds \/ SpoolCapture
               \/ SweepBegins \/ \E x \in Strays : StrayEnds(x)
        PROVE  UNCHANGED billing
    BY <2>3 DEF AddDebt, WriteDebts, SubmitTask, TaskEnds, SpoolCapture, SweepBegins, StrayEnds
  <2>4. ASSUME NEW s, ServiceStops(s) PROVE UNCHANGED billing
    BY <2>4 DEF ServiceStops
  <2> QED
    BY <1>1, <1>4, <2>1, <2>2, <2>3, <2>4 DEF OwnWork
<1>5. CASE Signal
  BY <1>1, <1>5 DEF Signal
<1>6. CASE Shutdown
  <2>1. CASE BeginBillingDrain
    BY <2>1 DEF BeginBillingDrain, Next, Drain
  <2>2. CASE StepCall
    BY <1>1, <2>2 DEF StepCall, Next, Drain
  <2>3. CASE StepDone
    BY <1>1, <2>3 DEF StepDone, Next, Drain
  <2>4. ASSUME \/ HTTPDrained \/ GraceExpires \/ ForceExpires \/ StepFails \/ WorkExpires
               \/ Decide \/ CloseResources \/ HandoffDone
        PROVE  UNCHANGED billing
    BY <2>4 DEF HTTPDrained, GraceExpires, ForceExpires, StepFails, WorkExpires, Decide,
                CloseResources, HandoffDone
  <2> QED
    BY <1>1, <1>6, <2>1, <2>2, <2>3, <2>4 DEF Shutdown
<1> QED
  BY <1>2, <1>3, <1>4, <1>5, <1>6 DEF ProcessNext

\* The process starts with a fresh coordinator.
LEMMA CoordinatorInit ==
  ASSUME ProcessInit
  PROVE  Init /\ LInv
<1>1. Init
  BY DEF ProcessInit
<1> QED
  BY <1>1, LInit

\* The process, seen through its coordinator, is a coordinator: every property
\* proved of BillingLifecycle holds of the process.
THEOREM ShutdownRunsCoordinator == ProcessSpec => Spec
<1>1. ProcessInit => Init
  BY CoordinatorInit
<1>2. [ProcessNext]_processVars => [Next]_vars
  BY CoordinatorSteps
<1> QED
  BY <1>1, <1>2, PTL DEF ProcessSpec, Spec

-----------------------------------------------------------------------------
(* The order of the shutdown. *)

\* The invariant but for the coordinator.
Process == MainType /\ HTTPType /\ PartsType /\ HandlersGone /\ FlushLast /\ PartsStopped /\ EndsWell

\* What the rest of the process sees of a step of the coordinator.
Settled ==
  /\ quiet = "yes" => quiet' = "yes"
  /\ admission = "closed" => admission' = "closed"
  /\ admission' = "closed" => (LiveTickets)' = {}
  /\ quiet = "yes" => \A i \in LiveTickets : origin[i] \in Sentinels

\* WaitOnly and CloseAdmissionAndWait are final.
LEMMA CoordinatorSettled ==
  ASSUME LInv, [Next]_vars
  PROVE  Settled
<1>1. LInv'
  BY LStep
<1>2. (quiet = "yes" => quiet' = "yes") /\ (admission = "closed" => admission' = "closed")
  <2> USE DEF prods, coord
  <2>1. ASSUME NEW i, Work(i) PROVE quiet' = quiet /\ admission' = admission
    BY <2>1 DEF Work, ReserveRoot, ReserveChild, StartProducer, Submit,
                Release, ProducerReturns, ProducerForgets
  <2>2. CASE Drain
    BY <2>2 DEF Drain, BeginDrain, StopProducers, StopProducersReturns,
                WaitOnly, CloseAdmission
  <2>3. CASE UNCHANGED vars
    BY <2>3 DEF vars
  <2> QED
    BY <2>1, <2>2, <2>3 DEF Next
<1>3. quiet = "yes" => \A i \in LiveTickets : origin[i] \in Sentinels
  BY CoordinatorFacts
<1>4. admission' = "closed" => (LiveTickets)' = {}
  <2>1. \A i \in Ids : TicketOK(i)'
    BY <1>1 DEF LInv
  <2>2. \A i \in Ids : admission' = "closed" => ~Live(i)'
    BY <2>1 DEF TicketOK
  <2> QED
    BY <2>2 DEF LiveTickets, Live, Ids
<1> QED
  BY <1>2, <1>3, <1>4 DEF Settled

\* Before the resources are closed everything is quiet.
LEMMA QuietAtEnd ==
  ASSUME Process, LInv, stage \in {"resources", "handoff"}
  PROVE  AllQuiet /\ failed = "no"
<1>1. failed = "no"
  BY DEF Process, EndsWell
<1>2. /\ admission = "closed" /\ updater = "stopped" /\ debts = 0 /\ group = "closed"
      /\ services["cleaner"] = "stopped" /\ services["audit"] = "stopped"
      /\ tasks = 0 /\ periodic = "gone" /\ ready = "no" /\ HTTPIdle
  BY <1>1 DEF Process, HandlersGone, FlushLast, PartsStopped, PastHTTP, PastRoots, PastFlush,
              PastAdmission, PastCleaner, PastAudit, PastBackground
<1>3. LiveTickets = {}
  BY <1>2, CoordinatorFacts
<1> QED
  BY <1>1, <1>2, <1>3 DEF AllQuiet

\* Steps that do not touch the main goroutine, nor end the quiet of a part.
LEMMA MainRests ==
  ASSUME Process, LInv, Settled, UNCHANGED main, UNCHANGED db, UNCHANGED updater,
         HTTPType', PartsType', UNCHANGED ready, stage # "exited",
         ready = "no" /\ HTTPIdle => HTTPIdle',
         updater = "stopped" /\ debts = 0 => debts' = 0,
         failed = "no" => refused' = refused,
         group = "closed" => group' = "closed",
         group' = "closed" => tasks' = 0 /\ periodic' = "gone",
         \A s \in {"cleaner", "audit"} : services[s] = "stopped" => services'[s] = "stopped"
  PROVE  Process'
<1>1. stage' = stage /\ called' = called /\ workCtx' = workCtx /\ failed' = failed /\ exit' = exit
  BY DEF main
<1>2. MainType'
  BY <1>1 DEF Process, MainType
<1>3. HandlersGone'
  BY <1>1 DEF Process, HandlersGone
<1>4. FlushLast'
  BY <1>1 DEF Process, FlushLast, Settled
<1>5. PartsStopped'
  BY <1>1 DEF Process, PartsStopped, Settled
<1>6. EndsWell'
  BY <1>1 DEF Process, EndsWell
<1> QED
  BY <1>2, <1>3, <1>4, <1>5, <1>6 DEF Process

\* Handlers.
LEMMA HandlersStep ==
  ASSUME Process, LInv, Settled, NEW r \in Reqs,
         (\/ Arrive(r) \/ MarkStream(r) \/ Leave(r) \/ Capture(r) \/ RatioFetch(r)
          \/ \E i \in Ids : HandlerRefund(r, i))
  PROVE  Process'
<1> USE DEF Alive
<1>1. HTTPType /\ PartsType /\ (group = "closed" => tasks = 0 /\ periodic = "gone")
  BY DEF Process, PartsStopped
<1>2. ASSUME UNCHANGED <<main, ready, longLived, batch, tasking, others>>, Alive,
             req' \in [Reqs -> {"new", "plain", "stream", "canceled", "done", "refused"}],
             ready = "no" /\ HTTPIdle => HTTPIdle'
      PROVE  Process'
  <2>1. /\ UNCHANGED <<updater, debts, refused>> /\ UNCHANGED <<group, periodic, tasks>>
        /\ UNCHANGED <<services, captures, outside, db>>
    BY <1>2 DEF batch, tasking, others
  <2>2. HTTPType' /\ PartsType'
    BY <1>1, <1>2, <2>1 DEF HTTPType, PartsType
  <2> QED
    BY <1>1, <1>2, <2>1, <2>2, MainRests
<1>3. CASE Arrive(r)
  <2>1. req' \in [Reqs -> {"new", "plain", "stream", "canceled", "done", "refused"}]
    BY <1>1, <1>3 DEF Arrive, HTTPType
  <2>2. ready = "no" /\ HTTPIdle => HTTPIdle'
    BY <1>1, <1>3 DEF Arrive, HTTPType, HTTPIdle, Handling
  <2> QED
    BY <1>2, <1>3, <2>1, <2>2 DEF Arrive
<1>4. CASE MarkStream(r)
  <2>1. req' \in [Reqs -> {"new", "plain", "stream", "canceled", "done", "refused"}]
    BY <1>1, <1>4 DEF MarkStream, HTTPType
  <2>2. ready = "no" /\ HTTPIdle => HTTPIdle'
    BY <1>1, <1>4 DEF MarkStream, HTTPType, HTTPIdle, Handling
  <2> QED
    BY <1>2, <1>4, <2>1, <2>2 DEF MarkStream
<1>5. CASE Leave(r)
  <2>1. req' \in [Reqs -> {"new", "plain", "stream", "canceled", "done", "refused"}]
    BY <1>1, <1>5 DEF Leave, HTTPType
  <2>2. ready = "no" /\ HTTPIdle => HTTPIdle'
    BY <1>1, <1>5 DEF Leave, HTTPType, HTTPIdle, Handling
  <2> QED
    BY <1>2, <1>5, <2>1, <2>2 DEF Leave
<1>6. CASE Capture(r)
  <2>1. /\ UNCHANGED <<updater, debts, refused>> /\ UNCHANGED <<group, periodic, tasks>>
        /\ UNCHANGED <<services, outside, db>> /\ UNCHANGED <<ready, longLived, req>> /\ UNCHANGED main
    BY <1>6 DEF Capture, batch, tasking, http
  <2>2. HTTPType' /\ PartsType'
    BY <1>1, <1>6, <2>1 DEF HTTPType, PartsType, Capture
  <2>3. HTTPIdle => HTTPIdle'
    BY <2>1 DEF HTTPIdle, Handling
  <2> QED
    BY <1>1, <1>6, <2>1, <2>2, <2>3, MainRests DEF Capture
<1>7. CASE \E i \in Ids : HandlerRefund(r, i)
  <2>1. UNCHANGED <<main, ready, longLived, req, batch, tasking, others>> /\ Alive
    BY <1>7 DEF HandlerRefund, http
  <2>2. HTTPIdle => HTTPIdle'
    BY <2>1 DEF HTTPIdle, Handling
  <2> QED
    BY <1>1, <1>2, <2>1, <2>2 DEF HTTPType
<1>8. CASE RatioFetch(r)
  <2>1. /\ UNCHANGED <<updater, debts, refused>> /\ UNCHANGED <<group, periodic, tasks>>
        /\ UNCHANGED <<services, captures, db>> /\ UNCHANGED <<ready, longLived, req>> /\ UNCHANGED main
        /\ outside' = outside \cup {"ratio"}
    BY <1>8 DEF RatioFetch, batch, tasking, http
  <2>2. HTTPType' /\ PartsType'
    BY <1>1, <2>1 DEF HTTPType, PartsType, Strays
  <2>3. HTTPIdle => HTTPIdle'
    BY <2>1 DEF HTTPIdle, Handling
  <2> QED
    BY <1>1, <1>8, <2>1, <2>2, <2>3, MainRests DEF RatioFetch
<1> QED
  BY <1>3, <1>4, <1>5, <1>6, <1>7, <1>8

\* Work that runs on its own: nobody is left to offer a debt to an updater
\* that has stopped after a good drain.
LEMMA WorkStep ==
  ASSUME Process, LInv, Settled, OwnWork
  PROVE  Process'
<1> USE DEF Alive
<1>1. HTTPType /\ PartsType /\ (group = "closed" => tasks = 0 /\ periodic = "gone")
  BY DEF Process, PartsStopped
<1>2. ASSUME UNCHANGED <<main, http>>, UNCHANGED <<updater, db>>, stage # "exited", PartsType',
             updater = "stopped" /\ debts = 0 => debts' = 0,
             failed = "no" => refused' = refused,
             group = "closed" => group' = "closed",
             group' = "closed" => tasks' = 0 /\ periodic' = "gone",
             \A s \in {"cleaner", "audit"} : services[s] = "stopped" => services'[s] = "stopped"
      PROVE  Process'
  <2>1. HTTPType' /\ UNCHANGED ready /\ (HTTPIdle => HTTPIdle')
    BY <1>1, <1>2 DEF HTTPType, http, HTTPIdle, Handling
  <2> QED
    BY <1>2, <2>1, MainRests
<1>3. CASE AddDebt
  <2>1. CASE updater = "running"
    <3>1. /\ debts' = debts + 1 /\ UNCHANGED refused /\ UNCHANGED <<main, http, updater, tasking, others>>
          /\ stage # "exited"
      BY <1>3, <2>1 DEF AddDebt
    <3>2. PartsType'
      BY <1>1, <3>1 DEF PartsType, tasking, others
    <3> QED
      BY <1>1, <1>2, <2>1, <3>1, <3>2 DEF tasking, others
  <2>2. CASE updater # "running"
    <3>1. /\ refused' = refused + 1 /\ UNCHANGED debts /\ UNCHANGED <<main, http, updater, tasking, others>>
          /\ stage # "exited"
      BY <1>3, <2>2 DEF AddDebt
    <3>2. PartsType'
      BY <1>1, <3>1 DEF PartsType, tasking, others
    <3>3. ASSUME failed = "no" PROVE FALSE
      <4>1. quiet = "yes" /\ HTTPIdle
        BY <2>2, <3>3 DEF Process, FlushLast, HandlersGone
      <4>2. \A i \in LiveTickets : origin[i] \in Sentinels
        BY <4>1 DEF Settled
      <4> QED
        BY <1>3, <4>1, <4>2 DEF AddDebt
    <3> QED
      BY <1>1, <1>2, <3>1, <3>2, <3>3 DEF tasking, others
  <2> QED
    BY <2>1, <2>2
<1>4. CASE BillingWork \/ \E i \in Ids : FlushReward(i)
  <2>1. UNCHANGED <<main, http, batch, tasking, others>> /\ stage # "exited"
    BY <1>4 DEF BillingWork, FlushReward
  <2>2. PartsType'
    BY <1>1, <2>1 DEF PartsType, batch, tasking, others
  <2> QED
    BY <1>1, <1>2, <2>1, <2>2 DEF batch, tasking, others
<1>5. CASE WriteDebts
  <2>1. /\ debts' = 0 /\ UNCHANGED <<main, http, updater, refused, tasking, others>> /\ stage # "exited"
    BY <1>5 DEF WriteDebts
  <2>2. PartsType'
    BY <1>1, <2>1 DEF PartsType, tasking, others
  <2> QED
    BY <1>1, <1>2, <2>1, <2>2 DEF tasking, others
<1>6. CASE SubmitTask
  <2>1. /\ tasks' = tasks + 1 /\ group # "closed" /\ stage # "exited"
        /\ UNCHANGED <<main, http, batch, group, periodic, others>>
    BY <1>6 DEF SubmitTask
  <2>2. PartsType'
    BY <1>1, <2>1 DEF PartsType, batch, others
  <2> QED
    BY <1>1, <1>2, <2>1, <2>2 DEF batch, others
<1>7. CASE TaskEnds
  <2>1. UNCHANGED <<main, http, batch, others>> /\ stage # "exited"
    BY <1>7 DEF TaskEnds
  <2>2. /\ tasks' \in Nat /\ periodic' \in {"running", "canceled", "gone"}
        /\ group' \in {"open", "stopping", "closed"}
    BY <1>1, <1>7 DEF TaskEnds, PartsType
  <2>3. PartsType'
    BY <1>1, <2>1, <2>2 DEF PartsType, batch, others
  <2>4. group # "closed" /\ (group' = "closed" => tasks' = 0 /\ periodic' = "gone")
    BY <1>1, <1>7 DEF TaskEnds, PartsType
  <2> QED
    BY <1>2, <2>1, <2>3, <2>4 DEF batch, others
<1>8. ASSUME NEW s \in {"cleaner", "audit"}, ServiceStops(s) PROVE Process'
  <2>1. /\ UNCHANGED <<main, http, batch, tasking, captures, outside, db>> /\ stage # "exited"
        /\ services' = [services EXCEPT ![s] = "stopped"]
    BY <1>8 DEF ServiceStops
  <2>2. PartsType'
    BY <1>1, <2>1 DEF PartsType, batch, tasking
  <2>3. \A t \in {"cleaner", "audit"} : services[t] = "stopped" => services'[t] = "stopped"
    BY <1>1, <2>1 DEF PartsType
  <2> QED
    BY <1>1, <1>2, <2>1, <2>2, <2>3 DEF batch, tasking
<1>9. CASE SpoolCapture
  <2>1. /\ UNCHANGED <<main, http, batch, tasking, services, outside, db>> /\ stage # "exited"
        /\ captures > 0 /\ captures' = captures - 1
    BY <1>9 DEF SpoolCapture
  <2>2. PartsType'
    BY <1>1, <2>1 DEF PartsType, batch, tasking
  <2> QED
    BY <1>1, <1>2, <2>1, <2>2 DEF batch, tasking
<1>10. CASE SweepBegins \/ \E x \in Strays : StrayEnds(x)
  <2>1. /\ UNCHANGED <<main, http, batch, tasking, services, captures, db>> /\ stage # "exited"
        /\ outside' = outside \cup {"sweep"} \/ \E x \in Strays : outside' = outside \ {x}
    BY <1>10 DEF SweepBegins, StrayEnds
  <2>2. PartsType'
    BY <1>1, <2>1 DEF PartsType, batch, tasking, Strays
  <2> QED
    BY <1>1, <1>2, <2>1, <2>2 DEF batch, tasking
<1> QED
  BY <1>3, <1>4, <1>5, <1>6, <1>7, <1>8, <1>9, <1>10 DEF OwnWork

\* The main goroutine until the work steps begin.
LEMMA DrainStarts ==
  ASSUME Process, LInv, Settled,
         Signal \/ HTTPDrained \/ GraceExpires \/ ForceExpires \/ BeginBillingDrain
  PROVE  Process'
<1> USE DEF Process, PastHTTP, PastRoots, PastFlush, PastAdmission, PastCleaner, PastAudit,
            PastBackground, Stages, WorkStages
<1>1. CASE Signal
  <2>1. /\ stage = "serving" /\ stage' = "grace" /\ ready' = "no"
        /\ UNCHANGED <<called, workCtx, failed, exit, longLived, req>>
        /\ UNCHANGED <<updater, debts, refused>> /\ UNCHANGED <<group, periodic, tasks>>
        /\ UNCHANGED <<services, captures, outside, db>>
    BY <1>1 DEF Signal, batch, tasking, others
  <2>2. MainType' /\ HTTPType' /\ PartsType'
    BY <2>1 DEF MainType, HTTPType, PartsType
  <2>3. HandlersGone' /\ FlushLast'
    BY <2>1 DEF HandlersGone, FlushLast, HTTPIdle, Handling, Settled
  <2>4. PartsStopped' /\ EndsWell'
    BY <2>1 DEF PartsStopped, EndsWell
  <2> QED
    BY <2>2, <2>3, <2>4
<1>2. CASE HTTPDrained \/ BeginBillingDrain
  <2>1. /\ stage \in {"grace", "force", "drain"} /\ stage' \in {"drain", "producers"} /\ HTTPIdle
        /\ UNCHANGED <<called, workCtx, failed, exit>> /\ UNCHANGED <<ready, longLived, req>>
        /\ UNCHANGED <<updater, debts, refused>> /\ UNCHANGED <<group, periodic, tasks>>
        /\ UNCHANGED <<services, captures, outside, db>>
    BY <1>2 DEF HTTPDrained, BeginBillingDrain, HandlersGone, batch, tasking, others, http
  <2>2. MainType' /\ HTTPType' /\ PartsType'
    BY <2>1 DEF MainType, HTTPType, PartsType
  <2>3. HandlersGone' /\ FlushLast'
    BY <2>1 DEF HandlersGone, FlushLast, HTTPIdle, Handling, Settled
  <2>4. PartsStopped' /\ EndsWell'
    BY <2>1 DEF PartsStopped, EndsWell
  <2> QED
    BY <2>2, <2>3, <2>4
<1>3. CASE GraceExpires
  <2>1. /\ stage = "grace" /\ stage' = "force" /\ longLived' = "canceled"
        /\ req' = [r \in Reqs |-> IF req[r] = "stream" THEN "canceled" ELSE req[r]]
        /\ UNCHANGED <<called, workCtx, failed, exit, ready>>
        /\ UNCHANGED <<updater, debts, refused>> /\ UNCHANGED <<group, periodic, tasks>>
        /\ UNCHANGED <<services, captures, outside, db>>
    BY <1>3 DEF GraceExpires, batch, tasking, others
  <2>2. MainType' /\ HTTPType' /\ PartsType'
    BY <2>1 DEF MainType, HTTPType, PartsType
  <2>3. HTTPIdle => HTTPIdle'
    BY <2>1 DEF HTTPIdle, Handling
  <2>4. HandlersGone' /\ FlushLast'
    BY <2>1, <2>3 DEF HandlersGone, FlushLast, Settled
  <2>5. PartsStopped' /\ EndsWell'
    BY <2>1 DEF PartsStopped, EndsWell
  <2> QED
    BY <2>2, <2>4, <2>5
<1>4. CASE ForceExpires
  <2>1. /\ stage = "force" /\ stage' = "exited" /\ exit' = "failed"
        /\ UNCHANGED <<called, workCtx, failed>> /\ UNCHANGED <<ready, longLived, req>>
        /\ UNCHANGED <<updater, debts, refused>> /\ UNCHANGED <<group, periodic, tasks>>
        /\ UNCHANGED <<services, captures, outside, db>>
    BY <1>4 DEF ForceExpires, Exit, batch, tasking, others, http
  <2>2. MainType' /\ HTTPType' /\ PartsType'
    BY <2>1 DEF MainType, HTTPType, PartsType
  <2>3. HandlersGone' /\ FlushLast'
    BY <2>1 DEF HandlersGone, FlushLast, HTTPIdle, Handling, Settled
  <2>4. PartsStopped' /\ EndsWell'
    BY <2>1 DEF PartsStopped, EndsWell
  <2> QED
    BY <2>2, <2>3, <2>4
<1> QED
  BY <1>1, <1>2, <1>3, <1>4

\* The hook of a work step is called.
LEMMA CallsStep ==
  ASSUME Process, LInv, Settled, StepCall
  PROVE  Process'
<1> USE DEF Process, PastHTTP, PastRoots, PastFlush, PastAdmission, PastCleaner, PastAudit,
            PastBackground, Stages, WorkStages
<1>1. /\ stage \in WorkStages /\ called' = "yes" /\ UNCHANGED <<stage, workCtx, failed, exit>>
      /\ UNCHANGED <<ready, longLived, req>>
      /\ UNCHANGED <<debts, refused, tasks, captures, outside, db>>
  BY DEF StepCall, http
<1>2. /\ updater' \in {"running", "stopping", "stopped"}
      /\ stage = "flush" \/ updater' = updater
      /\ updater' # "stopped" \/ updater = "stopped"
  BY DEF StepCall, PartsType
<1>3. /\ services' \in [{"cleaner", "audit"} -> {"running", "stopping", "stopped"}]
      /\ stage # "cleaner" => services'["cleaner"] = services["cleaner"]
      /\ stage # "audit" => services'["audit"] = services["audit"]
  BY DEF StepCall, PartsType
<1>4. /\ periodic' \in {"running", "canceled", "gone"} /\ group' \in {"open", "stopping", "closed"}
      /\ group' = "closed" => tasks = 0 /\ periodic' = "gone"
      /\ stage # "background" => group' = group
  BY DEF StepCall, PartsType, PartsStopped
<1>5. MainType' /\ HTTPType' /\ PartsType'
  BY <1>1, <1>2, <1>3, <1>4 DEF MainType, HTTPType, PartsType
<1>6. HandlersGone'
  BY <1>1, <1>2 DEF HandlersGone, HTTPIdle, Handling
<1>7. FlushLast'
  BY <1>1, <1>2 DEF FlushLast, Settled
<1>8. PartsStopped'
  BY <1>1, <1>3, <1>4 DEF PartsStopped, Settled
<1>9. EndsWell'
  BY <1>1, <1>2 DEF EndsWell
<1> QED
  BY <1>5, <1>6, <1>7, <1>8, <1>9

\* A work step ends well: what it waited for holds.
LEMMA DoneStep ==
  ASSUME Process, LInv, Settled, StepDone
  PROVE  Process'
<1> USE DEF Process, PastHTTP, PastRoots, PastFlush, PastAdmission, PastCleaner, PastAudit,
            PastBackground, Stages, WorkStages
<1>1. /\ stage \in WorkStages /\ called' = "no" /\ stage' = NextStage(stage)
      /\ UNCHANGED <<workCtx, failed, exit>> /\ UNCHANGED <<ready, longLived, req>>
      /\ UNCHANGED <<debts, refused>> /\ UNCHANGED <<group, periodic, tasks>>
      /\ UNCHANGED <<services, captures, outside, db>>
  BY DEF StepDone, http, tasking, others
<1>2. /\ stage = "producers" => stage' = "roots"
      /\ stage = "roots" => stage' = "flush"
      /\ stage = "flush" => stage' = "admission"
      /\ stage = "admission" => stage' = "cleaner"
      /\ stage = "cleaner" => stage' = "audit"
      /\ stage = "audit" => stage' = "background"
      /\ stage = "background" => stage' = "decide"
  BY <1>1 DEF NextStage
<1>3. /\ stage = "roots" => quiet' = "yes"
      /\ stage = "flush" => debts = 0 /\ updater' = "stopped"
      /\ stage # "flush" => updater' = updater
      /\ stage = "admission" => admission' = "closed"
      /\ stage = "cleaner" => services["cleaner"] = "stopped"
      /\ stage = "audit" => services["audit"] = "stopped"
      /\ stage = "background" => group = "closed"
  BY DEF StepDone, WaitOnly, CloseAdmission
<1>4. MainType' /\ HTTPType' /\ PartsType'
  BY <1>1, <1>2, <1>3 DEF MainType, HTTPType, PartsType
<1>5. HandlersGone'
  BY <1>1, <1>2, <1>3 DEF HandlersGone, HTTPIdle, Handling
<1>6. FlushLast'
  BY <1>1, <1>2, <1>3 DEF FlushLast, Settled
<1>7. PartsStopped'
  BY <1>1, <1>2, <1>3 DEF PartsStopped, Settled
<1>8. EndsWell'
  BY <1>1, <1>2 DEF EndsWell
<1> QED
  BY <1>4, <1>5, <1>6, <1>7, <1>8

\* A work step fails: the failure is remembered.
LEMMA FailsStep ==
  ASSUME Process, LInv, Settled, StepFails \/ WorkExpires
  PROVE  Process'
<1> USE DEF Process, PastHTTP, PastRoots, PastFlush, PastAdmission, PastCleaner, PastAudit,
            PastBackground, Stages, WorkStages
<1>1. /\ stage \in WorkStages /\ stage' \in PastRoots \cup {"roots", "producers"}
      /\ stage' \notin {"resources", "handoff"}
      /\ called' \in {"no", "yes"} /\ workCtx' \in {"live", "expired"} /\ failed' \in {"no", "yes"}
      /\ failed' = "no" => failed = "no" /\ stage' = stage
      /\ UNCHANGED exit /\ UNCHANGED <<ready, longLived, req>>
      /\ UNCHANGED <<updater, debts, refused>> /\ UNCHANGED <<group, periodic, tasks>>
      /\ UNCHANGED <<services, captures, outside, db>>
  BY DEF StepFails, WorkExpires, NextStage, http, batch, tasking, others, MainType
<1>2. MainType' /\ HTTPType' /\ PartsType'
  BY <1>1 DEF MainType, HTTPType, PartsType
<1>3. HandlersGone'
  BY <1>1 DEF HandlersGone, HTTPIdle, Handling
<1>4. FlushLast'
  BY <1>1 DEF FlushLast, Settled
<1>5. PartsStopped'
  BY <1>1 DEF PartsStopped, Settled
<1>6. EndsWell'
  BY <1>1 DEF EndsWell
<1> QED
  BY <1>2, <1>3, <1>4, <1>5, <1>6

\* The end: resources are closed behind a drain without failures.
LEMMA EndStep ==
  ASSUME Process, LInv, Settled, UNCHANGED billing, Decide \/ CloseResources \/ HandoffDone
  PROVE  Process'
<1> USE DEF Process, PastHTTP, PastRoots, PastFlush, PastAdmission, PastCleaner, PastAudit,
            PastBackground, Stages, WorkStages
<1>1. /\ UNCHANGED <<called, workCtx, failed>> /\ UNCHANGED <<ready, longLived, req>>
      /\ UNCHANGED <<updater, debts, refused>> /\ UNCHANGED <<group, periodic, tasks>>
      /\ UNCHANGED <<services, captures, outside>> /\ UNCHANGED <<admission, tickets, quiet>>
  BY DEF Decide, CloseResources, HandoffDone, Exit, http, batch, tasking, others, billing
<1>2. /\ stage \in {"decide", "resources", "handoff"} /\ stage' \in {"resources", "handoff", "exited"}
      /\ stage' \in {"resources", "handoff"} => failed = "no"
      /\ exit' = exit \/ (stage' = "exited" /\ exit' = "failed")
           \/ (stage = "handoff" /\ stage' = "exited" /\ exit' = "clean")
      /\ db' \in {"open", "closed"}
      /\ db' = db \/ (stage = "resources" /\ stage' \in {"handoff", "exited"})
      /\ stage = "handoff" => stage' = "exited"
  BY DEF Decide, CloseResources, HandoffDone, Exit, EndsWell, MainType, PartsType, others
<1>3. MainType' /\ HTTPType' /\ PartsType'
  BY <1>1, <1>2 DEF MainType, HTTPType, PartsType
<1>4. HandlersGone'
  BY <1>1, <1>2 DEF HandlersGone, HTTPIdle, Handling
<1>5. FlushLast'
  BY <1>1, <1>2 DEF FlushLast
<1>6. PartsStopped'
  BY <1>1, <1>2 DEF PartsStopped
<1>7. stage \in {"resources", "handoff"} => AllQuiet' /\ failed = "no" /\ updater = "stopped"
  <2>1. ASSUME stage \in {"resources", "handoff"} PROVE AllQuiet /\ failed = "no"
    BY <2>1, QuietAtEnd
  <2>2. AllQuiet => AllQuiet' /\ updater = "stopped"
    BY <1>1 DEF AllQuiet, HTTPIdle, Handling, LiveTickets, Live
  <2> QED
    BY <2>1, <2>2
<1>8. EndsWell'
  <2>1. stage' \in {"resources", "handoff"} => failed' = "no"
    BY <1>1, <1>2
  <2>2. exit' = "clean" => failed' = "no" /\ updater' = "stopped" /\ stage' = "exited"
    BY <1>1, <1>2, <1>7 DEF EndsWell
  <2>3. db' = "closed" => stage' \in {"handoff", "exited"} /\ stage \in {"resources", "handoff"}
    BY <1>2 DEF EndsWell
  <2> QED
    BY <1>7, <2>1, <2>2, <2>3 DEF EndsWell
<1> QED
  BY <1>3, <1>4, <1>5, <1>6, <1>8

-----------------------------------------------------------------------------
(* The invariant holds. *)

\* When the process starts.
LEMMA ShutdownInit ==
  ASSUME ProcessInit
  PROVE  ShutdownInv
<1>1. LInv
  BY CoordinatorInit
<1>2. /\ stage = "serving" /\ called = "no" /\ workCtx = "live" /\ failed = "no" /\ exit = "none"
      /\ ready = "yes" /\ longLived = "open" /\ req = [r \in Reqs |-> "new"]
      /\ updater = "running" /\ debts = 0 /\ refused = 0
      /\ group = "open" /\ periodic = "running" /\ tasks = 0
      /\ services = [s \in {"cleaner", "audit"} |-> "running"]
      /\ captures = 0 /\ outside = {} /\ db = "open"
  BY DEF ProcessInit
<1>3. MainType /\ HTTPType /\ PartsType
  BY <1>2 DEF MainType, HTTPType, PartsType, Stages
<1>4. HandlersGone /\ FlushLast /\ PartsStopped /\ EndsWell
  BY <1>2 DEF HandlersGone, FlushLast, PartsStopped, EndsWell, PastHTTP, PastRoots, PastFlush,
              PastAdmission, PastCleaner, PastAudit, PastBackground
<1> QED
  BY <1>1, <1>3, <1>4 DEF ShutdownInv

\* Every step keeps it.
LEMMA ShutdownNext ==
  ASSUME ShutdownInv, [ProcessNext]_processVars
  PROVE  ShutdownInv'
<1>1. Process /\ LInv
  BY DEF ShutdownInv, Process
<1>2. [Next]_vars
  BY CoordinatorSteps
<1>3. LInv' /\ Settled
  BY <1>1, <1>2, LStep, CoordinatorSettled
<1>4. Process'
  <2>1. CASE Handlers
    BY <1>1, <1>3, <2>1, HandlersStep DEF Handlers
  <2>2. CASE OwnWork
    BY <1>1, <1>3, <2>2, WorkStep
  <2>3. CASE Signal
    BY <1>1, <1>3, <2>3, DrainStarts
  <2>4. CASE Shutdown
    <3>1. CASE HTTPDrained \/ GraceExpires \/ ForceExpires \/ BeginBillingDrain
      BY <1>1, <1>3, <3>1, DrainStarts
    <3>2. CASE StepCall
      BY <1>1, <1>3, <3>2, CallsStep
    <3>3. CASE StepDone
      BY <1>1, <1>3, <3>3, DoneStep
    <3>4. CASE StepFails \/ WorkExpires
      BY <1>1, <1>3, <3>4, FailsStep
    <3>5. CASE Decide \/ CloseResources \/ HandoffDone
      <4>1. UNCHANGED billing
        BY <3>5 DEF Decide, CloseResources, HandoffDone
      <4> QED
        BY <1>1, <1>3, <3>5, <4>1, EndStep
    <3> QED
      BY <2>4, <3>1, <3>2, <3>3, <3>4, <3>5 DEF Shutdown
  <2>5. CASE UNCHANGED processVars
    <3>1. /\ UNCHANGED <<stage, called, workCtx, failed, exit>> /\ UNCHANGED <<ready, longLived, req>>
          /\ UNCHANGED <<updater, debts, refused>> /\ UNCHANGED <<group, periodic, tasks>>
          /\ UNCHANGED <<services, captures, outside, db>> /\ UNCHANGED <<admission, tickets, quiet>>
      BY <2>5 DEF processVars, main, http, batch, tasking, others, billing
    <3> QED
      BY <1>1, <3>1 DEF Process, MainType, HTTPType, PartsType, HandlersGone, FlushLast,
                        PartsStopped,
         EndsWell, HTTPIdle, Handling, AllQuiet, LiveTickets, Live
  <2> QED
    BY <2>1, <2>2, <2>3, <2>4, <2>5 DEF ProcessNext
<1> QED
  BY <1>3, <1>4 DEF ShutdownInv, Process

\* The invariant of the shutdown.
LEMMA ShutdownSafe == ProcessSpec => []ShutdownInv
<1>1. ProcessInit => ShutdownInv
  BY ShutdownInit
<1>2. ShutdownInv /\ [ProcessNext]_processVars => ShutdownInv'
  BY ShutdownNext
<1> QED
  BY <1>1, <1>2, PTL DEF ProcessSpec

\* The variables of the process, its coordinator's included, keep their types.
THEOREM ShutdownTypes == ProcessSpec => []ProcessTypeOK
<1>1. ShutdownInv => ProcessTypeOK
  BY CoordinatorFacts DEF ShutdownInv, ProcessTypeOK
<1> QED
  BY <1>1, ShutdownSafe, PTL

\* After a final flush that followed good steps nobody is left who could offer
\* the updater another delta (the order of workSteps in runGracefulShutdown).
THEOREM FlushIsLast == ProcessSpec => []NobodyBehindFlush
<1>1. ShutdownInv => NobodyBehindFlush
  <2>1. ASSUME ShutdownInv, updater = "stopped", failed = "no"
        PROVE  HTTPIdle /\ \A i \in LiveTickets : origin[i] \in Sentinels
    <3>1. quiet = "yes" /\ HTTPIdle /\ LInv
      BY <2>1 DEF ShutdownInv, FlushLast, HandlersGone
    <3> QED
      BY <3>1, CoordinatorFacts
  <2> QED
    BY <2>1 DEF NobodyBehindFlush
<1> QED
  BY <1>1, ShutdownSafe, PTL

\* A shutdown that ends well has written every delta anybody offered.
THEOREM CleanExitWritesDebts == ProcessSpec => []CleanExitKeepsDebts
<1>1. ShutdownInv => CleanExitKeepsDebts
  BY DEF ShutdownInv, CleanExitKeepsDebts, EndsWell, FlushLast
<1> QED
  BY <1>1, ShutdownSafe, PTL

\* When the database is closed nothing is at work, or can start, but the parts
\* named in NotDrained: the requirement of closeApplicationResources, with its
\* exceptions.
THEOREM ResourcesClosedLast == ProcessSpec => []ResourcesClosedQuiet
<1>1. ShutdownInv => ResourcesClosedQuiet
  <2>1. ASSUME ShutdownInv, db = "closed" PROVE AllQuiet
    <3>1. Process /\ LInv /\ stage \in {"handoff", "exited"}
      BY <2>1 DEF ShutdownInv, Process, EndsWell
    <3>2. CASE stage = "handoff"
      BY <3>1, <3>2, QuietAtEnd
    <3>3. CASE stage = "exited"
      BY <2>1, <3>3 DEF ShutdownInv, EndsWell
    <3> QED
      BY <3>1, <3>2, <3>3
  <2> QED
    <3>1. ASSUME ShutdownInv, db = "closed", NEW part \in Parts, Busy(part) PROVE part \in NotDrained
      <4>1. AllQuiet /\ outside \subseteq Strays
        BY <2>1, <3>1 DEF ShutdownInv, PartsType
      <4> QED
        BY <3>1, <4>1 DEF AllQuiet, Busy, Parts, NotDrained
    <3> QED
      BY <3>1 DEF ResourcesClosedQuiet
<1> QED
  BY <1>1, ShutdownSafe, PTL

\* No request stays or becomes an uncanceled stream behind CancelLongLived.
THEOREM CancelReachesAll == ProcessSpec => []CancelMissesNoStream
<1>1. ProcessInit => CancelMissesNoStream
  BY DEF ProcessInit, CancelMissesNoStream
<1>2. ProcessTypeOK /\ CancelMissesNoStream /\ [ProcessNext]_processVars => CancelMissesNoStream'
  <2> SUFFICES ASSUME ProcessTypeOK, CancelMissesNoStream, [ProcessNext]_processVars
               PROVE  CancelMissesNoStream'
    OBVIOUS
  <2>0. HTTPType
    BY DEF ProcessTypeOK
  <2>1. ASSUME UNCHANGED <<longLived, req>> PROVE CancelMissesNoStream'
    BY <2>1 DEF CancelMissesNoStream
  <2>2. ASSUME NEW r \in Reqs, Arrive(r) \/ MarkStream(r) \/ Leave(r) PROVE CancelMissesNoStream'
    <3>1. longLived' = longLived /\ \A x \in Reqs \ {r} : req'[x] = req[x]
      BY <2>0, <2>2 DEF Arrive, MarkStream, Leave, HTTPType
    <3>2. longLived = "canceled" => req'[r] # "stream"
      BY <2>0, <2>2 DEF Arrive, MarkStream, Leave, HTTPType
    <3> QED
      BY <3>1, <3>2 DEF CancelMissesNoStream
  <2>3. ASSUME NEW r \in Reqs, Capture(r) \/ RatioFetch(r) \/ \E i \in Ids : HandlerRefund(r, i)
        PROVE CancelMissesNoStream'
    BY <2>1, <2>3 DEF Capture, RatioFetch, HandlerRefund, http
  <2>4. CASE OwnWork
    BY <2>1, <2>4 DEF OwnWork, AddDebt, BillingWork, WriteDebts, FlushReward, SubmitTask, TaskEnds,
                      ServiceStops, SpoolCapture, SweepBegins, StrayEnds, http
  <2>5. CASE GraceExpires
    BY <2>0, <2>5 DEF GraceExpires, CancelMissesNoStream, HTTPType
  <2>6. CASE Signal \/ HTTPDrained \/ ForceExpires \/ BeginBillingDrain \/ StepCall \/ StepDone
    BY <2>1, <2>6 DEF Signal, HTTPDrained, ForceExpires, BeginBillingDrain, StepCall, StepDone, http
  <2>7. CASE StepFails \/ WorkExpires \/ Decide \/ CloseResources \/ HandoffDone
    BY <2>1, <2>7 DEF StepFails, WorkExpires, Decide, CloseResources, HandoffDone, http
  <2>8. CASE UNCHANGED processVars
    BY <2>1, <2>8 DEF processVars, http
  <2> QED
    BY <2>2, <2>3, <2>4, <2>5, <2>6, <2>7, <2>8 DEF ProcessNext, Handlers, Shutdown
<1> QED
  BY <1>1, <1>2, ShutdownTypes, PTL DEF ProcessSpec
=============================================================================
