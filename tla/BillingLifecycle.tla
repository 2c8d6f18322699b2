-------------------------- MODULE BillingLifecycle --------------------------
(***************************************************************************)
(* The billing coordinator (pkg/billinglifecycle/coordinator.go): tickets  *)
(* of root and child work, long-lived producers, and the drain that lets   *)
(* running work finish while it admits no new roots.  Every method is one  *)
(* critical section of the coordinator's mutex, except the exit of a       *)
(* producer, which takes two, and the waits, which poll.                   *)
(***************************************************************************)
EXTENDS Integers, FiniteSets

CONSTANTS
  MaxTickets,  \* bound: tickets handed out
  Names        \* producer names

ASSUME LifecycleConstants == MaxTickets \in Nat

Ids == 1 .. MaxTickets
NoTicket == 0

VARIABLES
  admission,   \* "open"; "draining" (rootAdmissionOpen false, draining true);
               \* "closed" (closed true, sentinel released)
  producerAdmission,   \* "open" or "closed"
  active,      \* the counter the waits look at
  tickets,     \* "unused", "reserved", "running", "released" (map entry gone)
  kind,        \* "none", "root", "child", "sentinel"
  producers,   \* name -> ticket of the goroutine whose entry it is, or NoTicket
  goroutine,   \* per ticket: producer goroutine "none", "running",
               \* "canceled", "leaving" (ticket released, entry not deleted)
  names,       \* per ticket: name of its producer goroutine
  stopWait,    \* StopProducers: "no", "waiting", "returned"
  origin,      \* history: the root or sentinel a ticket descends from
  quiet        \* history: "yes" once WaitOnly has returned

coord == <<admission, producerAdmission, active, tickets, kind>>
prods == <<producers, goroutine, names, stopWait>>
vars == <<coord, prods, origin, quiet>>

Live(i) == tickets[i] \in {"reserved", "running"}
LiveTickets == {i \in Ids : Live(i)}
Sentinels == {i \in Ids : kind[i] = "sentinel"}

Init ==
  /\ admission = "open" /\ producerAdmission = "open" /\ active = 0
  /\ tickets = [i \in Ids |-> "unused"] /\ kind = [i \in Ids |-> "none"]
  /\ producers = [p \in Names |-> NoTicket]
  /\ goroutine = [i \in Ids |-> "none"] /\ names = [i \in Ids |-> NoTicket]
  /\ stopWait = "no"
  /\ origin = [i \in Ids |-> NoTicket] /\ quiet = "no"

\* reserveTicketLocked: the next id is taken.
ReserveTicket(i, k, from, status) ==
  /\ tickets[i] = "unused" /\ \A j \in 1 .. (i - 1) : tickets[j] # "unused"
  /\ tickets' = [tickets EXCEPT ![i] = status]
  /\ kind' = [kind EXCEPT ![i] = k]
  /\ active' = active + 1
  /\ origin' = [origin EXCEPT ![i] = from]

\* Mutant: closed is not looked at.
ReserveRootAfterClose(i) ==
  /\ admission # "draining"
  /\ ReserveTicket(i, "root", i, "reserved")
  /\ UNCHANGED <<admission, producerAdmission, prods, quiet>>

\* Externally initiated work, only before the drain.
ReserveRoot(i) ==
  /\ admission = "open"
  /\ ReserveTicket(i, "root", i, "reserved")
  /\ UNCHANGED <<admission, producerAdmission, prods, quiet>>

\* Mutant: a child may be reserved through a ticket that has been released.
ReserveChildOfAny(p, i) ==
  /\ tickets[p] # "unused" /\ admission # "closed"
  /\ ReserveTicket(i, "child", origin[p], "reserved")
  /\ UNCHANGED <<admission, producerAdmission, prods, quiet>>

\* The parent's ticket is still registered; draining does not matter.
ReserveChild(p, i) ==
  /\ Live(p) /\ admission # "closed"
  /\ ReserveTicket(i, "child", origin[p], "reserved")
  /\ UNCHANGED <<admission, producerAdmission, prods, quiet>>

\* The job of a reserved ticket is started.
Submit(i) ==
  /\ tickets[i] = "reserved" /\ kind[i] # "sentinel"
  /\ tickets' = [tickets EXCEPT ![i] = "running"]
  /\ UNCHANGED <<admission, producerAdmission, active, kind, prods, origin, quiet>>

\* release: by the holder of a reserved ticket, or by the runner at the end of
\* the job, panic included.  A producer's ticket is released by its goroutine.
Release(i) ==
  /\ Live(i) /\ kind[i] # "sentinel" /\ goroutine[i] = "none"
  /\ tickets' = [tickets EXCEPT ![i] = "released"]
  /\ active' = active - 1
  /\ UNCHANGED <<admission, producerAdmission, kind, prods, origin, quiet>>

\* Mutant: a producer is started although the name is taken.
StartProducerAgain(p, i) ==
  /\ producerAdmission = "open" /\ admission = "open"
  /\ ReserveTicket(i, "root", i, "running")
  /\ producers' = [producers EXCEPT ![p] = i]
  /\ goroutine' = [goroutine EXCEPT ![i] = "running"]
  /\ names' = [names EXCEPT ![i] = p]
  /\ UNCHANGED <<admission, producerAdmission, stopWait, quiet>>

\* A root ticket and the name are registered before the goroutine starts.
StartProducer(p, i) ==
  /\ producerAdmission = "open" /\ admission = "open"
  /\ producers[p] = NoTicket
  /\ ReserveTicket(i, "root", i, "running")
  /\ producers' = [producers EXCEPT ![p] = i]
  /\ goroutine' = [goroutine EXCEPT ![i] = "running"]
  /\ names' = [names EXCEPT ![i] = p]
  /\ UNCHANGED <<admission, producerAdmission, stopWait, quiet>>

\* The producer function returns, canceled or not, and its ticket is released,
ProducerReturns(i) ==
  /\ goroutine[i] \in {"running", "canceled"}
  /\ tickets' = [tickets EXCEPT ![i] = "released"]
  /\ active' = active - 1
  /\ goroutine' = [goroutine EXCEPT ![i] = "leaving"]
  /\ UNCHANGED <<admission, producerAdmission, kind, producers, names, stopWait, origin, quiet>>

\* then, in a critical section of its own, its entry is deleted by name.
ProducerForgets(i) ==
  /\ goroutine[i] = "leaving"
  /\ producers' = [producers EXCEPT ![names[i]] = NoTicket]
  /\ goroutine' = [goroutine EXCEPT ![i] = "none"]
  /\ UNCHANGED <<coord, names, stopWait, origin, quiet>>

\* Mutant: the producers are not canceled.
StopProducersWaitsOnly ==
  /\ stopWait = "no"
  /\ producerAdmission' = "closed" /\ stopWait' = "waiting"
  /\ UNCHANGED <<admission, active, tickets, kind, producers, goroutine, names, origin, quiet>>

\* StopProducers closes producer admission and cancels the registered ones.
StopProducers ==
  /\ stopWait = "no"
  /\ producerAdmission' = "closed"
  /\ goroutine' = [i \in Ids |->
       IF goroutine[i] = "running" /\ \E p \in Names : producers[p] = i
       THEN "canceled" ELSE goroutine[i]]
  /\ stopWait' = "waiting"
  /\ UNCHANGED <<admission, active, tickets, kind, producers, names, origin, quiet>>

\* Its wait ends when the map is empty.
StopProducersReturns ==
  /\ stopWait = "waiting" /\ \A p \in Names : producers[p] = NoTicket
  /\ stopWait' = "returned"
  /\ UNCHANGED <<coord, producers, goroutine, names, origin, quiet>>

\* Root admission ends and the sentinel is registered.
BeginDrain(i) ==
  /\ admission = "open"
  /\ ReserveTicket(i, "sentinel", i, "reserved")
  /\ admission' = "draining"
  /\ UNCHANGED <<producerAdmission, prods, quiet>>

\* WaitOnly sees active = 1.
WaitOnly ==
  /\ admission = "draining" /\ active = 1 /\ quiet = "no"
  /\ quiet' = "yes"
  /\ UNCHANGED <<coord, prods, origin>>

\* Mutant: admission is closed without looking at the work that is left.
CloseAdmissionAtOnce ==
  /\ admission = "draining"
  /\ admission' = "closed"
  /\ tickets' = [i \in Ids |-> IF kind[i] = "sentinel" THEN "released" ELSE tickets[i]]
  /\ active' = 0
  /\ UNCHANGED <<producerAdmission, kind, prods, origin, quiet>>

\* CloseAdmissionAndWait sees active = 1, closes child admission and releases
\* the sentinel in one critical section.
CloseAdmission ==
  /\ admission = "draining" /\ active = 1
  /\ admission' = "closed"
  /\ tickets' = [i \in Ids |-> IF kind[i] = "sentinel" THEN "released" ELSE tickets[i]]
  /\ active' = 0
  /\ UNCHANGED <<producerAdmission, kind, prods, origin, quiet>>

-----------------------------------------------------------------------------
Work(i) ==
  \/ ReserveRoot(i) \/ Submit(i) \/ Release(i)
  \/ \E p \in Ids : ReserveChild(p, i)
  \/ \E n \in Names : StartProducer(n, i)
  \/ ProducerReturns(i) \/ ProducerForgets(i)

Drain ==
  \/ \E i \in Ids : BeginDrain(i)
  \/ StopProducers \/ StopProducersReturns \/ WaitOnly \/ CloseAdmission

Next == (\E i \in Ids : Work(i)) \/ Drain

Spec == Init /\ [][Next]_vars

\* Fairness: a drain that has begun stops the producers and closes; a job
\* ends and a reserved ticket is submitted or released; a canceled producer
\* returns from its round.
FairSpec ==
  /\ Spec
  /\ WF_vars(admission # "open" /\ StopProducers) /\ WF_vars(CloseAdmission)
  /\ \A i \in Ids :
       /\ WF_vars(Release(i)) /\ WF_vars(goroutine[i] = "canceled" /\ ProducerReturns(i))
       /\ WF_vars(ProducerForgets(i))

-----------------------------------------------------------------------------
CoordType == /\ admission \in {"open", "draining", "closed"}
             /\ producerAdmission \in {"open", "closed"} /\ active \in Nat
             /\ tickets \in [Ids -> {"unused", "reserved", "running", "released"}]
             /\ kind \in [Ids -> {"none", "root", "child", "sentinel"}]
ProducerType == /\ producers \in [Names -> Ids \cup {NoTicket}]
                /\ goroutine \in [Ids -> {"none", "running", "canceled", "leaving"}]
                /\ names \in [Ids -> Names \cup {NoTicket}]
                /\ stopWait \in {"no", "waiting", "returned"}
HistoryType == /\ origin \in [Ids -> Ids \cup {NoTicket}] /\ quiet \in {"no", "yes"}

\* The type of every variable; active is never negative.
TypeOK == CoordType /\ ProducerType /\ HistoryType

\* The counter the waits rely on is the number of registered tickets, although
\* five places change it and one of them sets it to zero.
ActiveCounts == active = Cardinality(LiveTickets)

\* Once WaitOnly has returned, everything that is still or newly at work
\* descends from the drain sentinel, so only the final flush can have started
\* it.
OnlySentinelWork ==
  quiet = "yes" => \A i \in LiveTickets : origin[i] \in Sentinels

\* A closed coordinator has no registered work and no running job, for good.
ClosedIsIdle == admission = "closed" => LiveTickets = {}

\* When StopProducers has returned, no producer goroutine is left, and none
\* starts again: an entry is never deleted on behalf of another goroutine.
ProducersStayStopped == stopWait = "returned" => \A i \in Ids : goroutine[i] = "none"

\* A drain completes: whatever was registered before it, and every child it
\* derives, ends.
DrainCompletes == admission = "draining" ~> admission = "closed"

=============================================================================
