-------------------------- MODULE GracefulShutdown --------------------------
(***************************************************************************)
(* Shutdown of a gateway process (graceful_shutdown.go, main.go) composed  *)
(* with what it drains: HTTP handlers (pkg/httplifecycle/manager.go), the  *)
(* billing coordinator, the batch updater seen through its stop state and  *)
(* its unwritten debts, the sensitive dump cleaner and audit pipeline,     *)
(* background tasks (pkg/backgroundtask/group.go) and the queue of         *)
(* content-backup captures; and with the goroutines it does not know of:   *)
(* the wallet sweeper and the ratio fetch an administrator asks for.       *)
(*                                                                         *)
(* The coordinator is module BillingLifecycle, whose variables and actions *)
(* the process shares.  Init, Next and Spec are the coordinator's; those of *)
(* the process are ProcessInit, ProcessNext and ProcessSpec.               *)
(***************************************************************************)
EXTENDS BillingLifecycle

CONSTANTS
  Reqs,                   \* HTTP requests
  MaxDebts, MaxTasks,     \* bounds: debts admitted or refused, finite tasks
  MaxDetached             \* bound: captures queued and stray goroutines at work

ASSUME ShutdownConstants ==
  /\ MaxDebts \in Nat /\ MaxTasks \in Nat /\ MaxDetached \in Nat

VARIABLES
  \* the shutting-down main goroutine
  stage,       \* where it is: see Stages
  called,      \* "no" or "yes": the hook of this stage has been called
  workCtx,     \* "live" or "expired"
  failed,      \* workDrainFailed: "no" or "yes"
  exit,        \* "none", "clean", "failed"
  \* HTTP
  ready, longLived,    \* "yes" or "no"; "open" or "canceled"
  req,         \* "new", "plain", "stream", "canceled", "done", "refused"
  \* the other parts
  updater,     \* "running", "stopping", "stopped"
  debts,       \* deltas admitted and not yet written
  refused,     \* history: deltas offered to an updater that no longer admits
  group,       \* task admission: "open", "stopping", "closed"
  periodic,    \* a periodic producer of the group: "running", "canceled", "gone"
  tasks,       \* its finite tasks
  services,    \* dump cleaner and audit: "running", "stopping", "stopped"
  captures,    \* content-backup captures queued
  outside,     \* goroutines at work that belong to nobody: see Strays
  db           \* "open" or "closed"

\* The variables of the coordinator and of the parts of the process.
billing == <<admission, producerAdmission, active, tickets, kind,
             producers, goroutine, names, stopWait, origin, quiet>>
main  == <<stage, called, workCtx, failed, exit>>
http  == <<ready, longLived, req>>
batch == <<updater, debts, refused>>
tasking == <<group, periodic, tasks>>
others  == <<services, captures, outside, db>>
processVars == <<billing, main, http, batch, tasking, others>>

\* workSteps of runGracefulShutdown, in order, between the drain of HTTP and
\* the closing of resources.
NextStage(s) ==
  CASE s = "producers"  -> "roots"
    [] s = "roots"      -> "flush"
    [] s = "flush"      -> "admission"
    [] s = "admission"  -> "cleaner"
    [] s = "cleaner"    -> "audit"
    [] s = "audit"      -> "background"
    [] s = "background" -> "decide"

\* A round of the wallet sweeper, a bare "go func" that is never stopped, and
\* the detached fetch of RunChannelRatioMonitorNow.
Strays == {"sweep", "ratio"}

WorkStages == {"producers", "roots", "flush", "admission", "cleaner", "audit", "background"}
Stages == WorkStages \cup
  {"serving", "grace", "force", "drain", "decide", "resources", "handoff", "exited"}

Alive == stage # "exited"
Handling(r) == req[r] \in {"plain", "stream", "canceled"}
HTTPIdle == \A r \in Reqs : ~Handling(r)

\* A bound of the model: the last id is kept for the sentinel.
Spare == Cardinality({i \in Ids : tickets[i] = "unused"}) > 1 \/ admission # "open"

ProcessInit ==
  /\ Init
  /\ stage = "serving" /\ called = "no" /\ workCtx = "live" /\ failed = "no" /\ exit = "none"
  /\ ready = "yes" /\ longLived = "open" /\ req = [r \in Reqs |-> "new"]
  /\ updater = "running" /\ debts = 0 /\ refused = 0
  /\ group = "open" /\ periodic = "running" /\ tasks = 0
  /\ services = [s \in {"cleaner", "audit"} |-> "running"]
  /\ captures = 0 /\ outside = {} /\ db = "open"

-----------------------------------------------------------------------------
(* HTTP handlers. *)

\* The middleware registers a request or answers 503.
Arrive(r) ==
  /\ Alive /\ req[r] = "new"
  /\ req' = [req EXCEPT ![r] = IF ready = "yes" THEN "plain" ELSE "refused"]
  /\ UNCHANGED <<billing, main, ready, longLived, batch, tasking, others>>

\* Mutant: only the streams CancelLongLived finds are canceled.
MarkStreamLate(r) ==
  /\ Alive /\ req[r] = "plain"
  /\ req' = [req EXCEPT ![r] = "stream"]
  /\ UNCHANGED <<billing, main, ready, longLived, batch, tasking, others>>

\* markStream, registerHijacked: a request that turns long-lived after
\* CancelLongLived is canceled at once.
MarkStream(r) ==
  /\ Alive /\ req[r] = "plain"
  /\ req' = [req EXCEPT ![r] = IF longLived = "open" THEN "stream" ELSE "canceled"]
  /\ UNCHANGED <<billing, main, ready, longLived, batch, tasking, others>>

Leave(r) ==
  /\ Alive /\ Handling(r)
  /\ req' = [req EXCEPT ![r] = "done"]
  /\ UNCHANGED <<billing, main, ready, longLived, batch, tasking, others>>

\* A handler that fails hands its refund to the coordinator.
HandlerRefund(r, i) ==
  /\ Alive /\ Handling(r) /\ Spare
  /\ ReserveRoot(i)
  /\ UNCHANGED <<main, http, batch, tasking, others>>

\* A handler or a billing job offers a delta to the updater; the rewards of
\* the final flush, the only jobs under the sentinel, do not.
AddDebt ==
  /\ Alive /\ debts + refused < MaxDebts
  /\ ~HTTPIdle \/ \E i \in LiveTickets : origin[i] \notin Sentinels
  /\ IF updater = "running"
     THEN debts' = debts + 1 /\ UNCHANGED refused
     ELSE refused' = refused + 1 /\ UNCHANGED debts
  /\ UNCHANGED <<billing, main, http, updater, tasking, others>>

\* A handler hands a capture to the content-backup queue.
Capture(r) ==
  /\ Alive /\ Handling(r) /\ captures + Cardinality(outside) < MaxDetached
  /\ captures' = captures + 1
  /\ UNCHANGED <<billing, main, http, batch, tasking, services, outside, db>>

\* RunChannelRatioMonitorNow starts a fetch and answers.
RatioFetch(r) ==
  /\ Alive /\ Handling(r) /\ captures + Cardinality(outside) < MaxDetached
  /\ outside' = outside \cup {"ratio"}
  /\ UNCHANGED <<billing, main, http, batch, tasking, services, captures, db>>

-----------------------------------------------------------------------------
(* Work that runs on its own. *)

\* The ticker of StartWalletReservationSweeper fires as long as there is a
\* process.
SweepBegins ==
  /\ Alive /\ captures + Cardinality(outside) < MaxDetached
  /\ outside' = outside \cup {"sweep"}
  /\ UNCHANGED <<billing, main, http, batch, tasking, services, captures, db>>

StrayEnds(x) ==
  /\ Alive /\ x \in outside
  /\ outside' = outside \ {x}
  /\ UNCHANGED <<billing, main, http, batch, tasking, services, captures, db>>

BillingWork ==
  /\ Alive
  /\ \/ \E i \in Ids : Submit(i) \/ Release(i) \/ ProducerReturns(i)
                        \/ ProducerForgets(i)
     \/ Spare /\ \E i, p \in Ids : kind[p] # "sentinel" /\ ReserveChild(p, i)
     \/ Spare /\ stage = "serving" /\ \E i \in Ids, n \in Names : StartProducer(n, i)
  /\ UNCHANGED <<main, http, batch, tasking, others>>

\* The worker of the updater writes what is pending ...
WriteDebts ==
  /\ Alive /\ updater # "stopped" /\ debts > 0
  /\ debts' = 0
  /\ UNCHANGED <<billing, main, http, updater, refused, tasking, others>>

\* ... and a flush reserves the inviter's reward: under the sentinel that
\* StopAndFlush carries, otherwise as a root.
FlushReward(i) ==
  /\ Alive /\ updater # "stopped" /\ debts > 0 /\ Spare
  /\ \/ ReserveRoot(i)
     \/ stage = "flush" /\ called = "yes" /\ \E p \in Ids :
          kind[p] = "sentinel" /\ ReserveChild(p, i)
  /\ UNCHANGED <<main, http, batch, tasking, others>>

\* Submit of the group, by a handler, by the periodic producer or by a task.
SubmitTask ==
  /\ Alive /\ group # "closed" /\ tasks < MaxTasks
  /\ ~HTTPIdle \/ periodic # "gone" \/ tasks > 0
  /\ tasks' = tasks + 1
  /\ UNCHANGED <<billing, main, http, batch, group, periodic, others>>

\* A task or the producer ends; the last one to leave a stopping group shuts
\* the door.
TaskEnds ==
  /\ Alive
  /\ \/ tasks > 0 /\ tasks' = tasks - 1 /\ UNCHANGED periodic
     \/ periodic # "gone" /\ periodic' = "gone" /\ UNCHANGED tasks
  /\ group' = IF group = "stopping" /\ tasks' = 0 /\ periodic' = "gone" THEN "closed" ELSE group
  /\ UNCHANGED <<billing, main, http, batch, others>>

ServiceStops(s) ==
  /\ Alive /\ services[s] = "stopping"
  /\ services' = [services EXCEPT ![s] = "stopped"]
  /\ UNCHANGED <<billing, main, http, batch, tasking, captures, outside, db>>

SpoolCapture ==
  /\ Alive /\ captures > 0
  /\ captures' = captures - 1
  /\ UNCHANGED <<billing, main, http, batch, tasking, services, outside, db>>

-----------------------------------------------------------------------------
(* The main goroutine. *)

Exit(result) ==
  /\ stage' = "exited" /\ exit' = result
  /\ UNCHANGED <<called, workCtx, failed>>

\* A signal, or the server stops by itself: drainHTTP begins.
Signal ==
  /\ stage = "serving"
  /\ stage' = "grace" /\ ready' = "no"
  /\ UNCHANGED <<billing, called, workCtx, failed, exit, longLived, req, batch, tasking, others>>

\* Shutdown and WaitIdle return in time, in the grace or in the force window.
HTTPDrained ==
  /\ stage \in {"grace", "force"} /\ HTTPIdle
  /\ stage' = "drain"
  /\ UNCHANGED <<billing, called, workCtx, failed, exit, http, batch, tasking, others>>

\* The grace window is over, or Shutdown of the server fails though no handler
\* is left: CancelLongLived and Close.
GraceExpires ==
  /\ stage = "grace"
  /\ stage' = "force" /\ longLived' = "canceled"
  /\ req' = [r \in Reqs |-> IF req[r] = "stream" THEN "canceled" ELSE req[r]]
  /\ UNCHANGED <<billing, called, workCtx, failed, exit, ready, batch, tasking, others>>

\* Mutant: handlers that do not end are ignored.
ForceExpiresGoesOn ==
  /\ stage = "force" /\ ~HTTPIdle
  /\ stage' = "drain"
  /\ UNCHANGED <<billing, called, workCtx, failed, exit, http, batch, tasking, others>>

\* errHTTPDrainIncomplete: nothing else is drained or closed.
ForceExpires ==
  /\ stage = "force" /\ ~HTTPIdle
  /\ Exit("failed")
  /\ UNCHANGED <<billing, http, batch, tasking, others>>

BeginBillingDrain ==
  /\ stage = "drain"
  /\ \E i \in Ids : BeginDrain(i)
  /\ stage' = "producers"
  /\ UNCHANGED <<called, workCtx, failed, exit, http, batch, tasking, others>>

\* The hook of a work step is called: what it does before it waits.
StepCall ==
  /\ stage \in WorkStages /\ called = "no"
  /\ called' = "yes"
  /\ IF stage = "producers" THEN StopProducers ELSE UNCHANGED billing
  /\ updater' = IF stage = "flush" THEN "stopping" ELSE updater
  /\ services' = IF stage \in {"cleaner", "audit"}
                 THEN [services EXCEPT ![stage] = "stopping"] ELSE services
  /\ periodic' = IF stage = "background" /\ periodic = "running" THEN "canceled" ELSE periodic
  /\ group' = IF stage = "background"
              THEN IF periodic = "gone" /\ tasks = 0 THEN "closed" ELSE "stopping"
              ELSE group
  /\ UNCHANGED <<stage, workCtx, failed, exit, http, debts, refused, tasks, captures,
                 outside, db>>

\* Its wait ends well.
StepDone ==
  /\ stage \in WorkStages /\ called = "yes"
  /\ \/ stage = "producers" /\ StopProducersReturns /\ UNCHANGED updater
     \/ stage = "roots" /\ WaitOnly /\ UNCHANGED updater
     \/ stage = "flush" /\ debts = 0 /\ updater' = "stopped" /\ UNCHANGED billing
     \/ stage = "admission" /\ CloseAdmission /\ UNCHANGED updater
     \/ /\ stage \in {"cleaner", "audit"} /\ services[stage] = "stopped"
        /\ UNCHANGED <<billing, updater>>
     \/ stage = "background" /\ group = "closed" /\ UNCHANGED <<billing, updater>>
  /\ stage' = NextStage(stage) /\ called' = "no"
  /\ UNCHANGED <<workCtx, failed, exit, http, debts, refused, tasking, others>>

\* Mutant: the wait of a step does not look at the context.
StepIgnoresContext ==
  /\ stage = "audit" /\ called = "yes" /\ services["audit"] = "stopped"
  /\ stage' = NextStage(stage) /\ called' = "no" /\ failed' = "yes"
  /\ UNCHANGED <<billing, workCtx, exit, http, batch, tasking, others>>

\* It ends with an error: the context has expired, or the audit reports jobs
\* that failed.  The remaining steps are called all the same.
StepFails ==
  /\ stage \in WorkStages /\ called = "yes"
  /\ workCtx = "expired" \/ (stage = "audit" /\ services["audit"] = "stopped")
  /\ stage' = NextStage(stage) /\ called' = "no" /\ failed' = "yes"
  /\ UNCHANGED <<billing, workCtx, exit, http, batch, tasking, others>>

WorkExpires ==
  /\ stage \in WorkStages /\ workCtx = "live"
  /\ workCtx' = "expired"
  /\ UNCHANGED <<billing, stage, called, failed, exit, http, batch, tasking, others>>

\* Mutant: a failed step does not keep the resources open.
DecideAlwaysCloses ==
  /\ stage = "decide"
  /\ stage' = "resources"
  /\ UNCHANGED <<billing, called, workCtx, failed, exit, http, batch, tasking, others>>

\* Resources are closed only if the context lives and no step failed.
Decide ==
  /\ stage = "decide"
  /\ IF workCtx = "expired" \/ failed = "yes"
     THEN Exit("failed")
     ELSE stage' = "resources" /\ UNCHANGED <<called, workCtx, failed, exit>>
  /\ UNCHANGED <<billing, http, batch, tasking, others>>

\* closeResources returns, or the resource timeout is over (the process ends
\* before or after the database is closed).
CloseResources ==
  /\ stage = "resources"
  /\ \/ /\ db' = "closed" /\ stage' = "handoff"
        /\ UNCHANGED <<called, workCtx, failed, exit>>
     \/ db' \in {"open", "closed"} /\ Exit("failed")
  /\ UNCHANGED <<billing, http, batch, tasking, services, captures, outside>>

\* service.Shutdown(context.Background()): the queue of captures is drained.
HandoffDone ==
  /\ stage = "handoff" /\ captures = 0
  /\ Exit("clean")
  /\ UNCHANGED <<billing, http, batch, tasking, others>>

-----------------------------------------------------------------------------
Handlers == \E r \in Reqs :
  \/ Arrive(r) \/ MarkStream(r) \/ Leave(r) \/ Capture(r) \/ RatioFetch(r)
  \/ \E i \in Ids : HandlerRefund(r, i)

OwnWork ==
  \/ AddDebt \/ BillingWork \/ WriteDebts \/ \E i \in Ids : FlushReward(i)
  \/ SubmitTask \/ TaskEnds \/ \E s \in {"cleaner", "audit"} : ServiceStops(s)
  \/ SpoolCapture \/ SweepBegins \/ \E x \in Strays : StrayEnds(x)

\* The shutdown's own steps, the expiry of its timers included.
Shutdown ==
  \/ HTTPDrained \/ GraceExpires \/ ForceExpires
  \/ BeginBillingDrain \/ StepCall \/ StepDone \/ StepFails \/ WorkExpires
  \/ Decide \/ CloseResources \/ HandoffDone

ProcessNext == Handlers \/ OwnWork \/ Signal \/ Shutdown

ProcessSpec == ProcessInit /\ [][ProcessNext]_processVars

\* Fairness for the shutdown alone: its goroutine runs and its timers fire.
\* Handlers, jobs, tasks, services and the spool may hang for ever.
FairProcess == ProcessSpec /\ WF_processVars(Shutdown)

-----------------------------------------------------------------------------
MainType == /\ stage \in Stages /\ called \in {"no", "yes"} /\ workCtx \in {"live", "expired"}
            /\ failed \in {"no", "yes"} /\ exit \in {"none", "clean", "failed"}
HTTPType == /\ ready \in {"yes", "no"} /\ longLived \in {"open", "canceled"}
            /\ req \in [Reqs -> {"new", "plain", "stream", "canceled", "done", "refused"}]
PartsType == /\ updater \in {"running", "stopping", "stopped"}
             /\ debts \in Nat /\ refused \in Nat /\ tasks \in Nat /\ captures \in Nat
             /\ group \in {"open", "stopping", "closed"}
             /\ periodic \in {"running", "canceled", "gone"}
             /\ services \in [{"cleaner", "audit"} -> {"running", "stopping", "stopped"}]
             /\ outside \subseteq Strays /\ db \in {"open", "closed"}

\* The type of every variable.
ProcessTypeOK == TypeOK /\ MainType /\ HTTPType /\ PartsType

\* What a part of the process still does, or could still begin to do.
Busy(part) ==
  \/ part = "http" /\ (~HTTPIdle \/ ready = "yes")
  \/ part = "billing" /\ (LiveTickets # {} \/ admission # "closed")
  \/ part = "updater" /\ (updater # "stopped" \/ debts > 0)
  \/ part = "tasks" /\ (periodic # "gone" \/ tasks > 0 \/ group # "closed")
  \/ part = "backup" /\ captures > 0
  \/ part \in {"cleaner", "audit"} /\ services[part] # "stopped"
  \/ part \in outside

Parts == {"http", "billing", "updater", "tasks", "backup", "cleaner", "audit"} \cup Strays

\* The parts that are at work behind the drain: the strays, and the content
\* backup, which main stops after the resources are closed.
NotDrained == Strays \cup {"backup"}

\* The database is closed only when handlers, billing, updater, background
\* tasks, dump cleaner and audit are done and nothing of them can start again.
\* closeApplicationResources requires it of all detached work and of all
\* periodic producers; what does not meet that requirement is in NotDrained.
ResourcesClosedQuiet ==
  db = "closed" => \A part \in Parts : Busy(part) => part \in NotDrained

\* CancelLongLived reaches every long-lived request, the ones that become
\* long-lived while it runs or later included: a stream that was missed would
\* never learn of the shutdown and hold up the drain until the force window is
\* over (manager.go: markStream and registerHijacked look at the flag).
CancelMissesNoStream == longLived = "canceled" => \A r \in Reqs : req[r] # "stream"

\* A shutdown that ends well has written every delta anybody offered: none is
\* left in memory, and none was turned away by an updater stopped too early.
CleanExitKeepsDebts == exit = "clean" => debts = 0 /\ refused = 0

\* When every step so far went well and the final flush has stopped the
\* updater, nobody is left who could offer it another delta.
NobodyBehindFlush ==
  updater = "stopped" /\ failed = "no" =>
    HTTPIdle /\ \A i \in LiveTickets : origin[i] \in Sentinels

\* After a signal the shutdown gets through all its steps, or gives up, however
\* handlers, jobs, tasks and services hang: every wait of runGracefulShutdown
\* has a deadline.
DrainIsBounded == stage = "grace" ~> stage \in {"handoff", "exited"}

=============================================================================
