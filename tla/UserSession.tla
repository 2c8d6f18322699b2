---------------------------- MODULE UserSession ----------------------------
(***************************************************************************)
(* A dashboard login session: its row in the database, its entry in the    *)
(* Redis cache, and the operations of model/user_session_runtime.go and    *)
(* service/auth_session.go that run on them concurrently, each database    *)
(* or Redis call being one step.                                           *)
(*                                                                         *)
(* Secrets are numbers: deriveNextRefreshSecret is a function of the       *)
(* session and the presented secret, so the successor of secret k is k+1;  *)
(* 0 is an empty digest in the row and an unknown secret when presented.   *)
(* The row's Version is never changed by the code after it is set to 1, so *)
(* the version test of the cache script never refuses and is left out.     *)
(***************************************************************************)
EXTENDS Naturals, FiniteSetsExt

CONSTANTS Procs,       \* request handlers
          Nobody,      \* not a handler
          TTL,         \* userCacheTTLSeconds
          Grace,       \* RefreshReplayWindow
          SessionTTL,  \* LoginSessionTTL
          MaxTries,    \* attempts of RotateUserSessionRefresh
          MaxSecret,   \* bound: rotations explored
          MaxFaults,   \* bound: Redis failures explored
          MaxClock     \* bound: time explored

ASSUME SessionAssumption ==
    /\ Nobody \notin Procs
    /\ TTL \in Nat \ {0} /\ Grace \in Nat /\ SessionTTL \in Nat \ {0}
    /\ MaxTries \in Nat \ {0} /\ MaxSecret \in Nat \ {0}
    /\ MaxFaults \in Nat /\ MaxClock \in Nat

VARIABLES
    clock,       \* wall clock, shared by the servers and Redis
    row,         \* the user_sessions row
    cache,       \* the Redis hash of the session and its expiry
    lock,        \* the handler whose transaction holds the row FOR UPDATE
    proc,        \* what every handler is doing
    faults,      \* Redis failures so far
    newest,      \* history: newest refresh secret handed to the client
    revokedAt,   \* history: when the row was revoked
    revokeDone   \* history: a revocation has been reported to its caller

vars == <<clock, row, cache, lock, proc, faults, newest, revokedAt,
          revokeDone>>
history == <<newest, revokedAt, revokeDone>>

Miss == [st |-> "none", exp |-> 0]
Never == MaxClock + TTL + 1

Ops == {"create", "get", "refresh", "logout", "revokeAll"}
Steps == {"idle", "cache", "row", "deny", "put", "confirm", "user", "rotate",
          "cas", "candidate", "fence", "commit", "tomb", "locked"}

\* How late an operation started: after the row was revoked, after that was
\* reported, and a cache lifetime after it.
Lateness == {"no", "committed", "returned", "aged"}

\* A handler between two operations; ok tells whether the last one granted
\* something.
Ended(ok) == [op |-> "get", pc |-> "idle", did |-> FALSE, secret |-> 0,
              dl |-> 0, now |-> 0, tries |-> 0, ok |-> ok, late |-> "no"]
Idle == Ended(FALSE)

TypeOK ==
    /\ clock \in 0..MaxClock
    /\ row \in [st: {"none", "active", "revoked"}, cur: 0..MaxSecret,
                prev: 0..MaxSecret, until: Nat, exp: Nat]
    /\ cache \in [st: {"none", "active", "revoking", "revoked"}, exp: Nat]
    /\ lock \in Procs \cup {Nobody}
    /\ proc \in [Procs -> [op: Ops, pc: Steps, did: BOOLEAN,
                           secret: 0..MaxSecret, dl: Nat, now: Nat,
                           tries: 0..MaxTries, ok: BOOLEAN, late: Lateness]]
    /\ faults \in 0..MaxFaults
    /\ newest \in 0..MaxSecret
    /\ revokedAt \in 0..Never
    /\ revokeDone \in BOOLEAN

Init ==
    /\ clock = 0
    /\ row = [st |-> "none", cur |-> 0, prev |-> 0, until |-> 0, exp |-> 0]
    /\ cache = Miss
    /\ lock = Nobody
    /\ proc = [p \in Procs |-> Idle]
    /\ faults = 0
    /\ newest = 0
    /\ revokedAt = Never
    /\ revokeDone = FALSE

----------------------------------------------------------------------------
(* The row and the cache. *)

\* Status active, not revoked, and not expired at the time t the code uses.
RowActive(t) == row.st = "active" /\ row.exp > t

\* A key set to expire at a time already past is gone.
Store(entry) == cache' = IF entry.exp > clock THEN entry ELSE Miss

\* writeUserSessionCache for a deny state: a lifetime of its own, from now.
DenyEntry(st) ==
    LET left == IF row.exp > clock THEN Min({row.exp - clock, TTL}) ELSE 1
    IN  [st |-> st, exp |-> clock + left]

\* ... for an active snapshot: only what is left of the observation window
\* that was opened before the row was read.
ActiveEntry(dl) == [st |-> "active", exp |-> Min({dl, row.exp})]

\* Mutant: the script writes active snapshots over anything.
ScriptNeverRefuses == FALSE

\* The script refuses an active snapshot over a deny state.
ScriptRefuses == cache.st \in {"revoking", "revoked"}

\* Mutant: the window of a snapshot starts when it is written.
DeadlineRestarted(p) == clock + TTL

\* The end of the observation window captured before the row was read.
Deadline(p) == proc[p].dl

At(p, pc) == proc[p].pc = pc
Become(p, r) == proc' = [proc EXCEPT ![p] = r]
Goto(p, pc) == Become(p, [proc[p] EXCEPT !.pc = pc])
\* The operation ends; it has granted something if it validates or issues.
Return(p, res) == Become(p, Ended(res \in {"valid", "issued"}))

\* A Redis call fails; a write may or may not have been applied.
RedisFault == faults < MaxFaults /\ faults' = faults + 1

----------------------------------------------------------------------------
(* Requests. *)

\* A handler at the first step of an operation.
Started(op, pc, secret, dl, now, late) ==
    [op |-> op, pc |-> pc, did |-> FALSE, secret |-> secret,
     dl |-> dl, now |-> now, tries |-> 0, ok |-> FALSE, late |-> late]

\* How late an operation is that starts now.
Late == IF row.st # "revoked" THEN "no"
        ELSE IF clock >= revokedAt + TTL THEN "aged"
        ELSE IF revokeDone THEN "returned" ELSE "committed"

\* A handler starts one of the operations on the session.
Begin(p, op, secret) ==
    /\ At(p, "idle")
    /\ op \in {"get", "refresh", "logout"} => newest > 0
    /\ op = "revokeAll" => row.st # "none"
    /\ secret < MaxSecret
    /\ secret \in (IF op \in {"refresh", "logout"} THEN 0..newest ELSE {0})
    /\ Become(p, Started(op, CASE op = "logout" -> "locked"
                                [] op = "revokeAll" -> "candidate"
                                [] OTHER -> "cache",
                         secret, 0, IF op \in {"logout", "revokeAll"} THEN clock ELSE 0, Late))
    /\ UNCHANGED <<clock, row, cache, lock, faults, history>>

\* CreateLoginSession inserts the row; its snapshot is then cached.
CreateUserSession(p) ==
    /\ At(p, "idle") /\ row.st = "none"
    /\ row' = [st |-> "active", cur |-> 1, prev |-> 0, until |-> 0,
               exp |-> clock + SessionTTL]
    /\ Become(p, Started("create", "put", 0, clock + TTL, 0, "no"))
    /\ UNCHANGED <<clock, cache, lock, faults, history>>

----------------------------------------------------------------------------
(* GetUserSessionCached, and the cache write every path shares. *)

\* What follows once the session is known to be active.
Proceed(p) ==
    CASE proc[p].op = "get" -> Return(p, "valid") /\ UNCHANGED history
      [] proc[p].op = "refresh" /\ ~proc[p].did ->
            /\ Become(p, [proc[p] EXCEPT !.pc = "user", !.dl = 0])
            /\ UNCHANGED history
      [] OTHER ->   \* issueAuthBundle hands out the successor
            /\ Return(p, "issued")
            /\ newest' = Max({newest, proc[p].secret + 1})
            /\ UNCHANGED <<revokedAt, revokeDone>>

\* getUserSessionCache: a hit decides; a miss or a failure opens the
\* observation window and falls back to the row.
ReadCache(p) ==
    /\ At(p, "cache")
    /\ \/ /\ cache.st = "active" /\ Proceed(p) /\ UNCHANGED faults
       \/ /\ cache.st \in {"revoking", "revoked"} /\ Return(p, "inactive")
          /\ UNCHANGED <<faults, history>>
       \/ /\ \/ cache.st = "none" /\ UNCHANGED faults
             \/ RedisFault
          /\ Become(p, [proc[p] EXCEPT !.pc = "row", !.dl = clock + TTL])
          /\ UNCHANGED history
    /\ UNCHANGED <<clock, row, cache, lock>>

ReadRow(p) ==
    /\ At(p, "row")
    /\ Goto(p, IF RowActive(clock) THEN "put" ELSE "deny")
    /\ UNCHANGED <<clock, row, cache, lock, faults, history>>

\* An inactive row is published as revoked, errors ignored.
PublishInactive(p) ==
    /\ At(p, "deny")
    /\ Return(p, "inactive")
    /\ \/ /\ Store(DenyEntry("revoked"))
          /\ UNCHANGED faults
       \/ RedisFault /\ UNCHANGED cache
    /\ UNCHANGED <<clock, row, lock, newest, revokedAt, revokeDone>>

\* writeUserSessionCache of an active snapshot. Past its window nothing is
\* written, or what the script wrote expires at once: the row is asked again.
PutActive(p) ==
    LET dl == Deadline(p)
    IN  /\ At(p, "put")
        /\ \/ /\ dl <= clock
              /\ \/ UNCHANGED cache
                 \/ ~ScriptRefuses /\ Store(ActiveEntry(dl))
              /\ Goto(p, "confirm") /\ UNCHANGED <<faults, history>>
           \/ /\ dl > clock /\ (row.exp <= clock \/ ScriptRefuses)
              /\ Return(p, "inactive") /\ UNCHANGED <<cache, faults, history>>
           \/ /\ dl > clock /\ row.exp > clock /\ ~ScriptRefuses
              /\ Store(ActiveEntry(dl)) /\ UNCHANGED faults
              /\ \/ Proceed(p)
                 \/ /\ ActiveEntry(dl).exp <= MaxClock   \* the reply is late
                    /\ Goto(p, "confirm") /\ UNCHANGED history
           \/ /\ dl > clock /\ RedisFault
              /\ \/ UNCHANGED cache
                 \/ ~ScriptRefuses /\ Store(ActiveEntry(dl))
              /\ Proceed(p)
    /\ UNCHANGED <<clock, row, lock>>

\* confirmUserSessionActiveSnapshot
Confirm(p) ==
    /\ At(p, "confirm") /\ ActiveEntry(Deadline(p)).exp <= clock
    /\ IF RowActive(clock) THEN Proceed(p)
                           ELSE Return(p, "inactive") /\ UNCHANGED history
    /\ UNCHANGED <<clock, row, cache, lock, faults>>

----------------------------------------------------------------------------
(* RefreshLoginSession and RotateUserSessionRefresh. *)

\* The user's own status decides between rotation and RevokeUserSession; the
\* time the rotation will use is read here, once.
CheckUser(p) ==
    /\ At(p, "user")
    /\ \E pc \in {"rotate", "candidate"} :
         Become(p, [proc[p] EXCEPT !.pc = pc, !.now = clock])
    /\ UNCHANGED <<clock, row, cache, lock, faults, history>>

\* One attempt: read the row, classify the presented secret.
RotateRead(p) ==
    LET now == proc[p].now
        secret == proc[p].secret
    IN  /\ At(p, "rotate")
        /\ \/ ~RowActive(now) /\ Return(p, "inactive") /\ UNCHANGED newest
           \/ /\ RowActive(now) /\ row.cur = secret
              /\ Become(p, [proc[p] EXCEPT !.pc = "cas", !.dl = clock + TTL])
              /\ UNCHANGED newest
           \/ /\ RowActive(now) /\ row.cur # secret
              /\ row.prev = 0 \/ row.prev # secret
              /\ Return(p, "invalid") /\ UNCHANGED newest
           \/ /\ RowActive(now) /\ row.cur # secret
              /\ row.prev # 0 /\ row.prev = secret
              /\ IF now <= row.until
                 THEN IF row.cur = secret + 1   \* replay: same successor
                      THEN Return(p, "issued") /\ newest' = Max({newest, secret + 1})
                      ELSE Return(p, "error") /\ UNCHANGED newest
                 ELSE Goto(p, "fence") /\ UNCHANGED newest
    /\ UNCHANGED <<clock, row, cache, lock, faults, revokedAt, revokeDone>>

\* Mutant: the update does not compare the digest.
DigestIgnored(p) == RowActive(proc[p].now)

\* The WHERE clause of the rotation.
DigestMatches(p) == RowActive(proc[p].now) /\ row.cur = proc[p].secret

\* The compare-and-swap on the digest that was read.
RotateSwap(p) ==
    /\ At(p, "cas") /\ lock = Nobody
    /\ IF DigestMatches(p)
       THEN /\ row' = [row EXCEPT !.cur = proc[p].secret + 1,
                                  !.prev = proc[p].secret,
                                  !.until = proc[p].now + Grace]
            /\ Become(p, [proc[p] EXCEPT !.pc = "put", !.did = TRUE])
       ELSE /\ UNCHANGED row
            /\ IF proc[p].tries + 1 < MaxTries
               THEN Become(p, [proc[p] EXCEPT !.pc = "rotate", !.tries = @ + 1])
               ELSE Return(p, "invalid")
    /\ UNCHANGED <<clock, cache, lock, faults, history>>

----------------------------------------------------------------------------
(* Revocation: deny fence, row, tombstone. *)

\* RevokeUserSession and revokeUserSessions look for an active row; the loop
\* of the latter ends when none is left.
ReadCandidate(p) ==
    /\ At(p, "candidate")
    /\ IF RowActive(proc[p].now)
       THEN Goto(p, "fence") /\ UNCHANGED revokeDone
       ELSE /\ Return(p, IF proc[p].did THEN "revoked" ELSE "unchanged")
            /\ revokeDone' = (revokeDone \/ proc[p].did)
    /\ UNCHANGED <<clock, row, cache, lock, faults, newest, revokedAt>>

\* RevokeUserSessionByRefreshHash locks the row and checks the digest.
LogoutLock(p) ==
    LET now == proc[p].now
        secret == proc[p].secret
    IN  /\ At(p, "locked") /\ lock = Nobody
        /\ IF /\ RowActive(now)
              /\ \/ row.cur = secret
                 \/ row.prev # 0 /\ row.prev = secret /\ now <= row.until
           THEN lock' = p /\ Goto(p, "fence")
           ELSE UNCHANGED lock /\ Return(p, "unchanged")
        /\ UNCHANGED <<clock, row, cache, faults, history>>

\* writeUserSessionDenyFence; without the fence nothing is revoked.
WriteFence(p) ==
    /\ At(p, "fence")
    /\ \/ /\ Store(DenyEntry("revoking"))
          /\ Goto(p, "commit") /\ UNCHANGED <<lock, faults>>
       \/ /\ RedisFault
          /\ \/ UNCHANGED cache
             \/ Store(DenyEntry("revoking"))
          /\ lock' = IF lock = p THEN Nobody ELSE lock
          /\ Return(p, "error")
    /\ UNCHANGED <<clock, row, newest, revokedAt, revokeDone>>

\* The row is revoked if it is still active; the transaction may fail.
CommitRevoke(p) ==
    /\ At(p, "commit") /\ lock \in {p, Nobody}
    /\ lock' = Nobody
    /\ \/ /\ RowActive(proc[p].now)
          /\ row' = [row EXCEPT !.st = "revoked"] /\ revokedAt' = clock
          /\ Goto(p, "tomb")
       \/ /\ ~RowActive(proc[p].now)
          /\ UNCHANGED <<row, revokedAt>>
          /\ IF proc[p].op = "revokeAll" THEN Goto(p, "candidate")
                                         ELSE Return(p, "inactive")
       \/ UNCHANGED <<row, revokedAt>> /\ Return(p, "error")
    /\ UNCHANGED <<clock, cache, faults, newest, revokeDone>>

\* The tombstone replaces the fence; its failure is only logged.
WriteTombstone(p) ==
    /\ At(p, "tomb")
    /\ \/ /\ Store(DenyEntry("revoked"))
          /\ UNCHANGED faults
       \/ RedisFault /\ UNCHANGED cache
    /\ IF proc[p].op = "revokeAll"
       THEN /\ Become(p, [proc[p] EXCEPT !.pc = "candidate", !.did = TRUE])
            /\ UNCHANGED revokeDone
       ELSE Return(p, "revoked") /\ revokeDone' = TRUE
    /\ UNCHANGED <<clock, row, lock, newest, revokedAt>>

----------------------------------------------------------------------------
\* Redis loses the key (eviction, restart).
LoseCache ==
    /\ cache.st # "none" /\ RedisFault
    /\ cache' = Miss
    /\ UNCHANGED <<clock, row, lock, proc, history>>

\* Time passes, from the creation of the session on; expired keys go.
Tick ==
    /\ row.st # "none"
    /\ clock < MaxClock /\ clock' = clock + 1
    /\ cache' = IF cache.exp > clock' THEN cache ELSE Miss
    /\ UNCHANGED <<row, lock, proc, faults, history>>

Step(p) ==
    \/ ReadCache(p) \/ ReadRow(p) \/ PublishInactive(p) \/ PutActive(p)
    \/ Confirm(p) \/ CheckUser(p) \/ RotateRead(p) \/ RotateSwap(p)
    \/ ReadCandidate(p) \/ LogoutLock(p) \/ WriteFence(p)
    \/ CommitRevoke(p) \/ WriteTombstone(p)

Next ==
    \/ \E p \in Procs : Step(p)
    \/ \E p \in Procs : CreateUserSession(p)
    \/ \E p \in Procs, op \in Ops \ {"create"}, s \in 0..MaxSecret : Begin(p, op, s)
    \/ LoseCache
    \/ Tick

Spec == Init /\ [][Next]_vars

----------------------------------------------------------------------------
(* Properties. *)

Succeeds(p) ==
    ~At(p, "idle") /\ proc'[p].pc = "idle" /\ proc'[p].ok

\* Once a revocation has been reported, every validation and every refresh
\* that starts afterwards is refused, as long as Redis does not fail: the
\* deny fence beats each delayed write of an active snapshot
\* (writeUserSessionCache), and no such write outlives the tombstone.
RevokedSessionDenied ==
    [][\A p \in Procs :
         Succeeds(p) /\ proc[p].late \in {"returned", "aged"} => faults' > 0]_vars

\* Whatever Redis loses or fails to store, no bundle is issued to a refresh
\* that starts after the row was revoked, and a validation can be served
\* from the cache for less than one cache lifetime after it
\* (userSessionCacheDeadline, GetUserSessionCached).
StalenessBounded ==
    [][\A p \in Procs :
         Succeeds(p) => \/ proc[p].late = "no"
                        \/ /\ proc[p].late \in {"committed", "returned"}
                           /\ proc[p].op = "get"]_vars

\* The newest refresh secret any response carried is the one the row expects
\* next, or the one it has just replaced: no interleaving of rotations takes
\* the family back behind a secret that was handed out
\* (RotateUserSessionRefresh, deriveNextRefreshSecret).
NewestSecretAccepted ==
    row.st = "active" /\ newest > 0 => newest \in {row.cur, row.prev}
=============================================================================
