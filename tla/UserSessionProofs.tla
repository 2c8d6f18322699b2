------------------------- MODULE UserSessionProofs --------------------------
(***************************************************************************)
(* Proofs about login sessions, for any number of handlers and any values  *)
(* of the timing constants.                                                *)
(***************************************************************************)
EXTENDS UserSession, TLAPS

(* The inductive invariant. *)

\* What every handler is doing.
Handlers == [op: Ops, pc: Steps, did: BOOLEAN, secret: 0..MaxSecret, dl: Nat, now: Nat,
             tries: 0..MaxTries, ok: BOOLEAN, late: Lateness]

\* The successors: the row expects the newest secret it has been told of, or
\* the one after it.
Family ==
  /\ row.st = "none" => newest = 0 /\ row.cur = 0
  /\ row.st # "none" => /\ row.cur >= 1 /\ row.prev = row.cur - 1
                        /\ newest = row.cur \/ newest = row.cur - 1

\* An active snapshot in the cache is younger than its lifetime, and was read
\* before the row was revoked.
CacheBounded ==
  /\ row.st = "revoked" => revokedAt <= clock
  /\ cache.st = "active" =>
    /\ clock < cache.exp /\ cache.exp <= clock + TTL
    /\ row.st = "revoked" => cache.exp <= revokedAt + TTL

\* The deny state stands until no snapshot from before the revocation can be
\* written any more.
Denied ==
  /\ row.st = "revoked" /\ cache.st # "active"
  /\ \/ /\ cache.st \in {"revoking", "revoked"}
        /\ cache.exp >= row.exp \/ cache.exp >= revokedAt + TTL
     \/ clock >= row.exp
     \/ clock >= revokedAt + TTL

\* A reported revocation has its deny state, unless Redis failed.
ReportedDenied == revokeDone /\ faults = 0 => Denied

\* What a handler knows of the secret it was presented ...
SecretKnown(r) ==
  /\ r.secret <= newest /\ r.secret < MaxSecret
  /\ r.pc # "idle" => row.st # "none"
  /\ r.op = "create" => r.secret = 0 /\ r.late = "no"
  /\ r.op = "refresh" /\ r.did => r.secret + 1 <= row.cur
  /\ r.did => r.pc \in {"put", "confirm", "candidate", "fence", "commit", "tomb"}
  /\ r.pc \in {"cache", "row", "put", "confirm", "user", "rotate", "cas", "deny"} =>
       r.op \in {"get", "refresh", "create"}

\* ... and of the revocation: one that started after it will not write a
\* snapshot, and one that will has read the row before it.
RevocationKnown(r) ==
  /\ r.late # "no" => row.st = "revoked" /\ r.pc \notin {"put", "confirm", "cas"}
  /\ r.late = "aged" => clock >= revokedAt + TTL
  /\ r.late = "returned" => revokeDone
  /\ r.dl <= clock + TTL
  /\ r.pc \in {"put", "confirm"} /\ row.st = "revoked" => r.dl <= revokedAt + TTL
  /\ r.pc = "tomb" => row.st = "revoked"
  /\ r.did /\ r.pc \in {"candidate", "fence", "commit", "tomb"} /\ faults = 0 => Denied

Handler(r) == SecretKnown(r) /\ RevocationKnown(r)

SessionInv ==
  /\ TypeOK /\ Family /\ CacheBounded /\ ReportedDenied
  /\ \A p \in Procs : Handler(proc[p])

-----------------------------------------------------------------------------
(* The operators. *)

\* The smaller of two numbers.
LEMMA MinPair ==
  ASSUME NEW a \in Nat, NEW b \in Nat
  PROVE  Min({a, b}) \in {a, b} /\ Min({a, b}) <= a /\ Min({a, b}) <= b
<1>1. \E x \in {a, b} : \A y \in {a, b} : x <= y
  <2>1. CASE a <= b
    BY <2>1
  <2>2. CASE b <= a
    BY <2>2
  <2> QED
    BY <2>1, <2>2
<1>2. Min({a, b}) \in {a, b} /\ \A y \in {a, b} : Min({a, b}) <= y
  BY <1>1 DEF Min
<1> QED
  BY <1>2

\* The larger of two numbers.
LEMMA MaxPair ==
  ASSUME NEW a \in Nat, NEW b \in Nat
  PROVE  Max({a, b}) \in {a, b} /\ Max({a, b}) >= a /\ Max({a, b}) >= b
<1>1. \E x \in {a, b} : \A y \in {a, b} : x >= y
  <2>1. CASE a >= b
    BY <2>1
  <2>2. CASE b >= a
    BY <2>2
  <2> QED
    BY <2>1, <2>2
<1>2. Max({a, b}) \in {a, b} /\ \A y \in {a, b} : Max({a, b}) >= y
  BY <1>1 DEF Max
<1> QED
  BY <1>2

\* The handlers but one stay as they are.
LEMMA BecomeAt ==
  ASSUME proc \in [Procs -> Handlers], NEW p \in Procs, NEW r \in Handlers, Become(p, r)
  PROVE  /\ proc' \in [Procs -> Handlers] /\ proc'[p] = r
         /\ \A q \in Procs : q # p => proc'[q] = proc[q]
  BY DEF Become

\* The types, in parts.
LEMMA Typed ==
  ASSUME TypeOK
  PROVE  /\ clock \in Nat /\ clock <= MaxClock
         /\ row.st \in {"none", "active", "revoked"} /\ row.cur \in Nat /\ row.cur <= MaxSecret
         /\ row.prev \in Nat /\ row.exp \in Nat /\ row.until \in Nat
         /\ cache.st \in {"none", "active", "revoking", "revoked"} /\ cache.exp \in Nat
         /\ newest \in Nat /\ newest <= MaxSecret /\ revokedAt \in Nat /\ faults \in Nat
         /\ revokeDone \in BOOLEAN /\ proc \in [Procs -> Handlers]
         /\ TTL \in Nat /\ TTL > 0 /\ MaxSecret \in Nat /\ MaxClock \in Nat /\ Never \in Nat
  BY SessionAssumption DEF TypeOK, Handlers, Never

\* The fields of a handler.
LEMMA HandlerFields ==
  ASSUME NEW r \in Handlers
  PROVE  /\ r.op \in Ops /\ r.pc \in Steps /\ r.did \in BOOLEAN /\ r.secret \in Nat
         /\ r.secret <= MaxSecret
         /\ r.dl \in Nat /\ r.now \in Nat /\ r.tries \in 0..MaxTries /\ r.ok \in BOOLEAN
         /\ r.late \in Lateness
  BY SessionAssumption DEF Handlers

\* A handler that has returned.
LEMMA EndedType ==
  ASSUME NEW b \in BOOLEAN
  PROVE  Ended(b) \in Handlers
<1>1. 0 \in 0..MaxSecret /\ 0 \in 0..MaxTries
  BY SessionAssumption
<1> QED
  BY <1>1 DEF Handlers, Ended, Ops, Steps, Lateness

\* A handler that starts.
LEMMA StartedType ==
  ASSUME NEW op \in Ops, NEW pc \in Steps, NEW secret \in 0..MaxSecret, NEW dl \in Nat,
         NEW now \in Nat, NEW late \in Lateness
  PROVE  Started(op, pc, secret, dl, now, late) \in Handlers
<1>1. 0 \in 0..MaxTries
  BY SessionAssumption
<1> QED
  BY <1>1 DEF Handlers, Started

\* A handler that goes on.
LEMMA GoneOn ==
  ASSUME NEW r \in Handlers, NEW pc \in Steps, NEW dl \in Nat, NEW now \in Nat
  PROVE  /\ [r EXCEPT !.pc = pc] \in Handlers
         /\ [r EXCEPT !.pc = pc, !.dl = dl] \in Handlers
         /\ [r EXCEPT !.pc = pc, !.now = now] \in Handlers
         /\ [r EXCEPT !.pc = pc, !.did = TRUE] \in Handlers
  BY DEF Handlers

\* A deny state lasts: as long as the session, or a whole cache lifetime.
LEMMA StoreDeny ==
  ASSUME TypeOK, NEW st \in {"revoking", "revoked"}, Store(DenyEntry(st))
  PROVE  /\ cache' \in [st: {"none", "active", "revoking", "revoked"}, exp: Nat]
         /\ cache'.st = st /\ cache'.exp > clock
         /\ row.exp > clock => cache'.exp = row.exp \/ cache'.exp = clock + TTL
<1>1. clock \in Nat /\ row.exp \in Nat /\ TTL \in Nat /\ TTL > 0
  BY Typed
<1> DEFINE left == IF row.exp > clock THEN Min({row.exp - clock, TTL}) ELSE 1
<1>2. left \in Nat /\ left > 0 /\ (row.exp > clock => left = row.exp - clock \/ left = TTL)
  <2>1. CASE row.exp > clock
    <3>1. row.exp - clock \in Nat /\ row.exp - clock > 0
      BY <1>1, <2>1
    <3>2. Min({row.exp - clock, TTL}) \in {row.exp - clock, TTL}
      BY <1>1, <3>1, MinPair
    <3> QED
      BY <1>1, <2>1, <3>1, <3>2
  <2>2. CASE ~(row.exp > clock)
    BY <2>2
  <2> QED
    BY <2>1, <2>2
<1>3. DenyEntry(st) = [st |-> st, exp |-> clock + left]
  BY DEF DenyEntry
<1> HIDE DEF left
<1>4. cache' = [st |-> st, exp |-> clock + left]
  BY <1>1, <1>2, <1>3 DEF Store
<1> QED
  BY <1>1, <1>2, <1>4

\* An active snapshot lasts no longer than its window and its session.
LEMMA StoreActive ==
  ASSUME TypeOK, NEW dl \in Nat, Store(ActiveEntry(dl))
  PROVE  /\ cache' \in [st: {"none", "active", "revoking", "revoked"}, exp: Nat]
         /\ \/ cache'.st = "none"
            \/ /\ cache'.st = "active" /\ cache'.exp > clock
               /\ cache'.exp <= dl /\ cache'.exp <= row.exp
<1>1. clock \in Nat /\ row.exp \in Nat
  BY Typed
<1>2. /\ Min({dl, row.exp}) \in Nat
      /\ Min({dl, row.exp}) <= dl /\ Min({dl, row.exp}) <= row.exp
  BY <1>1, MinPair
<1>3. \/ cache' = [st |-> "active", exp |-> Min({dl, row.exp})] /\ Min({dl, row.exp}) > clock
      \/ cache' = [st |-> "none", exp |-> 0]
  BY DEF Store, ActiveEntry, Miss
<1> QED
  BY <1>1, <1>2, <1>3

-----------------------------------------------------------------------------
(* What a step may do to the row, the cache and the clock. *)

\* The shared state only moves forward.
Evolves ==
  /\ newest <= newest' /\ clock <= clock' /\ faults <= faults'
  /\ row.cur <= row'.cur
  /\ row.st # "none" => row'.st # "none"
  /\ row.st = "revoked" => row'.st = "revoked" /\ revokedAt' = revokedAt
  /\ row.st # "revoked" /\ row'.st = "revoked" => revokedAt' = clock
  /\ revokeDone => revokeDone'
  /\ Denied /\ faults' = 0 => Denied'

\* The shared part of the invariant after a step.
Shared == TypeOK' /\ Family' /\ CacheBounded' /\ ReportedDenied' /\ Evolves

\* What one handler knows stays true while others work.
LEMMA OthersKnow ==
  ASSUME TypeOK, TypeOK', Evolves, NEW r \in Handlers, Handler(r)
  PROVE  Handler(r)'
<1>1. /\ r.secret \in Nat /\ r.dl \in Nat
  BY HandlerFields
<1>2. /\ clock \in Nat /\ clock' \in Nat /\ newest \in Nat /\ newest' \in Nat /\ TTL \in Nat
      /\ row.cur \in Nat /\ row'.cur \in Nat /\ revokedAt \in Nat /\ revokedAt' \in Nat
      /\ faults \in Nat /\ faults' \in Nat
  BY SessionAssumption DEF TypeOK, Never
<1>3. SecretKnown(r)'
  BY <1>1, <1>2 DEF Handler, SecretKnown, Evolves
<1>4. RevocationKnown(r)'
  <2>1. r.late # "no" => row'.st = "revoked" /\ r.pc \notin {"put", "confirm", "cas"}
    BY DEF Handler, RevocationKnown, Evolves
  <2>5. r.late = "aged" => clock' >= revokedAt' + TTL
    <3>1. r.late = "aged" => clock >= revokedAt + TTL /\ row.st = "revoked"
      BY DEF Handler, RevocationKnown
    <3>2. clock <= clock' /\ (row.st = "revoked" => revokedAt' = revokedAt)
      BY DEF Evolves
    <3>3. r.late = "aged" => revokedAt' = revokedAt
      BY <3>1, <3>2
    <3>4. ASSUME r.late = "aged" PROVE clock' >= revokedAt' + TTL
      BY <1>2, <3>1, <3>2, <3>3, <3>4
    <3> QED
      BY <3>4
  <2>6. r.dl <= clock' + TTL
    BY <1>1, <1>2 DEF Handler, RevocationKnown, Evolves
  <2>7. r.pc \in {"put", "confirm"} /\ row'.st = "revoked" => r.dl <= revokedAt' + TTL
    BY <1>1, <1>2 DEF Handler, RevocationKnown, Evolves
  <2>8. r.pc = "tomb" => row'.st = "revoked"
    BY DEF Handler, RevocationKnown, Evolves
  <2>2. r.late = "returned" => revokeDone'
    BY DEF Handler, RevocationKnown, Evolves
  <2>3. faults' = 0 => faults = 0
    BY <1>2 DEF Evolves
  <2>4. r.did /\ r.pc \in {"candidate", "fence", "commit", "tomb"} /\ faults' = 0 => Denied'
    BY <2>3 DEF Handler, RevocationKnown, Evolves
  <2> QED
    BY <2>1, <2>2, <2>4, <2>5, <2>6, <2>7, <2>8 DEF RevocationKnown
<1> QED
  BY <1>3, <1>4 DEF Handler

\* The invariant holds again once the shared part and the handler that moved
\* are right.
LEMMA OneMoves ==
  ASSUME SessionInv, Shared, NEW p \in Procs, Handler(proc[p])',
         \A q \in Procs : q # p => proc'[q] = proc[q]
  PROVE  SessionInv'
<1>1. TypeOK /\ TypeOK' /\ Evolves /\ proc \in [Procs -> Handlers]
  BY Typed DEF SessionInv, Shared
<1>2. ASSUME NEW q \in Procs PROVE Handler(proc[q])'
  <2>1. CASE q = p
    BY <2>1
  <2>2. CASE q # p
    <3>1. Handler(proc[q]) /\ proc[q] \in Handlers /\ proc'[q] = proc[q]
      BY <1>1, <2>2 DEF SessionInv
    <3>2. \A r \in Handlers : Handler(r) => Handler(r)'
      BY <1>1, OthersKnow
    <3> QED
      BY <3>1, <3>2 DEF Handler, SecretKnown, RevocationKnown
  <2> QED
    BY <2>1, <2>2
<1> QED
  BY <1>2 DEF SessionInv, Shared

\* A handler that has ended knows nothing.
LEMMA EndedHandler ==
  ASSUME TypeOK', NEW p \in Procs, NEW b \in BOOLEAN, proc'[p] = Ended(b)
  PROVE  Handler(proc[p])'
<1>1. /\ proc'[p].op = "get" /\ proc'[p].pc = "idle" /\ proc'[p].did = FALSE
      /\ proc'[p].secret = 0 /\ proc'[p].dl = 0 /\ proc'[p].late = "no"
  BY DEF Ended
<1>2. newest' \in Nat /\ clock' \in Nat /\ TTL \in Nat /\ MaxSecret \in Nat \ {0}
  BY SessionAssumption DEF TypeOK
<1> QED
  BY <1>1, <1>2 DEF Handler, SecretKnown, RevocationKnown

\* The cache is left alone.
LEMMA CacheKept ==
  ASSUME TypeOK, CacheBounded, UNCHANGED <<cache, clock>>, UNCHANGED revokedAt,
         row'.st = row.st, row'.exp = row.exp
  PROVE  CacheBounded' /\ (Denied => Denied')
  BY DEF CacheBounded, Denied

\* A deny state is written.
LEMMA CacheDenies ==
  ASSUME TypeOK, CacheBounded, NEW st \in {"revoking", "revoked"}, Store(DenyEntry(st)),
         UNCHANGED <<clock, row>>, UNCHANGED revokedAt
  PROVE  CacheBounded' /\ (row.st = "revoked" => Denied')
<1>1. /\ cache'.st = st /\ cache'.exp > clock /\ cache'.exp \in Nat
      /\ row.exp > clock => cache'.exp = row.exp \/ cache'.exp = clock + TTL
  BY StoreDeny
<1>2. clock \in Nat /\ row.exp \in Nat /\ TTL \in Nat /\ revokedAt \in Nat
  BY Typed
<1>3. CacheBounded'
  BY <1>1 DEF CacheBounded
<1>4. ASSUME row.st = "revoked" PROVE Denied'
  <2>1. CASE row.exp > clock
    BY <1>1, <1>2, <1>4, <2>1 DEF Denied, CacheBounded
  <2>2. CASE ~(row.exp > clock)
    BY <1>1, <1>2, <1>4, <2>2 DEF Denied
  <2> QED
    BY <2>1, <2>2
<1> QED
  BY <1>3, <1>4

\* An active snapshot is written, from a window opened before the revocation:
\* never under a deny state that is still needed.
LEMMA CacheActivates ==
  ASSUME TypeOK, CacheBounded, NEW dl \in Nat, dl <= clock + TTL,
         row.st = "revoked" => dl <= revokedAt + TTL,
         ~ScriptRefuses, Store(ActiveEntry(dl)),
         UNCHANGED <<clock, row>>, UNCHANGED revokedAt
  PROVE  CacheBounded' /\ (Denied => Denied')
<1>1. \/ cache'.st = "none"
      \/ /\ cache'.st = "active" /\ cache'.exp > clock
         /\ cache'.exp <= dl /\ cache'.exp <= row.exp
  BY StoreActive
<1>2. clock \in Nat /\ row.exp \in Nat /\ TTL \in Nat /\ revokedAt \in Nat /\ cache'.exp \in Nat
  BY Typed, StoreActive
<1>3. CacheBounded'
  BY <1>1, <1>2 DEF CacheBounded
<1>4. ASSUME Denied PROVE Denied'
  BY <1>1, <1>2, <1>4 DEF Denied, ScriptRefuses
<1> QED
  BY <1>3, <1>4

\* Steps that leave row, cache, clock and history alone.
LEMMA NothingShared ==
  ASSUME SessionInv, UNCHANGED <<clock, row, cache>>, UNCHANGED history,
         faults' \in 0..MaxFaults, faults <= faults',
         lock' \in Procs \cup {Nobody}, proc' \in [Procs -> Handlers]
  PROVE  Shared
<1>1. TypeOK /\ Family /\ CacheBounded /\ ReportedDenied
  BY DEF SessionInv
<1>2. TypeOK'
  BY <1>1 DEF TypeOK, history, Handlers
<1>3. CacheBounded' /\ (Denied => Denied')
  BY <1>1, CacheKept DEF history
<1>4. Family'
  BY <1>1 DEF Family, history
<1>5. faults \in Nat /\ faults' \in Nat /\ newest \in Nat /\ clock \in Nat /\ row.cur \in Nat
  BY <1>1, <1>2, Typed, SessionAssumption DEF TypeOK
<1>6. ReportedDenied'
  BY <1>1, <1>3, <1>5 DEF ReportedDenied, history
<1>7. Evolves
  BY <1>3, <1>5 DEF Evolves, history
<1> QED
  BY <1>2, <1>3, <1>4, <1>6, <1>7 DEF Shared

\* As before, when a bundle may have been issued and the cache may have
\* changed.
LEMMA CacheShared ==
  ASSUME SessionInv, UNCHANGED <<clock, row>>, UNCHANGED <<revokedAt, revokeDone>>,
         newest' \in 0..MaxSecret, newest <= newest',
         newest' = newest \/ (row.st # "none" /\ newest' <= row.cur),
         faults' \in 0..MaxFaults, faults <= faults',
         cache' \in [st: {"none", "active", "revoking", "revoked"}, exp: Nat],
         CacheBounded', Denied /\ faults' = 0 => Denied',
         UNCHANGED lock \/ lock' = Nobody, proc' \in [Procs -> Handlers]
  PROVE  Shared
<1>1. TypeOK /\ Family /\ CacheBounded /\ ReportedDenied
  BY DEF SessionInv
<1>2. TypeOK'
  BY <1>1 DEF TypeOK, Handlers
<1>3. /\ faults \in Nat /\ faults' \in Nat /\ newest \in Nat /\ newest' \in Nat
      /\ clock \in Nat /\ row.cur \in Nat
  BY <1>1, <1>2, Typed, SessionAssumption DEF TypeOK
<1>4. Family'
  BY <1>1, <1>3 DEF Family
<1>5. ReportedDenied'
  <2>1. faults' = 0 => faults = 0
    BY <1>3
  <2> QED
    BY <1>1, <2>1 DEF ReportedDenied
<1>6. Evolves
  BY <1>3 DEF Evolves
<1> QED
  BY <1>2, <1>4, <1>5, <1>6 DEF Shared

\* What follows once the session is known to be active: the caller is served,
\* a rotation begins, or the successor of the secret is handed out, which the
\* row has reached.
LEMMA ProceedEffect ==
  ASSUME SessionInv, NEW p \in Procs, proc[p].pc \in {"cache", "put", "confirm"}, Proceed(p)
  PROVE  /\ proc' \in [Procs -> Handlers] /\ \A q \in Procs : q # p => proc'[q] = proc[q]
         /\ UNCHANGED <<revokedAt, revokeDone>>
         /\ newest' \in 0..MaxSecret /\ newest <= newest'
         /\ newest' = newest \/ (row.st # "none" /\ newest' <= row.cur)
         /\ \/ proc'[p] = Ended(TRUE)
            \/ /\ proc'[p] = [proc[p] EXCEPT !.pc = "user", !.dl = 0]
               /\ proc[p].op = "refresh" /\ ~proc[p].did
<1>1. TypeOK /\ Family /\ SecretKnown(proc[p])
  BY DEF SessionInv, Handler
<1>2. proc \in [Procs -> Handlers] /\ proc[p] \in Handlers
  BY <1>1, Typed
<1>3. /\ newest \in Nat /\ newest <= MaxSecret /\ row.cur \in Nat /\ row.cur <= MaxSecret
      /\ MaxSecret \in Nat /\ proc[p].secret \in Nat /\ proc[p].op \in Ops
  BY <1>1, <1>2, Typed, HandlerFields
<1>4. Ended(TRUE) \in Handlers /\ [proc[p] EXCEPT !.pc = "user", !.dl = 0] \in Handlers
  BY <1>2, EndedType, GoneOn DEF Steps
<1>5. CASE proc[p].op = "get"
  <2>1. Become(p, Ended(TRUE)) /\ UNCHANGED <<newest, revokedAt, revokeDone>>
    BY <1>5 DEF Proceed, Return, history
  <2>2. newest' \in 0..MaxSecret /\ newest <= newest'
    BY <1>3, <2>1
  <2> QED
    BY <1>2, <1>4, <2>1, <2>2, BecomeAt
<1>6. CASE proc[p].op = "refresh" /\ ~proc[p].did
  <2>1. /\ Become(p, [proc[p] EXCEPT !.pc = "user", !.dl = 0])
        /\ UNCHANGED <<newest, revokedAt, revokeDone>>
    BY <1>6 DEF Proceed, history
  <2>2. newest' \in 0..MaxSecret /\ newest <= newest'
    BY <1>3, <2>1
  <2> QED
    BY <1>2, <1>4, <1>6, <2>1, <2>2, BecomeAt
<1>7. CASE proc[p].op # "get" /\ ~(proc[p].op = "refresh" /\ ~proc[p].did)
  <2>1. /\ Become(p, Ended(TRUE)) /\ UNCHANGED <<revokedAt, revokeDone>>
        /\ newest' = Max({newest, proc[p].secret + 1})
    BY <1>7 DEF Proceed, Return
  <2>2. proc[p].op = "create" \/ (proc[p].op = "refresh" /\ proc[p].did)
    BY <1>1, <1>7 DEF SecretKnown
  <2>3. row.st # "none" /\ row.cur >= 1
    BY <1>1 DEF SecretKnown, Family
  <2>4. proc[p].secret + 1 <= row.cur
    BY <1>1, <1>3, <2>2, <2>3 DEF SecretKnown
  <2>5. newest <= row.cur
    BY <1>1, <1>3, <2>3 DEF Family
  <2>6. newest' \in {newest, proc[p].secret + 1} /\ newest' >= newest
    BY <1>3, <2>1, MaxPair
  <2>7. newest' \in 0..MaxSecret /\ newest <= newest' /\ newest' <= row.cur
    BY <1>3, <2>4, <2>5, <2>6
  <2> QED
    BY <1>2, <1>4, <2>1, <2>3, <2>7, BecomeAt
<1> QED
  BY <1>5, <1>6, <1>7

\* A handler that goes on with its operation.
LEMMA GoesOn ==
  ASSUME SessionInv, Shared, NEW p \in Procs,
         proc'[p].op = proc[p].op, proc'[p].secret = proc[p].secret,
         proc'[p].late = proc[p].late, proc[p].pc # "idle",
         proc'[p].op = "refresh" /\ proc'[p].did => proc'[p].secret + 1 <= row'.cur,
         proc'[p].did => proc'[p].pc \in {"put", "confirm", "candidate", "fence", "commit", "tomb"},
         (proc'[p].pc \in {"cache", "row", "put", "confirm", "user", "rotate", "cas", "deny"} =>
            proc'[p].op \in {"get", "refresh", "create"}),
         proc'[p].late # "no" => proc'[p].pc \notin {"put", "confirm", "cas"},
         proc'[p].dl <= clock' + TTL,
         proc'[p].pc \in {"put", "confirm"} /\ row'.st = "revoked" => proc'[p].dl <= revokedAt' + TTL,
         proc'[p].pc = "tomb" => row'.st = "revoked",
         (proc'[p].did /\ proc'[p].pc \in {"candidate", "fence", "commit", "tomb"} /\ faults' = 0 =>
            Denied')
  PROVE  Handler(proc[p])'
<1>1. TypeOK /\ TypeOK' /\ Evolves /\ Handler(proc[p]) /\ proc[p] \in Handlers
  BY Typed DEF SessionInv, Shared
<1>2. \A r \in Handlers : Handler(r) => Handler(r)'
  BY <1>1, OthersKnow
<1> DEFINE r == proc[p]
<1>3. /\ r.secret <= newest' /\ r.secret < MaxSecret
      /\ row'.st # "none"
      /\ r.op = "create" => r.secret = 0 /\ r.late = "no"
      /\ r.late # "no" => row'.st = "revoked"
      /\ r.late = "aged" => clock' >= revokedAt' + TTL
      /\ r.late = "returned" => revokeDone'
  BY <1>1, <1>2 DEF Handler, SecretKnown, RevocationKnown
<1>4. SecretKnown(proc[p])'
  BY <1>3 DEF SecretKnown
<1>5. RevocationKnown(proc[p])'
  BY <1>3 DEF RevocationKnown
<1> QED
  BY <1>4, <1>5 DEF Handler

\* The handler after Proceed.
LEMMA ProceedHandler ==
  ASSUME SessionInv, Shared, NEW p \in Procs, proc[p].pc \in {"cache", "put", "confirm"},
         (\/ proc'[p] = Ended(TRUE)
          \/ /\ proc'[p] = [proc[p] EXCEPT !.pc = "user", !.dl = 0]
             /\ proc[p].op = "refresh" /\ ~proc[p].did)
  PROVE  Handler(proc[p])'
<1>1. TypeOK /\ TypeOK' /\ proc[p] \in Handlers
  BY Typed DEF SessionInv, Shared
<1>2. CASE proc'[p] = Ended(TRUE)
  BY <1>1, <1>2, EndedHandler
<1>3. CASE /\ proc'[p] = [proc[p] EXCEPT !.pc = "user", !.dl = 0]
           /\ proc[p].op = "refresh" /\ ~proc[p].did
  <2>1. /\ proc'[p].op = proc[p].op /\ proc'[p].pc = "user" /\ ~proc'[p].did
        /\ proc'[p].secret = proc[p].secret /\ proc'[p].dl = 0 /\ proc'[p].late = proc[p].late
    BY <1>1, <1>3 DEF Handlers
  <2>2. proc'[p].dl <= clock' + TTL
    BY <1>1, <2>1, SessionAssumption DEF TypeOK
  <2> QED
    BY <1>3, <2>1, <2>2, GoesOn
<1> QED
  BY <1>2, <1>3

\* An operation that returns.
LEMMA ReturnEffect ==
  ASSUME TypeOK, NEW p \in Procs, NEW res, Return(p, res)
  PROVE  /\ proc' \in [Procs -> Handlers] /\ \A q \in Procs : q # p => proc'[q] = proc[q]
         /\ \E b \in BOOLEAN : proc'[p] = Ended(b)
<1>1. PICK b \in BOOLEAN : Become(p, Ended(b))
  <2>1. CASE res \in {"valid", "issued"}
    <3>1. (res \in {"valid", "issued"}) = TRUE
      BY <2>1
    <3> QED
      BY <3>1 DEF Return
  <2>2. CASE res \notin {"valid", "issued"}
    <3>1. (res \in {"valid", "issued"}) = FALSE
      BY <2>2
    <3> QED
      BY <3>1 DEF Return
  <2> QED
    BY <2>1, <2>2
<1> QED
  BY <1>1, Typed, EndedType, BecomeAt

\* Its handler is idle again.
LEMMA ReturnInv ==
  ASSUME SessionInv, Shared, NEW p \in Procs, NEW res, Return(p, res)
  PROVE  SessionInv'
<1>1. TypeOK /\ TypeOK'
  BY DEF SessionInv, Shared
<1>2. \A q \in Procs : q # p => proc'[q] = proc[q]
  BY <1>1, ReturnEffect
<1>3. PICK b \in BOOLEAN : proc'[p] = Ended(b)
  BY <1>1, ReturnEffect
<1>4. Handler(proc[p])'
  BY <1>1, <1>3, EndedHandler
<1> QED
  BY <1>2, <1>4, OneMoves

\* It returns and leaves the shared state alone.
LEMMA ReturnQuiet ==
  ASSUME SessionInv, NEW p \in Procs, NEW res, Return(p, res),
         UNCHANGED <<clock, row, cache>>, UNCHANGED history, UNCHANGED <<lock, faults>>
  PROVE  SessionInv'
<1>1. proc' \in [Procs -> Handlers]
  BY ReturnEffect DEF SessionInv
<1>2. faults' \in 0..MaxFaults /\ faults <= faults' /\ lock' \in Procs \cup {Nobody}
  BY SessionAssumption DEF SessionInv, TypeOK
<1>3. Shared
  BY <1>1, <1>2, NothingShared
<1> QED
  BY <1>3, ReturnInv

\* A step within an operation.
LEMMA GotoEffect ==
  ASSUME TypeOK, NEW p \in Procs, NEW pc \in Steps, NEW dl \in Nat, NEW now \in Nat,
         (\/ Goto(p, pc) \/ Become(p, [proc[p] EXCEPT !.pc = pc, !.dl = dl])
          \/ Become(p, [proc[p] EXCEPT !.pc = pc, !.now = now]))
  PROVE  /\ proc' \in [Procs -> Handlers] /\ \A q \in Procs : q # p => proc'[q] = proc[q]
         /\ proc'[p].op = proc[p].op /\ proc'[p].secret = proc[p].secret
         /\ proc'[p].late = proc[p].late /\ proc'[p].did = proc[p].did
         /\ proc'[p].pc = pc /\ proc'[p].dl \in {proc[p].dl, dl}
<1>1. proc \in [Procs -> Handlers] /\ proc[p] \in Handlers
  BY Typed
<1>2. PICK n \in Handlers : /\ Become(p, n) /\ n.op = proc[p].op /\ n.secret = proc[p].secret
                            /\ n.late = proc[p].late /\ n.did = proc[p].did /\ n.pc = pc
                            /\ n.dl \in {proc[p].dl, dl}
  <2>1. CASE Goto(p, pc)
    <3> DEFINE n == [proc[p] EXCEPT !.pc = pc]
    <3>1. n \in Handlers
      BY <1>1, GoneOn
    <3>2. /\ n.op = proc[p].op /\ n.secret = proc[p].secret /\ n.late = proc[p].late
          /\ n.did = proc[p].did /\ n.pc = pc /\ n.dl = proc[p].dl
      BY <1>1 DEF Handlers
    <3> QED
      BY <2>1, <3>1, <3>2 DEF Goto
  <2>2. CASE Become(p, [proc[p] EXCEPT !.pc = pc, !.dl = dl])
    <3> DEFINE n == [proc[p] EXCEPT !.pc = pc, !.dl = dl]
    <3>1. n \in Handlers
      BY <1>1, GoneOn
    <3>2. /\ n.op = proc[p].op /\ n.secret = proc[p].secret /\ n.late = proc[p].late
          /\ n.did = proc[p].did /\ n.pc = pc /\ n.dl = dl
      BY <1>1 DEF Handlers
    <3> QED
      BY <2>2, <3>1, <3>2
  <2>3. CASE Become(p, [proc[p] EXCEPT !.pc = pc, !.now = now])
    <3> DEFINE n == [proc[p] EXCEPT !.pc = pc, !.now = now]
    <3>1. n \in Handlers
      BY <1>1, GoneOn
    <3>2. /\ n.op = proc[p].op /\ n.secret = proc[p].secret /\ n.late = proc[p].late
          /\ n.did = proc[p].did /\ n.pc = pc /\ n.dl = proc[p].dl
      BY <1>1 DEF Handlers
    <3> QED
      BY <2>3, <3>1, <3>2
  <2> QED
    BY <2>1, <2>2, <2>3
<1> QED
  BY <1>1, <1>2, BecomeAt

-----------------------------------------------------------------------------
(* One lemma per operation. *)

\* What is known of a handler, in the form the steps use.
LEMMA Knows ==
  ASSUME SessionInv, NEW p \in Procs
  PROVE  /\ TypeOK /\ Family /\ CacheBounded /\ ReportedDenied
         /\ SecretKnown(proc[p]) /\ RevocationKnown(proc[p])
         /\ proc \in [Procs -> Handlers] /\ proc[p] \in Handlers
         /\ proc[p].secret \in Nat /\ proc[p].dl \in Nat /\ proc[p].now \in Nat
         /\ clock \in Nat /\ TTL \in Nat /\ newest \in Nat /\ row.cur \in Nat
         /\ faults \in 0..MaxFaults /\ faults \in Nat /\ lock \in Procs \cup {Nobody}
<1>1. TypeOK /\ Handler(proc[p])
  BY DEF SessionInv
<1>2. proc \in [Procs -> Handlers] /\ proc[p] \in Handlers
  BY <1>1, Typed
<1>3. faults \in 0..MaxFaults /\ lock \in Procs \cup {Nobody}
  BY <1>1 DEF TypeOK
<1> QED
  BY <1>1, <1>2, <1>3, Typed, HandlerFields DEF SessionInv, Handler

\* The counter of Redis failures.
LEMMA FaultCounted ==
  ASSUME SessionInv, RedisFault
  PROVE  faults' \in 0..MaxFaults /\ faults <= faults' /\ faults' # 0
  BY SessionAssumption DEF SessionInv, TypeOK, RedisFault

\* A request starts: whatever it presents has been handed out, and it knows
\* how late it is.
LEMMA BeginInv ==
  ASSUME SessionInv, NEW p \in Procs, NEW op \in Ops \ {"create"}, NEW secret \in 0..MaxSecret,
         Begin(p, op, secret)
  PROVE  SessionInv'
<1>1. /\ TypeOK /\ Family /\ CacheBounded /\ proc \in [Procs -> Handlers]
      /\ clock \in Nat /\ TTL \in Nat /\ newest \in Nat /\ row.cur \in Nat /\ faults \in 0..MaxFaults
      /\ faults \in Nat /\ lock \in Procs \cup {Nobody}
  BY Knows
<1> DEFINE pc == CASE op = "logout" -> "locked" [] op = "revokeAll" -> "candidate"
                   [] OTHER -> "cache"
           now == IF op \in {"logout", "revokeAll"} THEN clock ELSE 0
           n == Started(op, pc, secret, 0, now, Late)
<1>2. /\ pc \in {"locked", "candidate", "cache"} /\ (pc = "cache" => op \in {"get", "refresh"})
  BY DEF Ops
<1>3. Late \in Lateness /\ now \in Nat /\ pc \in Steps
  BY <1>1, <1>2 DEF Late, Lateness, Steps
<1>4. Become(p, n) /\ UNCHANGED <<clock, row, cache, lock, faults>> /\ UNCHANGED history
  BY DEF Begin
<1> HIDE DEF pc, now
<1>5. n \in Handlers
  BY <1>3, StartedType
<1>6. /\ proc' \in [Procs -> Handlers] /\ proc'[p] = n
      /\ \A q \in Procs : q # p => proc'[q] = proc[q]
  BY <1>1, <1>4, <1>5, BecomeAt
<1>7. Shared
  BY <1>1, <1>4, <1>6, NothingShared
<1>8. /\ proc'[p].op = op /\ proc'[p].pc = pc /\ proc'[p].did = FALSE
      /\ proc'[p].secret = secret /\ proc'[p].dl = 0 /\ proc'[p].late = Late
  BY <1>6 DEF Started
<1>9. secret <= newest /\ secret < MaxSecret /\ row.st # "none"
  <2>1. secret \in (IF op \in {"refresh", "logout"} THEN 0..newest ELSE {0}) /\ secret < MaxSecret
    BY DEF Begin
  <2>2. secret <= newest
    BY <1>1, <2>1
  <2>3. op \in {"get", "refresh", "logout"} => newest > 0
    BY DEF Begin
  <2>4. op = "revokeAll" => row.st # "none"
    BY DEF Begin
  <2>5. op \in {"get", "refresh", "logout"} => row.st # "none"
    BY <1>1, <2>3 DEF Family
  <2> QED
    BY <2>1, <2>2, <2>4, <2>5 DEF Ops
<1>10. SecretKnown(proc[p])'
  BY <1>2, <1>4, <1>8, <1>9 DEF SecretKnown, history
<1>11. /\ Late # "no" => row.st = "revoked"
       /\ Late = "aged" => clock >= revokedAt + TTL
       /\ Late = "returned" => revokeDone
  BY DEF Late
<1>12. RevocationKnown(proc[p])'
  BY <1>1, <1>2, <1>4, <1>8, <1>11 DEF RevocationKnown, history
<1> QED
  BY <1>6, <1>7, <1>10, <1>12, OneMoves DEF Handler

\* A session is created, once.
LEMMA CreateInv ==
  ASSUME SessionInv, NEW p \in Procs, CreateUserSession(p)
  PROVE  SessionInv'
<1>1. /\ TypeOK /\ Family /\ CacheBounded /\ ReportedDenied /\ proc \in [Procs -> Handlers]
      /\ clock \in Nat /\ TTL \in Nat /\ newest \in Nat /\ row.cur \in Nat
      /\ faults \in Nat /\ lock \in Procs \cup {Nobody}
  BY Knows
<1>2. /\ row.st = "none" /\ UNCHANGED <<clock, cache, lock, faults>> /\ UNCHANGED history
      /\ row' = [st |-> "active", cur |-> 1, prev |-> 0, until |-> 0, exp |-> clock + SessionTTL]
      /\ Become(p, Started("create", "put", 0, clock + TTL, 0, "no"))
  BY DEF CreateUserSession
<1>3. Started("create", "put", 0, clock + TTL, 0, "no") \in Handlers
  <2>1. 0 \in 0..MaxSecret /\ clock + TTL \in Nat
    BY <1>1, SessionAssumption
  <2> QED
    BY <2>1, StartedType DEF Ops, Steps, Lateness
<1>4. /\ proc' \in [Procs -> Handlers]
      /\ proc'[p] = Started("create", "put", 0, clock + TTL, 0, "no")
      /\ \A q \in Procs : q # p => proc'[q] = proc[q]
  BY <1>1, <1>2, <1>3, BecomeAt
<1>5. row'.st = "active" /\ row'.cur = 1 /\ row'.prev = 0
  BY <1>2
<1>6. TypeOK'
  <2>1. row' \in [st: {"none", "active", "revoked"}, cur: 0..MaxSecret,
                  prev: 0..MaxSecret, until: Nat, exp: Nat]
    BY <1>1, <1>2, SessionAssumption
  <2> QED
    BY <1>1, <1>2, <1>4, <2>1 DEF TypeOK, history, Handlers
<1>7. newest' = 0 /\ row.cur = 0
  BY <1>1, <1>2 DEF Family, history
<1>8. Family'
  BY <1>5, <1>7 DEF Family
<1>9. CacheBounded'
  BY <1>1, <1>2, <1>5 DEF CacheBounded
<1>10. ReportedDenied' /\ ~Denied
  BY <1>1, <1>2 DEF ReportedDenied, Denied, history
<1>11. Evolves
  BY <1>1, <1>2, <1>5, <1>7, <1>10 DEF Evolves, history
<1>12. Shared
  BY <1>6, <1>8, <1>9, <1>10, <1>11 DEF Shared
<1>13. /\ proc'[p].op = "create" /\ proc'[p].pc = "put" /\ proc'[p].did = FALSE
       /\ proc'[p].secret = 0 /\ proc'[p].dl = clock + TTL /\ proc'[p].late = "no"
  BY <1>4 DEF Started
<1>14. SecretKnown(proc[p])'
  BY <1>5, <1>7, <1>13, SessionAssumption DEF SecretKnown
<1>15. RevocationKnown(proc[p])'
  BY <1>1, <1>2, <1>5, <1>13 DEF RevocationKnown
<1> QED
  BY <1>4, <1>12, <1>14, <1>15, OneMoves DEF Handler

\* getUserSessionCache.
LEMMA ReadCacheInv ==
  ASSUME SessionInv, NEW p \in Procs, ReadCache(p)
  PROVE  SessionInv'
<1>1. /\ TypeOK /\ CacheBounded /\ SecretKnown(proc[p]) /\ RevocationKnown(proc[p])
      /\ clock \in Nat /\ TTL \in Nat /\ faults \in 0..MaxFaults /\ faults \in Nat
      /\ lock \in Procs \cup {Nobody}
  BY Knows
<1>2. proc[p].pc = "cache" /\ UNCHANGED <<clock, row, cache, lock>>
  BY DEF ReadCache, At
<1>3. CASE cache.st = "active" /\ Proceed(p) /\ UNCHANGED faults
  <2>1. /\ proc' \in [Procs -> Handlers] /\ \A q \in Procs : q # p => proc'[q] = proc[q]
        /\ UNCHANGED <<revokedAt, revokeDone>>
        /\ newest' \in 0..MaxSecret /\ newest <= newest'
        /\ newest' = newest \/ (row.st # "none" /\ newest' <= row.cur)
        /\ \/ proc'[p] = Ended(TRUE)
           \/ /\ proc'[p] = [proc[p] EXCEPT !.pc = "user", !.dl = 0]
              /\ proc[p].op = "refresh" /\ ~proc[p].did
    BY <1>2, <1>3, ProceedEffect
  <2>2. CacheBounded' /\ (Denied => Denied')
    BY <1>1, <1>2, <2>1, CacheKept
  <2>3. cache' \in [st: {"none", "active", "revoking", "revoked"}, exp: Nat]
        /\ faults' \in 0..MaxFaults /\ faults <= faults'
    BY <1>1, <1>2, <1>3 DEF TypeOK
  <2>4. Shared
    BY <1>2, <2>1, <2>2, <2>3, CacheShared
  <2>5. Handler(proc[p])'
    BY <1>2, <2>1, <2>4, ProceedHandler
  <2> QED
    BY <2>1, <2>4, <2>5, OneMoves
<1>4. CASE Return(p, "inactive") /\ UNCHANGED <<faults, history>>
  BY <1>2, <1>4, ReturnQuiet
<1>5. CASE /\ \/ cache.st = "none" /\ UNCHANGED faults
              \/ RedisFault
           /\ Become(p, [proc[p] EXCEPT !.pc = "row", !.dl = clock + TTL])
           /\ UNCHANGED history
  <2>1. clock + TTL \in Nat /\ "row" \in Steps
    BY <1>1 DEF Steps
  <2>2. /\ proc' \in [Procs -> Handlers] /\ \A q \in Procs : q # p => proc'[q] = proc[q]
        /\ proc'[p].op = proc[p].op /\ proc'[p].secret = proc[p].secret
        /\ proc'[p].late = proc[p].late /\ proc'[p].did = proc[p].did
        /\ proc'[p].pc = "row" /\ proc'[p].dl \in {proc[p].dl, clock + TTL}
    BY <1>1, <1>5, <2>1, GotoEffect
  <2>3. faults' \in 0..MaxFaults /\ faults <= faults'
    BY <1>1, <1>5, FaultCounted
  <2>4. Shared
    BY <1>1, <1>2, <1>5, <2>2, <2>3, NothingShared
  <2>5. ~proc[p].did /\ proc[p].op \in {"get", "refresh", "create"}
    BY <1>1, <1>2 DEF SecretKnown
  <2>6. proc'[p].dl <= clock' + TTL
    BY <1>1, <1>2, <2>2 DEF RevocationKnown
  <2>7. Handler(proc[p])'
    BY <1>2, <2>2, <2>4, <2>5, <2>6, GoesOn
  <2> QED
    BY <2>2, <2>4, <2>7, OneMoves
<1> QED
  BY <1>3, <1>4, <1>5 DEF ReadCache

\* A step that only moves a handler on.
LEMMA QuietGoto ==
  ASSUME SessionInv, NEW p \in Procs, NEW pc \in Steps, NEW dl \in Nat, NEW now \in Nat,
         (\/ Goto(p, pc) \/ Become(p, [proc[p] EXCEPT !.pc = pc, !.dl = dl])
          \/ Become(p, [proc[p] EXCEPT !.pc = pc, !.now = now])),
         UNCHANGED <<clock, row, cache>>, UNCHANGED history, UNCHANGED faults,
         lock' \in {lock, p, Nobody},
         proc[p].pc # "idle", dl <= clock + TTL, pc # "tomb",
         proc[p].did => pc \in {"candidate", "fence", "commit"} /\ proc[p].pc \in {"candidate", "fence", "commit"},
         (pc \in {"cache", "row", "put", "confirm", "user", "rotate", "cas", "deny"} =>
            proc[p].op \in {"get", "refresh", "create"}),
         pc \in {"put", "confirm", "cas"} => row.st # "revoked"
  PROVE  SessionInv'
<1>1. /\ TypeOK /\ SecretKnown(proc[p]) /\ RevocationKnown(proc[p])
      /\ clock \in Nat /\ TTL \in Nat /\ faults \in 0..MaxFaults /\ faults \in Nat
      /\ lock \in Procs \cup {Nobody}
  BY Knows
<1>2. /\ proc' \in [Procs -> Handlers] /\ \A q \in Procs : q # p => proc'[q] = proc[q]
      /\ proc'[p].op = proc[p].op /\ proc'[p].secret = proc[p].secret
      /\ proc'[p].late = proc[p].late /\ proc'[p].did = proc[p].did
      /\ proc'[p].pc = pc /\ proc'[p].dl \in {proc[p].dl, dl}
  BY <1>1, GotoEffect
<1>3. lock' \in Procs \cup {Nobody} /\ faults <= faults' /\ faults' \in 0..MaxFaults
  BY <1>1
<1>4. Shared
  BY <1>2, <1>3, NothingShared
<1>5. proc'[p].dl <= clock' + TTL
  BY <1>1, <1>2 DEF RevocationKnown
<1>6. proc'[p].op = "refresh" /\ proc'[p].did => proc'[p].secret + 1 <= row'.cur
  BY <1>1, <1>2 DEF SecretKnown
<1>7. proc'[p].late # "no" => proc'[p].pc \notin {"put", "confirm", "cas"}
  BY <1>1, <1>2 DEF RevocationKnown
<1>8. proc[p].did /\ faults = 0 => Denied
  BY <1>1 DEF RevocationKnown
<1>9. proc'[p].did /\ faults' = 0 => Denied'
  BY <1>2, <1>8 DEF Denied, history
<1>10. Handler(proc[p])'
  BY <1>2, <1>4, <1>5, <1>6, <1>7, <1>9, GoesOn
<1> QED
  BY <1>2, <1>4, <1>10, OneMoves

\* The row is read after the window was opened.
LEMMA ReadRowInv ==
  ASSUME SessionInv, NEW p \in Procs, ReadRow(p)
  PROVE  SessionInv'
<1>1. /\ SecretKnown(proc[p]) /\ clock \in Nat /\ TTL \in Nat
  BY Knows
<1>2. proc[p].pc = "row" /\ UNCHANGED <<clock, row, cache, lock, faults>> /\ UNCHANGED history
  BY DEF ReadRow, At
<1>3. ~proc[p].did /\ proc[p].op \in {"get", "refresh", "create"}
  BY <1>1, <1>2 DEF SecretKnown
<1>4. \/ RowActive(clock) /\ Goto(p, "put")
      \/ Goto(p, "deny")
  BY DEF ReadRow
<1>5. "put" \in Steps /\ "deny" \in Steps /\ 0 \in Nat /\ 0 <= clock + TTL
  BY <1>1 DEF Steps
<1>6. CASE RowActive(clock) /\ Goto(p, "put")
  BY <1>2, <1>3, <1>5, <1>6, QuietGoto DEF RowActive
<1>7. CASE Goto(p, "deny")
  BY <1>2, <1>3, <1>5, <1>7, QuietGoto
<1> QED
  BY <1>4, <1>6, <1>7

\* A deny state is written, or Redis fails, and the history stays.
LEMMA DenyShared ==
  ASSUME SessionInv, NEW st \in {"revoking", "revoked"},
         (\/ Store(DenyEntry(st)) /\ UNCHANGED faults
          \/ RedisFault /\ (UNCHANGED cache \/ Store(DenyEntry(st)))),
         UNCHANGED <<clock, row>>, UNCHANGED history,
         UNCHANGED lock \/ lock' = Nobody, proc' \in [Procs -> Handlers]
  PROVE  Shared /\ (row.st = "revoked" /\ faults' = 0 => Denied')
<1>1. /\ TypeOK /\ CacheBounded /\ faults \in Nat /\ faults \in 0..MaxFaults
      /\ newest \in Nat /\ newest \in 0..MaxSecret
  BY Typed, SessionAssumption DEF SessionInv, TypeOK
<1>2. UNCHANGED revokedAt /\ row'.st = row.st /\ row'.exp = row.exp
  BY DEF history
<1>3. /\ faults' \in 0..MaxFaults /\ faults <= faults'
      /\ (faults' = 0 => Store(DenyEntry(st)))
  BY <1>1, FaultCounted
<1>4. CacheBounded' /\ (row.st = "revoked" /\ faults' = 0 => Denied')
  <2>1. CASE Store(DenyEntry(st))
    BY <1>1, <1>2, <2>1, CacheDenies
  <2>2. CASE UNCHANGED cache /\ faults' # 0
    BY <1>1, <1>2, <2>2, CacheKept
  <2> QED
    BY <1>3, <2>1, <2>2
<1>5. cache' \in [st: {"none", "active", "revoking", "revoked"}, exp: Nat]
  <2>1. CASE Store(DenyEntry(st))
    BY <1>1, <2>1, StoreDeny
  <2>2. CASE UNCHANGED cache
    BY <1>1, <2>2 DEF TypeOK
  <2> QED
    BY <2>1, <2>2
<1>6. Denied /\ faults' = 0 => Denied'
  BY <1>4 DEF Denied
<1>7. newest' = newest /\ newest <= newest' /\ newest' \in 0..MaxSecret
      /\ UNCHANGED <<revokedAt, revokeDone>>
  BY <1>1 DEF history
<1>8. Shared
  BY <1>3, <1>4, <1>5, <1>6, <1>7, CacheShared
<1> QED
  BY <1>4, <1>8

\* An inactive row is published.
LEMMA PublishInv ==
  ASSUME SessionInv, NEW p \in Procs, PublishInactive(p)
  PROVE  SessionInv'
<1>1. Return(p, "inactive") /\ UNCHANGED <<clock, row, lock>> /\ UNCHANGED history
  BY DEF PublishInactive, history
<1>2. \/ Store(DenyEntry("revoked")) /\ UNCHANGED faults
      \/ RedisFault /\ UNCHANGED cache
  BY DEF PublishInactive
<1>3. proc' \in [Procs -> Handlers]
  BY <1>1, ReturnEffect DEF SessionInv
<1>4. Shared
  BY <1>1, <1>2, <1>3, DenyShared
<1> QED
  BY <1>1, <1>4, ReturnInv

\* The script writes an active snapshot, or does not.
LEMMA PutShared ==
  ASSUME SessionInv, NEW p \in Procs, proc[p].pc = "put",
         (UNCHANGED cache \/ (~ScriptRefuses /\ Store(ActiveEntry(proc[p].dl)))),
         UNCHANGED <<clock, row, lock>>, UNCHANGED <<revokedAt, revokeDone>>,
         newest' \in 0..MaxSecret, newest <= newest',
         newest' = newest \/ (row.st # "none" /\ newest' <= row.cur),
         faults' \in 0..MaxFaults, faults <= faults',
         proc' \in [Procs -> Handlers]
  PROVE  Shared
<1>1. /\ TypeOK /\ CacheBounded /\ RevocationKnown(proc[p]) /\ proc[p].dl \in Nat
  BY Knows
<1>2. proc[p].dl <= clock + TTL /\ (row.st = "revoked" => proc[p].dl <= revokedAt + TTL)
  BY <1>1 DEF RevocationKnown
<1>3. CacheBounded' /\ (Denied => Denied')
        /\ cache' \in [st: {"none", "active", "revoking", "revoked"}, exp: Nat]
  <2>1. CASE UNCHANGED cache
    <3>1. cache' \in [st: {"none", "active", "revoking", "revoked"}, exp: Nat]
      BY <1>1, <2>1 DEF TypeOK
    <3> QED
      BY <1>1, <2>1, <3>1, CacheKept
  <2>2. CASE ~ScriptRefuses /\ Store(ActiveEntry(proc[p].dl))
    BY <1>1, <1>2, <2>2, CacheActivates, StoreActive
  <2> QED
    BY <2>1, <2>2
<1> QED
  BY <1>3, CacheShared

\* From the write of a snapshot to its confirmation.
LEMMA ToConfirm ==
  ASSUME SessionInv, Shared, NEW p \in Procs, proc[p].pc = "put", Goto(p, "confirm"),
         UNCHANGED <<clock, row>>, UNCHANGED revokedAt
  PROVE  SessionInv'
<1>1. /\ TypeOK /\ SecretKnown(proc[p]) /\ RevocationKnown(proc[p])
  BY Knows
<1>2. "confirm" \in Steps /\ 0 \in Nat
  BY DEF Steps
<1>3. /\ proc' \in [Procs -> Handlers] /\ \A q \in Procs : q # p => proc'[q] = proc[q]
      /\ proc'[p].op = proc[p].op /\ proc'[p].secret = proc[p].secret
      /\ proc'[p].late = proc[p].late /\ proc'[p].did = proc[p].did
      /\ proc'[p].pc = "confirm"
  BY <1>1, <1>2, GotoEffect
<1>4. proc'[p].dl = proc[p].dl
  BY <1>1, Typed DEF Goto, Become, Handlers
<1>5. Handler(proc[p])'
  BY <1>1, <1>3, <1>4, GoesOn DEF SecretKnown, RevocationKnown
<1> QED
  BY <1>3, <1>5, OneMoves

\* writeUserSessionCache of an active snapshot.
LEMMA PutActiveInv ==
  ASSUME SessionInv, NEW p \in Procs, PutActive(p)
  PROVE  SessionInv'
<1>1. /\ TypeOK /\ faults \in 0..MaxFaults /\ faults \in Nat /\ newest \in Nat
      /\ newest \in 0..MaxSecret
  BY Knows, SessionAssumption DEF TypeOK
<1>2. proc[p].pc = "put" /\ UNCHANGED <<clock, row, lock>>
  BY DEF PutActive, At
<1> DEFINE written == UNCHANGED cache \/ (~ScriptRefuses /\ Store(ActiveEntry(proc[p].dl)))
<1>3. ASSUME written, Proceed(p), UNCHANGED faults \/ RedisFault PROVE SessionInv'
  <2>1. /\ proc' \in [Procs -> Handlers] /\ \A q \in Procs : q # p => proc'[q] = proc[q]
        /\ UNCHANGED <<revokedAt, revokeDone>>
        /\ newest' \in 0..MaxSecret /\ newest <= newest'
        /\ newest' = newest \/ (row.st # "none" /\ newest' <= row.cur)
        /\ \/ proc'[p] = Ended(TRUE)
           \/ /\ proc'[p] = [proc[p] EXCEPT !.pc = "user", !.dl = 0]
              /\ proc[p].op = "refresh" /\ ~proc[p].did
    BY <1>2, <1>3, ProceedEffect
  <2>2. faults' \in 0..MaxFaults /\ faults <= faults'
    BY <1>1, <1>3, FaultCounted
  <2>3. Shared
    BY <1>2, <1>3, <2>1, <2>2, PutShared
  <2>4. Handler(proc[p])'
    BY <1>2, <2>1, <2>3, ProceedHandler
  <2> QED
    BY <2>1, <2>3, <2>4, OneMoves
<1>4. ASSUME written, Goto(p, "confirm"), UNCHANGED <<faults, history>> PROVE SessionInv'
  <2>1. proc' \in [Procs -> Handlers]
    <3>1. "confirm" \in Steps /\ 0 \in Nat
      BY DEF Steps
    <3> QED
      BY <1>1, <1>4, <3>1, GotoEffect
  <2>2. /\ UNCHANGED <<revokedAt, revokeDone>> /\ newest' = newest
        /\ newest' \in 0..MaxSecret /\ newest <= newest'
        /\ faults' \in 0..MaxFaults /\ faults <= faults'
    BY <1>1, <1>4 DEF history
  <2>3. Shared
    BY <1>2, <1>4, <2>1, <2>2, PutShared
  <2> QED
    BY <1>2, <1>4, <2>2, <2>3, ToConfirm
<1>5. ASSUME Return(p, "inactive"), UNCHANGED <<cache, faults, history>> PROVE SessionInv'
  BY <1>2, <1>5, ReturnQuiet
<1> QED
  BY <1>2, <1>3, <1>4, <1>5 DEF PutActive, Deadline

\* confirmUserSessionActiveSnapshot.
LEMMA ConfirmInv ==
  ASSUME SessionInv, NEW p \in Procs, Confirm(p)
  PROVE  SessionInv'
<1>1. /\ TypeOK /\ CacheBounded /\ faults \in 0..MaxFaults /\ faults \in Nat
  BY Knows
<1>2. proc[p].pc = "confirm" /\ UNCHANGED <<clock, row, cache, lock, faults>>
  BY DEF Confirm, At
<1>3. CASE Proceed(p)
  <2>1. /\ proc' \in [Procs -> Handlers] /\ \A q \in Procs : q # p => proc'[q] = proc[q]
        /\ UNCHANGED <<revokedAt, revokeDone>>
        /\ newest' \in 0..MaxSecret /\ newest <= newest'
        /\ newest' = newest \/ (row.st # "none" /\ newest' <= row.cur)
        /\ \/ proc'[p] = Ended(TRUE)
           \/ /\ proc'[p] = [proc[p] EXCEPT !.pc = "user", !.dl = 0]
              /\ proc[p].op = "refresh" /\ ~proc[p].did
    BY <1>2, <1>3, ProceedEffect
  <2>2. CacheBounded' /\ (Denied => Denied')
    BY <1>1, <1>2, <2>1, CacheKept
  <2>3. /\ cache' \in [st: {"none", "active", "revoking", "revoked"}, exp: Nat]
        /\ faults' \in 0..MaxFaults /\ faults <= faults'
    BY <1>1, <1>2 DEF TypeOK
  <2>4. Shared
    BY <1>2, <2>1, <2>2, <2>3, CacheShared
  <2>5. Handler(proc[p])'
    BY <1>2, <2>1, <2>4, ProceedHandler
  <2> QED
    BY <2>1, <2>4, <2>5, OneMoves
<1>4. CASE Return(p, "inactive") /\ UNCHANGED history
  BY <1>2, <1>4, ReturnQuiet
<1> QED
  BY <1>3, <1>4 DEF Confirm

\* The user's status decides.
LEMMA CheckUserInv ==
  ASSUME SessionInv, NEW p \in Procs, CheckUser(p)
  PROVE  SessionInv'
<1>1. SecretKnown(proc[p]) /\ clock \in Nat /\ TTL \in Nat
  BY Knows
<1>2. /\ proc[p].pc = "user" /\ UNCHANGED <<clock, row, cache>> /\ UNCHANGED history
      /\ UNCHANGED faults /\ UNCHANGED lock
  BY DEF CheckUser, At
<1>3. ~proc[p].did /\ proc[p].op \in {"get", "refresh", "create"}
  BY <1>1, <1>2 DEF SecretKnown
<1>4. PICK pc \in {"rotate", "candidate"} : Become(p, [proc[p] EXCEPT !.pc = pc, !.now = clock])
  BY DEF CheckUser
<1>5. pc \in Steps /\ 0 \in Nat /\ 0 <= clock + TTL
  BY <1>1, <1>4 DEF Steps
<1> QED
  BY <1>1, <1>2, <1>3, <1>4, <1>5, QuietGoto

\* One attempt of the rotation reads the row.
LEMMA RotateReadInv ==
  ASSUME SessionInv, NEW p \in Procs, RotateRead(p)
  PROVE  SessionInv'
<1>1. /\ TypeOK /\ Family /\ CacheBounded /\ SecretKnown(proc[p]) /\ clock \in Nat /\ TTL \in Nat
      /\ newest \in Nat /\ row.cur \in Nat /\ proc[p].secret \in Nat
      /\ faults \in 0..MaxFaults /\ faults \in Nat
  BY Knows
<1>2. /\ proc[p].pc = "rotate" /\ UNCHANGED <<clock, row, cache>> /\ UNCHANGED faults
      /\ UNCHANGED lock /\ UNCHANGED <<revokedAt, revokeDone>>
  BY DEF RotateRead, At
<1>3. ~proc[p].did /\ proc[p].op \in {"get", "refresh", "create"}
  BY <1>1, <1>2 DEF SecretKnown
<1>4. ASSUME NEW res, Return(p, res), UNCHANGED newest PROVE SessionInv'
  BY <1>2, <1>4, ReturnQuiet DEF history
<1>5. CASE /\ RowActive(proc[p].now)
           /\ Become(p, [proc[p] EXCEPT !.pc = "cas", !.dl = clock + TTL]) /\ UNCHANGED newest
  <2>1. "cas" \in Steps /\ clock + TTL \in Nat /\ clock + TTL <= clock + TTL /\ 0 \in Nat
    BY <1>1 DEF Steps
  <2>2. row.st # "revoked"
    BY <1>5 DEF RowActive
  <2> QED
    BY <1>2, <1>3, <1>5, <2>1, <2>2, QuietGoto DEF history
<1>6. CASE Goto(p, "fence") /\ UNCHANGED newest
  <2>1. "fence" \in Steps /\ 0 \in Nat /\ 0 <= clock + TTL
    BY <1>1 DEF Steps
  <2> QED
    BY <1>2, <1>3, <1>6, <2>1, QuietGoto DEF history
<1>7. CASE /\ RowActive(proc[p].now) /\ row.cur = proc[p].secret + 1
           /\ Return(p, "issued") /\ newest' = Max({newest, proc[p].secret + 1})
  <2>1. newest' \in {newest, row.cur} /\ newest' >= newest /\ newest \in Nat
    BY <1>1, <1>7, MaxPair
  <2>2. row.st # "none"
    BY <1>7 DEF RowActive
  <2>3. newest <= row.cur
    BY <1>1, <2>2 DEF Family
  <2>4. row.cur <= MaxSecret /\ newest <= MaxSecret /\ MaxSecret \in Nat
    BY <1>1, Typed
  <2>5. newest' \in 0..MaxSecret /\ newest <= newest' /\ newest' <= row.cur
    BY <1>1, <2>1, <2>3, <2>4
  <2>6. proc' \in [Procs -> Handlers]
    BY <1>1, <1>7, ReturnEffect
  <2>7. CacheBounded' /\ (Denied => Denied')
    BY <1>1, <1>2, CacheKept
  <2>8. /\ cache' \in [st: {"none", "active", "revoking", "revoked"}, exp: Nat]
        /\ faults' \in 0..MaxFaults /\ faults <= faults'
    BY <1>1, <1>2 DEF TypeOK
  <2>9. Shared
    BY <1>2, <2>2, <2>5, <2>6, <2>7, <2>8, CacheShared
  <2> QED
    BY <1>7, <2>9, ReturnInv
<1> QED
  BY <1>4, <1>5, <1>6, <1>7 DEF RotateRead

\* The compare-and-swap: it succeeds only for the secret the row expects,
\* which is then the newest that was handed out.
LEMMA RotateSwapInv ==
  ASSUME SessionInv, NEW p \in Procs, RotateSwap(p)
  PROVE  SessionInv'
<1>1. /\ TypeOK /\ Family /\ CacheBounded /\ ReportedDenied
      /\ SecretKnown(proc[p]) /\ RevocationKnown(proc[p])
      /\ proc \in [Procs -> Handlers] /\ proc[p] \in Handlers
      /\ proc[p].secret \in Nat /\ proc[p].now \in Nat
      /\ clock \in Nat /\ TTL \in Nat /\ newest \in Nat /\ row.cur \in Nat
      /\ faults \in 0..MaxFaults /\ faults \in Nat /\ lock \in Procs \cup {Nobody}
  BY Knows
<1>2. /\ proc[p].pc = "cas" /\ UNCHANGED <<clock, cache, lock, faults>> /\ UNCHANGED history
  BY DEF RotateSwap, At
<1>3. ~proc[p].did /\ proc[p].op \in {"get", "refresh", "create"} /\ proc[p].late = "no"
  BY <1>1, <1>2 DEF SecretKnown, RevocationKnown
<1>4. CASE DigestMatches(p)
  <2>1. /\ row.st = "active" /\ row.cur = proc[p].secret
        /\ row' = [row EXCEPT !.cur = proc[p].secret + 1, !.prev = proc[p].secret,
                              !.until = proc[p].now + Grace]
        /\ Become(p, [proc[p] EXCEPT !.pc = "put", !.did = TRUE])
    BY <1>4 DEF RotateSwap, DigestMatches, RowActive
  <2>2. [proc[p] EXCEPT !.pc = "put", !.did = TRUE] \in Handlers
    BY <1>1, GoneOn DEF Steps
  <2>3. /\ proc' \in [Procs -> Handlers] /\ \A q \in Procs : q # p => proc'[q] = proc[q]
        /\ proc'[p] = [proc[p] EXCEPT !.pc = "put", !.did = TRUE]
    BY <1>1, <2>1, <2>2, BecomeAt
  <2>4. /\ proc'[p].op = proc[p].op /\ proc'[p].secret = proc[p].secret
        /\ proc'[p].late = proc[p].late /\ proc'[p].did = TRUE
        /\ proc'[p].pc = "put" /\ proc'[p].dl = proc[p].dl
    BY <1>1, <2>3 DEF Handlers
  <2>5. row \in [st: {"none", "active", "revoked"}, cur: 0..MaxSecret,
                 prev: 0..MaxSecret, until: Nat, exp: Nat]
    BY <1>1 DEF TypeOK
  <2>6. /\ proc[p].secret \in 0..MaxSecret /\ proc[p].secret + 1 \in 0..MaxSecret
        /\ proc[p].now + Grace \in Nat
    BY <1>1, SessionAssumption DEF SecretKnown
  <2>7. /\ row' \in [st: {"none", "active", "revoked"}, cur: 0..MaxSecret,
                     prev: 0..MaxSecret, until: Nat, exp: Nat]
        /\ row'.st = row.st /\ row'.exp = row.exp
        /\ row'.cur = proc[p].secret + 1 /\ row'.prev = proc[p].secret
    BY <2>1, <2>5, <2>6
  <2>8. TypeOK'
    BY <1>1, <1>2, <2>3, <2>7 DEF TypeOK, history, Handlers
  <2>9. newest = proc[p].secret
    BY <1>1, <2>1 DEF SecretKnown, Family
  <2>10. Family'
    BY <1>1, <1>2, <2>1, <2>7, <2>9 DEF Family, history
  <2>11. CacheBounded' /\ (Denied => Denied')
    BY <1>1, <1>2, <2>7, CacheKept DEF history
  <2>12. ReportedDenied'
    BY <1>1, <1>2, <2>11 DEF ReportedDenied, history
  <2>13. Evolves
    BY <1>1, <1>2, <2>1, <2>7, <2>11 DEF Evolves, history
  <2>14. Shared
    BY <2>8, <2>10, <2>11, <2>12, <2>13 DEF Shared
  <2>15. proc'[p].dl <= clock' + TTL
    BY <1>1, <1>2, <2>4 DEF RevocationKnown
  <2>16. proc'[p].secret + 1 <= row'.cur
    BY <1>1, <2>4, <2>7
  <2>17. Handler(proc[p])'
    BY <1>2, <1>3, <2>1, <2>4, <2>7, <2>14, <2>15, <2>16, GoesOn
  <2> QED
    BY <2>3, <2>14, <2>17, OneMoves
<1>5. CASE ~DigestMatches(p) /\ ~(proc[p].tries + 1 < MaxTries)
  BY <1>2, <1>5, ReturnQuiet DEF RotateSwap
<1>6. CASE ~DigestMatches(p) /\ proc[p].tries + 1 < MaxTries
  <2> DEFINE n == [proc[p] EXCEPT !.pc = "rotate", !.tries = @ + 1]
  <2>1. Become(p, n) /\ UNCHANGED row
    BY <1>6 DEF RotateSwap
  <2>2. proc[p].tries + 1 \in 0..MaxTries
    BY <1>1, <1>6, HandlerFields, SessionAssumption
  <2>3. n \in Handlers
    BY <1>1, <2>2 DEF Handlers, Steps
  <2>4. /\ n.op = proc[p].op /\ n.secret = proc[p].secret /\ n.late = proc[p].late
        /\ n.did = proc[p].did /\ n.pc = "rotate" /\ n.dl = proc[p].dl
    BY <1>1 DEF Handlers
  <2>5. /\ proc' \in [Procs -> Handlers] /\ \A q \in Procs : q # p => proc'[q] = proc[q]
        /\ proc'[p] = n
    BY <1>1, <2>1, <2>3, BecomeAt
  <2> HIDE DEF n
  <2>6. faults' \in 0..MaxFaults /\ faults <= faults' /\ lock' \in Procs \cup {Nobody}
    BY <1>1, <1>2
  <2>7. Shared
    BY <1>2, <2>1, <2>5, <2>6, NothingShared
  <2>8. proc'[p].dl <= clock' + TTL
    BY <1>1, <1>2, <2>4, <2>5 DEF RevocationKnown
  <2>9. Handler(proc[p])'
    BY <1>2, <1>3, <2>4, <2>5, <2>7, <2>8, GoesOn
  <2> QED
    BY <2>5, <2>7, <2>9, OneMoves
<1> QED
  BY <1>4, <1>5, <1>6

\* RevokeUserSession looks for an active row.
LEMMA CandidateInv ==
  ASSUME SessionInv, NEW p \in Procs, ReadCandidate(p)
  PROVE  SessionInv'
<1>1. /\ TypeOK /\ Family /\ CacheBounded /\ ReportedDenied
      /\ SecretKnown(proc[p]) /\ RevocationKnown(proc[p]) /\ clock \in Nat /\ TTL \in Nat
      /\ proc[p] \in Handlers /\ faults \in 0..MaxFaults /\ faults \in Nat
  BY Knows
<1>2. /\ proc[p].pc = "candidate" /\ UNCHANGED <<clock, row, cache, lock, faults>>
      /\ UNCHANGED <<newest, revokedAt>>
  BY DEF ReadCandidate, At
<1>3. CASE Goto(p, "fence") /\ UNCHANGED revokeDone
  <2>1. "fence" \in Steps /\ 0 \in Nat /\ 0 <= clock + TTL
    BY <1>1 DEF Steps
  <2> QED
    BY <1>2, <1>3, <2>1, QuietGoto DEF history
<1>4. ASSUME NEW res, Return(p, res), revokeDone' = (revokeDone \/ proc[p].did)
      PROVE  SessionInv'
  <2>1. proc' \in [Procs -> Handlers]
    BY <1>1, <1>4, ReturnEffect
  <2>2. revokeDone' \in BOOLEAN
    BY <1>4
  <2>3. TypeOK'
    BY <1>1, <1>2, <2>1, <2>2 DEF TypeOK, Handlers
  <2>4. CacheBounded' /\ (Denied => Denied')
    BY <1>1, <1>2, CacheKept
  <2>5. Family'
    BY <1>1, <1>2 DEF Family
  <2>6. ReportedDenied'
    BY <1>1, <1>2, <1>4, <2>4 DEF ReportedDenied, RevocationKnown
  <2>7. Evolves
    <3>1. newest \in Nat /\ clock \in Nat /\ row.cur \in Nat /\ faults \in Nat
      BY Knows
    <3>2. revokeDone => revokeDone'
      BY <1>4
    <3> QED
      BY <1>2, <2>4, <3>1, <3>2 DEF Evolves
  <2>8. Shared
    BY <2>3, <2>4, <2>5, <2>6, <2>7 DEF Shared
  <2> QED
    BY <1>4, <2>8, ReturnInv
<1> QED
  BY <1>3, <1>4 DEF ReadCandidate

\* RevokeUserSessionByRefreshHash locks the row.
LEMMA LogoutInv ==
  ASSUME SessionInv, NEW p \in Procs, LogoutLock(p)
  PROVE  SessionInv'
<1>1. SecretKnown(proc[p]) /\ clock \in Nat /\ TTL \in Nat
  BY Knows
<1>2. proc[p].pc = "locked" /\ UNCHANGED <<clock, row, cache, faults>> /\ UNCHANGED history
  BY DEF LogoutLock, At
<1>3. ~proc[p].did
  BY <1>1, <1>2 DEF SecretKnown
<1>4. CASE lock' = p /\ Goto(p, "fence")
  <2>1. "fence" \in Steps /\ 0 \in Nat /\ 0 <= clock + TTL
    BY <1>1 DEF Steps
  <2> QED
    BY <1>2, <1>3, <1>4, <2>1, QuietGoto
<1>5. CASE UNCHANGED lock /\ Return(p, "unchanged")
  BY <1>2, <1>5, ReturnQuiet
<1> QED
  BY <1>4, <1>5 DEF LogoutLock

\* writeUserSessionDenyFence.
LEMMA FenceInv ==
  ASSUME SessionInv, NEW p \in Procs, WriteFence(p)
  PROVE  SessionInv'
<1>1. /\ TypeOK /\ SecretKnown(proc[p]) /\ RevocationKnown(proc[p])
      /\ clock \in Nat /\ TTL \in Nat /\ proc[p].dl \in Nat
  BY Knows
<1>2. proc[p].pc = "fence" /\ UNCHANGED <<clock, row>> /\ UNCHANGED history
  BY DEF WriteFence, At, history
<1>3. CASE Store(DenyEntry("revoking")) /\ Goto(p, "commit") /\ UNCHANGED <<lock, faults>>
  <2>1. "commit" \in Steps /\ 0 \in Nat
    BY DEF Steps
  <2>2. /\ proc' \in [Procs -> Handlers] /\ \A q \in Procs : q # p => proc'[q] = proc[q]
        /\ proc'[p].op = proc[p].op /\ proc'[p].secret = proc[p].secret
        /\ proc'[p].late = proc[p].late /\ proc'[p].did = proc[p].did
        /\ proc'[p].pc = "commit" /\ proc'[p].dl \in {proc[p].dl, 0}
    BY <1>1, <1>3, <2>1, GotoEffect
  <2>3. Shared /\ (row.st = "revoked" /\ faults' = 0 => Denied')
    BY <1>2, <1>3, <2>2, DenyShared
  <2>4. proc'[p].dl <= clock' + TTL
    BY <1>1, <1>2, <2>2 DEF RevocationKnown
  <2>5. proc'[p].op = "refresh" /\ proc'[p].did => proc'[p].secret + 1 <= row'.cur
    BY <1>1, <1>2, <2>2 DEF SecretKnown
  <2>6. proc[p].did /\ faults = 0 => row.st = "revoked"
    BY <1>1, <1>2 DEF RevocationKnown, Denied
  <2>7. proc'[p].did /\ faults' = 0 => Denied'
    BY <1>3, <2>2, <2>3, <2>6
  <2>8. Handler(proc[p])'
    BY <1>2, <2>2, <2>3, <2>4, <2>5, <2>7, GoesOn
  <2> QED
    BY <2>2, <2>3, <2>8, OneMoves
<1>4. CASE /\ RedisFault /\ (UNCHANGED cache \/ Store(DenyEntry("revoking")))
           /\ lock' = (IF lock = p THEN Nobody ELSE lock) /\ Return(p, "error")
  <2>1. proc' \in [Procs -> Handlers]
    BY <1>1, <1>4, ReturnEffect
  <2>2. UNCHANGED lock \/ lock' = Nobody
    BY <1>4
  <2>3. Shared
    BY <1>2, <1>4, <2>1, <2>2, DenyShared
  <2> QED
    BY <1>4, <2>3, ReturnInv
<1> QED
  BY <1>3, <1>4 DEF WriteFence

\* The row is revoked: from now on no snapshot is younger than the revocation.
LEMMA CommitInv ==
  ASSUME SessionInv, NEW p \in Procs, CommitRevoke(p)
  PROVE  SessionInv'
<1>1. /\ TypeOK /\ Family /\ CacheBounded /\ ReportedDenied
      /\ SecretKnown(proc[p]) /\ RevocationKnown(proc[p])
      /\ proc[p].dl \in Nat
      /\ clock \in Nat /\ TTL \in Nat /\ newest \in Nat /\ row.cur \in Nat
      /\ faults \in 0..MaxFaults /\ faults \in Nat
  BY Knows
<1>2. /\ proc[p].pc = "commit" /\ lock' = Nobody /\ UNCHANGED <<clock, cache, faults>>
      /\ UNCHANGED <<newest, revokeDone>>
  BY DEF CommitRevoke, At
<1>3. CASE /\ RowActive(proc[p].now) /\ row' = [row EXCEPT !.st = "revoked"]
           /\ revokedAt' = clock /\ Goto(p, "tomb")
  <2>1. "tomb" \in Steps /\ 0 \in Nat
    BY DEF Steps
  <2>2. /\ proc' \in [Procs -> Handlers] /\ \A q \in Procs : q # p => proc'[q] = proc[q]
        /\ proc'[p].op = proc[p].op /\ proc'[p].secret = proc[p].secret
        /\ proc'[p].late = proc[p].late /\ proc'[p].did = proc[p].did
        /\ proc'[p].pc = "tomb" /\ proc'[p].dl \in {proc[p].dl, 0}
    BY <1>1, <1>3, <2>1, GotoEffect
  <2>3. row \in [st: {"none", "active", "revoked"}, cur: 0..MaxSecret,
                 prev: 0..MaxSecret, until: Nat, exp: Nat]
    BY <1>1 DEF TypeOK
  <2>4. /\ row' \in [st: {"none", "active", "revoked"}, cur: 0..MaxSecret,
                     prev: 0..MaxSecret, until: Nat, exp: Nat]
        /\ row'.st = "revoked" /\ row'.cur = row.cur /\ row'.prev = row.prev /\ row.st = "active"
    BY <1>3, <2>3 DEF RowActive
  <2>5. revokedAt' \in 0..Never
    BY <1>1, <1>3, SessionAssumption DEF TypeOK, Never
  <2>6. TypeOK'
    BY <1>1, <1>2, <2>2, <2>4, <2>5 DEF TypeOK, Handlers
  <2>7. Family'
    BY <1>1, <1>2, <2>4 DEF Family
  <2>8. CacheBounded'
    BY <1>1, <1>2, <1>3, <2>4 DEF CacheBounded
  <2>9. ~Denied
    BY <2>4 DEF Denied
  <2>10. ReportedDenied'
    BY <1>1, <1>2, <2>9 DEF ReportedDenied
  <2>11. Evolves
    BY <1>1, <1>2, <1>3, <2>4, <2>9 DEF Evolves
  <2>12. Shared
    BY <2>6, <2>7, <2>8, <2>10, <2>11 DEF Shared
  <2>13. proc'[p].dl <= clock' + TTL
    BY <1>1, <1>2, <2>2 DEF RevocationKnown
  <2>14. proc'[p].op = "refresh" /\ proc'[p].did => proc'[p].secret + 1 <= row'.cur
    BY <1>1, <2>2, <2>4 DEF SecretKnown
  <2>15. ~(proc'[p].did /\ faults' = 0)
    BY <1>1, <1>2, <2>2, <2>9 DEF RevocationKnown
  <2>16. Handler(proc[p])'
    BY <1>2, <2>2, <2>4, <2>12, <2>13, <2>14, <2>15, GoesOn
  <2> QED
    BY <2>2, <2>12, <2>16, OneMoves
<1>4. CASE UNCHANGED <<row, revokedAt>> /\ Goto(p, "candidate")
  <2>1. "candidate" \in Steps /\ 0 \in Nat /\ 0 <= clock + TTL
    BY <1>1 DEF Steps
  <2> QED
    BY <1>2, <1>4, <2>1, QuietGoto DEF history
<1>5. ASSUME UNCHANGED <<row, revokedAt>>, NEW res, Return(p, res) PROVE SessionInv'
  <2>1. proc' \in [Procs -> Handlers]
    BY <1>1, <1>5, ReturnEffect
  <2>2. faults' \in 0..MaxFaults /\ faults <= faults' /\ lock' \in Procs \cup {Nobody}
    BY <1>1, <1>2
  <2>3. Shared
    BY <1>2, <1>5, <2>1, <2>2, NothingShared DEF history
  <2> QED
    BY <1>5, <2>3, ReturnInv
<1> QED
  BY <1>3, <1>4, <1>5 DEF CommitRevoke

\* The tombstone is written, or Redis has failed; a revocation is reported.
LEMMA TombstoneInv ==
  ASSUME SessionInv, NEW p \in Procs, WriteTombstone(p)
  PROVE  SessionInv'
<1>1. /\ TypeOK /\ Family /\ CacheBounded /\ ReportedDenied
      /\ SecretKnown(proc[p]) /\ RevocationKnown(proc[p])
      /\ proc[p] \in Handlers /\ proc[p].dl \in Nat
      /\ clock \in Nat /\ TTL \in Nat /\ newest \in Nat /\ row.cur \in Nat
      /\ faults \in 0..MaxFaults /\ faults \in Nat
      /\ proc \in [Procs -> Handlers]
  BY Knows, Typed
<1>2. /\ proc[p].pc = "tomb" /\ UNCHANGED <<clock, row, lock>> /\ UNCHANGED <<newest, revokedAt>>
  BY DEF WriteTombstone, At
<1>3. row.st = "revoked"
  BY <1>1, <1>2 DEF RevocationKnown
<1>4. /\ cache' \in [st: {"none", "active", "revoking", "revoked"}, exp: Nat]
      /\ CacheBounded' /\ faults' \in 0..MaxFaults /\ faults <= faults'
      /\ faults' = 0 => Denied'
  <2>1. CASE Store(DenyEntry("revoked")) /\ UNCHANGED faults
    <3>1. cache' \in [st: {"none", "active", "revoking", "revoked"}, exp: Nat]
      BY <1>1, <2>1, StoreDeny
    <3>2. CacheBounded' /\ Denied'
      BY <1>1, <1>2, <1>3, <2>1, CacheDenies
    <3> QED
      BY <1>1, <2>1, <3>1, <3>2
  <2>2. CASE RedisFault /\ UNCHANGED cache
    <3>1. faults' \in 0..MaxFaults /\ faults <= faults' /\ faults' # 0
      BY <1>1, <2>2, SessionAssumption DEF RedisFault
    <3>2. CacheBounded'
      BY <1>1, <1>2, <2>2, CacheKept
    <3>3. cache' \in [st: {"none", "active", "revoking", "revoked"}, exp: Nat]
      BY <1>1, <2>2 DEF TypeOK
    <3> QED
      BY <3>1, <3>2, <3>3
  <2> QED
    BY <2>1, <2>2 DEF WriteTombstone
<1>5. Family'
  BY <1>1, <1>2 DEF Family
<1>6. ASSUME proc' \in [Procs -> Handlers], revokeDone' \in BOOLEAN, revokeDone => revokeDone'
      PROVE  Shared
  <2>1. TypeOK'
    BY <1>1, <1>2, <1>4, <1>6 DEF TypeOK, Handlers
  <2>2. ReportedDenied'
    BY <1>4 DEF ReportedDenied
  <2>3. Evolves
    BY <1>1, <1>2, <1>4, <1>6 DEF Evolves
  <2> QED
    BY <1>4, <1>5, <2>1, <2>2, <2>3 DEF Shared
<1>7. CASE /\ Become(p, [proc[p] EXCEPT !.pc = "candidate", !.did = TRUE])
           /\ UNCHANGED revokeDone /\ proc[p].op = "revokeAll"
  <2> DEFINE n == [proc[p] EXCEPT !.pc = "candidate", !.did = TRUE]
  <2>1. n \in Handlers
    BY <1>1, GoneOn DEF Steps
  <2>2. /\ n.op = proc[p].op /\ n.secret = proc[p].secret /\ n.late = proc[p].late
        /\ n.did = TRUE /\ n.pc = "candidate" /\ n.dl = proc[p].dl
    BY <1>1 DEF Handlers
  <2>3. /\ proc' \in [Procs -> Handlers] /\ \A q \in Procs : q # p => proc'[q] = proc[q]
        /\ proc'[p] = n
    BY <1>1, <1>7, <2>1, BecomeAt
  <2> HIDE DEF n
  <2>4. Shared
    BY <1>1, <1>6, <1>7, <2>3 DEF TypeOK
  <2>5. proc'[p].dl <= clock' + TTL
    BY <1>1, <1>2, <2>2, <2>3 DEF RevocationKnown
  <2>6. Handler(proc[p])'
    BY <1>2, <1>4, <1>7, <2>2, <2>3, <2>4, <2>5, GoesOn
  <2> QED
    BY <2>3, <2>4, <2>6, OneMoves
<1>8. CASE Return(p, "revoked") /\ revokeDone' = TRUE
  <2>1. proc' \in [Procs -> Handlers]
    BY <1>1, <1>8, ReturnEffect
  <2>2. Shared
    BY <1>6, <1>8, <2>1
  <2> QED
    BY <1>8, <2>2, ReturnInv
<1> QED
  BY <1>7, <1>8 DEF WriteTombstone

\* No handler moves.
LEMMA NobodyMoves ==
  ASSUME SessionInv, Shared, UNCHANGED proc
  PROVE  SessionInv'
<1>1. TypeOK /\ TypeOK' /\ Evolves /\ proc \in [Procs -> Handlers]
  BY Typed DEF SessionInv, Shared
<1>2. \A r \in Handlers : Handler(r) => Handler(r)'
  BY <1>1, OthersKnow
<1>3. ASSUME NEW q \in Procs PROVE Handler(proc[q])'
  <2>1. Handler(proc[q]) /\ proc[q] \in Handlers /\ proc'[q] = proc[q]
    BY <1>1 DEF SessionInv
  <2> QED
    BY <1>2, <2>1 DEF Handler, SecretKnown, RevocationKnown
<1> QED
  BY <1>3 DEF SessionInv, Shared

\* Redis loses the key.
LEMMA LoseInv ==
  ASSUME SessionInv, LoseCache
  PROVE  SessionInv'
<1>1. /\ TypeOK /\ Family /\ CacheBounded /\ ReportedDenied
  BY DEF SessionInv
<1>2. /\ clock \in Nat /\ newest \in Nat /\ row.cur \in Nat /\ faults \in Nat
      /\ MaxFaults \in Nat /\ faults \in 0..MaxFaults
  BY <1>1, Typed, SessionAssumption DEF TypeOK
<1>3. /\ UNCHANGED <<clock, row, lock, proc>> /\ UNCHANGED history
      /\ cache' = [st |-> "none", exp |-> 0] /\ faults' = faults + 1 /\ faults < MaxFaults
  BY DEF LoseCache, RedisFault, Miss
<1>4. faults' \in 0..MaxFaults /\ faults' # 0 /\ faults <= faults'
  BY <1>2, <1>3
<1>5. TypeOK'
  BY <1>1, <1>3, <1>4 DEF TypeOK, history
<1>6. Family' /\ CacheBounded' /\ ReportedDenied'
  BY <1>1, <1>3, <1>4 DEF Family, CacheBounded, ReportedDenied, history
<1>7. Evolves
  BY <1>2, <1>3, <1>4 DEF Evolves, history
<1> QED
  BY <1>3, <1>5, <1>6, <1>7, NobodyMoves DEF Shared

\* Time passes: an entry is gone before it is older than its lifetime, and a
\* deny state that goes was no longer needed.
LEMMA TickInv ==
  ASSUME SessionInv, Tick
  PROVE  SessionInv'
<1>1. /\ TypeOK /\ Family /\ CacheBounded /\ ReportedDenied
  BY DEF SessionInv
<1>2. /\ clock \in Nat /\ newest \in Nat /\ row.cur \in Nat /\ faults \in Nat /\ row.exp \in Nat
      /\ MaxClock \in Nat /\ TTL \in Nat /\ revokedAt \in Nat /\ cache.exp \in Nat
      /\ cache.st \in {"none", "active", "revoking", "revoked"}
  BY <1>1, Typed
<1>3. /\ UNCHANGED <<row, lock, proc, faults>> /\ UNCHANGED history
      /\ clock' = clock + 1 /\ clock < MaxClock
      /\ \/ UNCHANGED cache /\ cache.exp > clock'
         \/ cache' = [st |-> "none", exp |-> 0] /\ cache.exp <= clock'
  BY <1>2 DEF Tick, Miss
<1>4. UNCHANGED newest /\ UNCHANGED revokedAt /\ UNCHANGED revokeDone
  BY <1>3 DEF history
<1>5. TypeOK'
  <2>1. clock' \in 0..MaxClock
    BY <1>2, <1>3
  <2>2. cache' \in [st: {"none", "active", "revoking", "revoked"}, exp: Nat]
    BY <1>1, <1>3 DEF TypeOK
  <2> QED
    BY <1>1, <1>3, <1>4, <2>1, <2>2 DEF TypeOK
<1>6. Family'
  BY <1>1, <1>3, <1>4 DEF Family
<1>7. CacheBounded'
  BY <1>1, <1>2, <1>3, <1>4 DEF CacheBounded
<1>8. ASSUME Denied PROVE Denied'
  BY <1>2, <1>3, <1>4, <1>8 DEF Denied
<1>9. ReportedDenied'
  BY <1>1, <1>3, <1>4, <1>8 DEF ReportedDenied
<1>10. Evolves
  <2>1. clock <= clock'
    BY <1>2, <1>3
  <2> QED
    BY <1>2, <1>3, <1>4, <1>8, <2>1 DEF Evolves
<1> QED
  BY <1>3, <1>5, <1>6, <1>7, <1>9, <1>10, NobodyMoves DEF Shared

-----------------------------------------------------------------------------
(* The invariant holds. *)

\* Before the session exists.
LEMMA InitInv ==
  ASSUME Init
  PROVE  SessionInv
<1>1. Idle \in Handlers
  BY EndedType DEF Idle
<1>2. TypeOK
  <2>1. proc \in [Procs -> Handlers]
    BY <1>1 DEF Init
  <2>2. /\ clock \in 0..MaxClock /\ faults \in 0..MaxFaults /\ newest \in 0..MaxSecret
        /\ revokedAt \in 0..Never /\ 0 \in 0..MaxSecret
    BY SessionAssumption DEF Init, Never
  <2>3. /\ row \in [st: {"none", "active", "revoked"}, cur: 0..MaxSecret,
                    prev: 0..MaxSecret, until: Nat, exp: Nat]
        /\ cache \in [st: {"none", "active", "revoking", "revoked"}, exp: Nat]
    BY <2>2 DEF Init, Miss
  <2> QED
    BY <2>1, <2>2, <2>3 DEF Init, TypeOK, Handlers
<1>3. row.st = "none" /\ row.cur = 0 /\ cache.st = "none" /\ newest = 0 /\ ~revokeDone
  BY DEF Init, Miss
<1>4. Family /\ CacheBounded /\ ReportedDenied
  BY <1>3 DEF Family, CacheBounded, ReportedDenied
<1>5. ASSUME NEW p \in Procs PROVE Handler(proc[p])
  <2>1. /\ proc[p].op = "get" /\ proc[p].pc = "idle" /\ proc[p].did = FALSE
        /\ proc[p].secret = 0 /\ proc[p].dl = 0 /\ proc[p].late = "no"
    BY DEF Init, Idle, Ended
  <2>2. newest \in Nat /\ clock \in Nat /\ TTL \in Nat /\ MaxSecret \in Nat \ {0}
    BY <1>2, Typed, SessionAssumption
  <2> QED
    BY <2>1, <2>2 DEF Handler, SecretKnown, RevocationKnown
<1> QED
  BY <1>2, <1>4, <1>5 DEF SessionInv

\* Every step keeps the invariant.
LEMMA NextInv ==
  ASSUME SessionInv, [Next]_vars
  PROVE  SessionInv'
<1>1. ASSUME NEW p \in Procs, Step(p) PROVE SessionInv'
  BY <1>1, ReadCacheInv, ReadRowInv, PublishInv, PutActiveInv, ConfirmInv, CheckUserInv,
     RotateReadInv, RotateSwapInv, CandidateInv, LogoutInv, FenceInv, CommitInv, TombstoneInv
     DEF Step
<1>2. ASSUME NEW p \in Procs, CreateUserSession(p) PROVE SessionInv'
  BY <1>2, CreateInv
<1>3. ASSUME NEW p \in Procs, NEW op \in Ops \ {"create"}, NEW s \in 0..MaxSecret, Begin(p, op, s)
      PROVE  SessionInv'
  BY <1>3, BeginInv
<1>4. CASE LoseCache
  BY <1>4, LoseInv
<1>5. CASE Tick
  BY <1>5, TickInv
<1>6. CASE UNCHANGED vars
  BY <1>6 DEF vars, SessionInv, TypeOK, Family, CacheBounded, ReportedDenied, Denied, Handler,
              SecretKnown, RevocationKnown
<1> QED
  BY <1>1, <1>2, <1>3, <1>4, <1>5, <1>6 DEF Next

\* What the session, its cache entry and its handlers always are.
LEMMA SessionSafe == Spec => []SessionInv
<1>1. Init => SessionInv
  BY InitInv
<1>2. SessionInv /\ [Next]_vars => SessionInv'
  BY NextInv
<1> QED
  BY <1>1, <1>2, PTL DEF Spec

\* The types of the row, the cache entry and the handlers hold for any number
\* of handlers.
THEOREM SessionTypes == Spec => []TypeOK
<1>1. SessionInv => TypeOK
  BY DEF SessionInv
<1> QED
  BY <1>1, SessionSafe, PTL

\* No interleaving of rotations takes the family back behind a secret that was
\* handed out (RotateUserSessionRefresh, deriveNextRefreshSecret).
THEOREM NewestAlwaysAccepted == Spec => []NewestSecretAccepted
<1>1. SessionInv => NewestSecretAccepted
  <2>1. ASSUME SessionInv, row.st = "active" PROVE newest \in {row.cur, row.prev}
    BY <2>1 DEF SessionInv, Family
  <2> QED
    BY <2>1 DEF NewestSecretAccepted
<1> QED
  BY <1>1, SessionSafe, PTL

-----------------------------------------------------------------------------
(* Who is served. *)

\* An operation succeeds on a hit in the cache, on a row it has read in time,
\* or on the row a rotation reads.
Grounds(p) ==
  \/ /\ proc[p].pc = "cache" /\ cache.st = "active"
     /\ proc[p].op = "get" \/ proc[p].did \/ proc[p].op = "create"
  \/ proc[p].pc \in {"put", "confirm"}
  \/ proc[p].pc = "rotate" /\ row.st = "active"

\* A refusal is no success.
LEMMA Refused ==
  ASSUME TypeOK, NEW p \in Procs, NEW res, res \notin {"valid", "issued"}, Return(p, res)
  PROVE  ~Succeeds(p)
<1>1. (res \in {"valid", "issued"}) = FALSE
  OBVIOUS
<1>2. Become(p, Ended(FALSE))
  BY <1>1 DEF Return
<1>3. proc'[p] = Ended(FALSE)
  BY <1>2, Typed, EndedType, BecomeAt
<1> QED
  BY <1>3 DEF Succeeds, Ended

\* Neither is a step within the operation.
LEMMA GoingOn ==
  ASSUME NEW p \in Procs, proc'[p].pc # "idle"
  PROVE  ~Succeeds(p)
  BY DEF Succeeds

\* The same for the forms such a step takes.
LEMMA GoingOnForms ==
  ASSUME TypeOK, NEW p \in Procs, NEW pc \in Steps \ {"idle"}, NEW dl \in Nat, NEW now \in Nat,
         (\/ Goto(p, pc) \/ Become(p, [proc[p] EXCEPT !.pc = pc, !.dl = dl])
          \/ Become(p, [proc[p] EXCEPT !.pc = pc, !.now = now]))
  PROVE  ~Succeeds(p)
<1>1. proc'[p].pc = pc
  BY GotoEffect
<1> QED
  BY <1>1, GoingOn

\* ... when the operation has done its work.
LEMMA GoingOnDone ==
  ASSUME TypeOK, NEW p \in Procs, NEW pc \in Steps \ {"idle"},
         Become(p, [proc[p] EXCEPT !.pc = pc, !.did = TRUE])
  PROVE  ~Succeeds(p)
<1>1. proc \in [Procs -> Handlers] /\ proc[p] \in Handlers
  BY Typed
<1>2. [proc[p] EXCEPT !.pc = pc, !.did = TRUE] \in Handlers
  BY <1>1, GoneOn
<1>3. proc'[p] = [proc[p] EXCEPT !.pc = pc, !.did = TRUE]
  BY <1>1, <1>2, BecomeAt
<1>4. proc'[p].pc = pc
  BY <1>1, <1>3 DEF Handlers
<1> QED
  BY <1>4, GoingOn

\* Only the reads of the session can end with a success.
LEMMA Served ==
  ASSUME SessionInv, NEW p \in Procs, Step(p), Succeeds(p)
  PROVE  Grounds(p) /\ faults <= faults'
<1>1. TypeOK /\ clock \in Nat /\ TTL \in Nat /\ faults \in Nat /\ proc[p] \in Handlers
  BY Knows
<1>2. clock + TTL \in Nat /\ proc[p].tries \in Nat
  BY <1>1, HandlerFields, SessionAssumption
<1>3. CASE ReadCache(p)
  <2>1. proc[p].pc = "cache"
    BY <1>3 DEF ReadCache, At
  <2>2. CASE cache.st = "active" /\ Proceed(p) /\ UNCHANGED faults
    <3>1. CASE proc[p].op = "refresh" /\ ~proc[p].did
      <4>1. Become(p, [proc[p] EXCEPT !.pc = "user", !.dl = 0])
        BY <2>2, <3>1 DEF Proceed
      <4>2. "user" \in Steps \ {"idle"} /\ 0 \in Nat
        BY DEF Steps
      <4> QED
        BY <1>1, <4>1, <4>2, GoingOnForms
    <3>2. CASE ~(proc[p].op = "refresh" /\ ~proc[p].did)
      <4>1. proc[p].op \in {"get", "refresh", "create"}
        BY <2>1, Knows DEF SecretKnown
      <4> QED
        BY <1>1, <2>1, <2>2, <3>2, <4>1 DEF Grounds
    <3> QED
      BY <3>1, <3>2
  <2>3. ASSUME Return(p, "inactive") PROVE FALSE
    BY <1>1, <2>3, Refused
  <2>4. ASSUME Become(p, [proc[p] EXCEPT !.pc = "row", !.dl = clock + TTL]) PROVE FALSE
    <3>1. "row" \in Steps \ {"idle"} /\ 0 \in Nat
      BY DEF Steps
    <3> QED
      BY <1>1, <1>2, <2>4, <3>1, GoingOnForms
  <2> QED
    BY <1>3, <2>2, <2>3, <2>4 DEF ReadCache
<1>4. CASE ReadRow(p)
  <2>1. "put" \in Steps \ {"idle"} /\ "deny" \in Steps \ {"idle"} /\ 0 \in Nat
    BY DEF Steps
  <2>2. Goto(p, "put") \/ Goto(p, "deny")
    BY <1>4 DEF ReadRow
  <2> QED
    BY <1>1, <2>1, <2>2, GoingOnForms
<1>5. CASE PublishInactive(p)
  BY <1>1, <1>5, Refused DEF PublishInactive
<1>6. CASE PutActive(p)
  <2>1. proc[p].pc = "put" /\ (UNCHANGED faults \/ faults' = faults + 1)
    BY <1>6 DEF PutActive, At, RedisFault
  <2> QED
    BY <1>1, <2>1 DEF Grounds
<1>7. CASE Confirm(p)
  BY <1>1, <1>7 DEF Confirm, At, Grounds
<1>8. CASE CheckUser(p)
  <2>1. {"rotate", "candidate"} \subseteq Steps \ {"idle"} /\ 0 \in Nat
    BY DEF Steps
  <2>2. PICK pc \in {"rotate", "candidate"} : Become(p, [proc[p] EXCEPT !.pc = pc, !.now = clock])
    BY <1>8 DEF CheckUser
  <2> QED
    BY <1>1, <2>1, <2>2, GoingOnForms
<1>9. CASE RotateRead(p)
  <2>1. proc[p].pc = "rotate" /\ UNCHANGED faults
    BY <1>9 DEF RotateRead, At
  <2>2. CASE row.st = "active"
    BY <1>1, <2>1, <2>2 DEF Grounds
  <2>3. CASE row.st # "active"
    <3>1. Return(p, "inactive")
      BY <1>9, <2>3 DEF RotateRead, RowActive
    <3> QED
      BY <1>1, <3>1, Refused
  <2> QED
    BY <2>2, <2>3
<1>10. CASE RotateSwap(p)
  <2>1. CASE Become(p, [proc[p] EXCEPT !.pc = "put", !.did = TRUE])
    <3>1. "put" \in Steps \ {"idle"}
      BY DEF Steps
    <3> QED
      BY <1>1, <2>1, <3>1, GoingOnDone
  <2>2. CASE Become(p, [proc[p] EXCEPT !.pc = "rotate", !.tries = @ + 1])
    <3>1. proc \in [Procs -> Handlers]
      BY <1>1, Typed
    <3>2. proc'[p] = [proc[p] EXCEPT !.pc = "rotate", !.tries = @ + 1]
      BY <2>2, <3>1 DEF Become
    <3>3. proc'[p].pc = "rotate"
      BY <1>1, <3>2 DEF Handlers
    <3> QED
      BY <3>3, GoingOn
  <2>3. CASE Return(p, "invalid")
    BY <1>1, <2>3, Refused
  <2> QED
    BY <1>10, <2>1, <2>2, <2>3 DEF RotateSwap
<1>11. CASE ReadCandidate(p)
  <2>1. "fence" \in Steps \ {"idle"} /\ 0 \in Nat
    BY DEF Steps
  <2>2. CASE Goto(p, "fence")
    BY <1>1, <2>1, <2>2, GoingOnForms
  <2>3. CASE Return(p, "revoked") \/ Return(p, "unchanged")
    BY <1>1, <2>3, Refused
  <2> QED
    BY <1>11, <2>2, <2>3 DEF ReadCandidate
<1>12. CASE LogoutLock(p)
  <2>1. "fence" \in Steps \ {"idle"} /\ 0 \in Nat
    BY DEF Steps
  <2>2. CASE Goto(p, "fence")
    BY <1>1, <2>1, <2>2, GoingOnForms
  <2>3. CASE Return(p, "unchanged")
    BY <1>1, <2>3, Refused
  <2> QED
    BY <1>12, <2>2, <2>3 DEF LogoutLock
<1>13. CASE WriteFence(p)
  <2>1. "commit" \in Steps \ {"idle"} /\ 0 \in Nat
    BY DEF Steps
  <2>2. CASE Goto(p, "commit")
    BY <1>1, <2>1, <2>2, GoingOnForms
  <2>3. CASE Return(p, "error")
    BY <1>1, <2>3, Refused
  <2> QED
    BY <1>13, <2>2, <2>3 DEF WriteFence
<1>14. CASE CommitRevoke(p)
  <2>1. "tomb" \in Steps \ {"idle"} /\ "candidate" \in Steps \ {"idle"} /\ 0 \in Nat
    BY DEF Steps
  <2>2. CASE Goto(p, "tomb") \/ Goto(p, "candidate")
    BY <1>1, <2>1, <2>2, GoingOnForms
  <2>3. CASE Return(p, "error") \/ Return(p, "inactive")
    BY <1>1, <2>3, Refused
  <2> QED
    BY <1>14, <2>2, <2>3 DEF CommitRevoke
<1>15. CASE WriteTombstone(p)
  <2>1. "candidate" \in Steps \ {"idle"}
    BY DEF Steps
  <2>2. CASE Become(p, [proc[p] EXCEPT !.pc = "candidate", !.did = TRUE])
    BY <1>1, <2>1, <2>2, GoingOnDone
  <2>3. CASE Return(p, "revoked")
    BY <1>1, <2>3, Refused
  <2> QED
    BY <1>15, <2>2, <2>3 DEF WriteTombstone
<1> QED
  BY <1>3, <1>4, <1>5, <1>6, <1>7, <1>8, <1>9, <1>10, <1>11, <1>12, <1>13, <1>14, <1>15 DEF Step

\* A step of another handler, or of none, is no success of this one.
LEMMA OthersStep ==
  ASSUME SessionInv, [Next]_vars, NEW p \in Procs, Succeeds(p)
  PROVE  Step(p)
<1>1. TypeOK /\ proc \in [Procs -> Handlers]
  BY Typed DEF SessionInv
<1>2. proc'[p] # proc[p] /\ proc[p].pc # "idle" /\ proc'[p].pc = "idle"
  BY DEF Succeeds, At
<1>3. ASSUME NEW q \in Procs, NEW r, Become(q, r) PROVE q = p
  BY <1>1, <1>2, <1>3 DEF Become
<1>4. ASSUME NEW q \in Procs, Step(q) PROVE q = p
  <2>1. \E r : Become(q, r)
    <3>1. CASE ReadCache(q)
      BY <3>1 DEF ReadCache, Proceed, Return
    <3>2. CASE ReadRow(q)
      BY <3>2 DEF ReadRow, Goto
    <3>3. CASE PublishInactive(q)
      BY <3>3 DEF PublishInactive, Return
    <3>4. CASE PutActive(q)
      BY <3>4 DEF PutActive, Goto, Proceed, Return
    <3>5. CASE Confirm(q)
      BY <3>5 DEF Confirm, Proceed, Return
    <3>6. CASE CheckUser(q)
      BY <3>6 DEF CheckUser
    <3>7. CASE RotateRead(q)
      BY <3>7 DEF RotateRead, Goto, Return
    <3>8. CASE RotateSwap(q)
      BY <3>8 DEF RotateSwap, Return
    <3>9. CASE ReadCandidate(q)
      BY <3>9 DEF ReadCandidate, Goto, Return
    <3>10. CASE LogoutLock(q)
      BY <3>10 DEF LogoutLock, Goto, Return
    <3>11. CASE WriteFence(q)
      BY <3>11 DEF WriteFence, Goto, Return
    <3>12. CASE CommitRevoke(q)
      BY <3>12 DEF CommitRevoke, Goto, Return
    <3>13. CASE WriteTombstone(q)
      BY <3>13 DEF WriteTombstone, Return
    <3> QED
      BY <1>4, <3>1, <3>2, <3>3, <3>4, <3>5, <3>6, <3>7, <3>8, <3>9, <3>10, <3>11, <3>12, <3>13
         DEF Step
  <2> QED
    BY <1>3, <2>1
<1>5. ASSUME NEW q \in Procs, CreateUserSession(q) PROVE FALSE
  BY <1>2, <1>3, <1>5 DEF CreateUserSession, At
<1>6. ASSUME NEW q \in Procs, NEW op, NEW s, Begin(q, op, s) PROVE FALSE
  BY <1>2, <1>3, <1>6 DEF Begin, At
<1>7. CASE LoseCache
  BY <1>2, <1>7 DEF LoseCache
<1>8. CASE Tick
  BY <1>2, <1>8 DEF Tick
<1>9. CASE UNCHANGED vars
  BY <1>2, <1>9 DEF vars
<1> QED
  BY <1>4, <1>5, <1>6, <1>7, <1>8, <1>9 DEF Next

\* Whoever starts after the revocation is served from the cache only, by a
\* snapshot that is still within its lifetime, and only if Redis has failed or
\* the revocation was not reported yet.
LEMMA LateSuccess ==
  ASSUME SessionInv, [Next]_vars, NEW p \in Procs, Succeeds(p), proc[p].late # "no"
  PROVE  /\ proc[p].op = "get" /\ proc[p].late \in {"committed", "returned"}
         /\ proc[p].late = "returned" => faults' > 0
<1>1. Step(p)
  BY OthersStep
<1>2. Grounds(p) /\ faults <= faults'
  BY <1>1, Served
<1>3. /\ TypeOK /\ CacheBounded /\ ReportedDenied /\ SecretKnown(proc[p]) /\ RevocationKnown(proc[p])
      /\ proc[p] \in Handlers /\ clock \in Nat /\ TTL \in Nat /\ faults \in Nat
  BY Knows
<1>4. /\ row.st = "revoked" /\ proc[p].pc \notin {"put", "confirm", "cas"}
  BY <1>3 DEF RevocationKnown
<1>5. proc[p].pc = "cache" /\ cache.st = "active"
  BY <1>2, <1>4 DEF Grounds
<1>6. ~proc[p].did /\ proc[p].op # "create"
  BY <1>3, <1>5 DEF SecretKnown
<1>7. proc[p].op = "get"
  BY <1>2, <1>5, <1>6 DEF Grounds
<1>8. proc[p].late # "aged"
  <2>1. clock < cache.exp /\ cache.exp <= revokedAt + TTL
    BY <1>3, <1>4, <1>5 DEF CacheBounded
  <2>2. revokedAt \in Nat /\ cache.exp \in Nat
    BY <1>3, Typed
  <2>3. proc[p].late = "aged" => clock >= revokedAt + TTL
    BY <1>3 DEF RevocationKnown
  <2> QED
    BY <1>3, <2>1, <2>2, <2>3
<1>9. proc[p].late \in Lateness
  BY <1>3, HandlerFields
<1>10. ASSUME proc[p].late = "returned" PROVE faults' > 0
  <2>1. revokeDone
    BY <1>3, <1>10 DEF RevocationKnown
  <2>2. faults # 0
    BY <1>3, <1>5, <2>1 DEF ReportedDenied, Denied
  <2>3. faults' \in Nat
    BY NextInv, SessionAssumption DEF SessionInv, TypeOK
  <2> QED
    BY <1>2, <1>3, <2>2, <2>3
<1> QED
  BY <1>7, <1>8, <1>9, <1>10 DEF Lateness

\* Once a revocation has been reported, every validation and refresh that
\* starts afterwards is refused as long as Redis does not fail
\* (writeUserSessionCache, the deny fence and the tombstone).
THEOREM RevocationEffective == Spec => RevokedSessionDenied
<1>1. ASSUME SessionInv, [Next]_vars
      PROVE  [\A p \in Procs :
                Succeeds(p) /\ proc[p].late \in {"returned", "aged"} => faults' > 0]_vars
  BY <1>1, LateSuccess
<1> QED
  BY <1>1, SessionSafe, PTL DEF Spec, RevokedSessionDenied

\* Whatever Redis does, a refresh that starts after the revocation is refused,
\* and a validation is served for less than one cache lifetime after it
\* (userSessionCacheDeadline, GetUserSessionCached).
THEOREM StalenessAlwaysBounded == Spec => StalenessBounded
<1>1. ASSUME SessionInv, [Next]_vars
      PROVE  [\A p \in Procs :
                Succeeds(p) => \/ proc[p].late = "no"
                               \/ /\ proc[p].late \in {"committed", "returned"}
                                  /\ proc[p].op = "get"]_vars
  BY <1>1, LateSuccess
<1> QED
  BY <1>1, SessionSafe, PTL DEF Spec, StalenessBounded
=============================================================================
