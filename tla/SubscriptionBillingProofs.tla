--------------------- MODULE SubscriptionBillingProofs ---------------------
(***************************************************************************)
(* Theorems about SubscriptionBilling, for any requests, pollers, plans    *)
(* and amounts: the types, which bound what is used by what was bought,    *)
(* the group of the user, and the accounts of token and subscriptions.     *)
(*                                                                         *)
(* The accounts are sums over all requests, and not inductive: whether a   *)
(* refund is right depends on what the request, its task and the pollers   *)
(* at work on it say of each other.  Booked and Closing hold that, and     *)
(* each action then moves one cost by what it moves on the rows, or is a   *)
(* reset, which moves none.                                                *)
(***************************************************************************)
EXTENDS SubscriptionBilling, SumTheorems, TLAPS

USE SubscriptionAssumption DEF Subs, Amounts

----------------------------------------------------------------------------
(* Types. *)

\* A usage is a number, within the total if there is one.
LEMMA UsageNat == 0 \in Usage /\ \A n \in Usage : n \in Nat
  BY DEF Usage, Within

\* A row keeps its type when its usage moves within the total, and nothing
\* else of it changes.
LEMMA RowUsed ==
    ASSUME NEW x \in SubRow, NEW v \in Usage
    PROVE  /\ [x EXCEPT !.used = v] \in SubRow
           /\ [x EXCEPT !.used = v].st = x.st
           /\ [x EXCEPT !.used = v].ended = x.ended
           /\ [x EXCEPT !.used = v].told = x.told
           /\ [x EXCEPT !.used = v].prev = x.prev
           /\ [x EXCEPT !.used = v].missed = x.missed
           /\ [x EXCEPT !.used = v].used = v
  BY DEF SubRow

\* What the reset of a subscription that is due makes of its row.
LEMMA RowRolled ==
    ASSUME NEW x \in SubRow
    PROVE  /\ Rolled(x) \in SubRow
           /\ Rolled(x).st = x.st /\ Rolled(x).ended = x.ended
           /\ Rolled(x).prev = x.prev /\ Rolled(x).missed = x.missed
           /\ Rolled(x).told => x.told
           /\ Rolled(x).used = IF x.due THEN 0 ELSE x.used
  BY UsageNat DEF SubRow, Rolled

\* What a periodic or manual reset makes of it.
LEMMA RowRevived ==
    ASSUME NEW x \in SubRow, NEW due \in BOOLEAN
    PROVE  /\ Revived(x, due) \in SubRow
           /\ Revived(x, due).st = IF x.st = "exhausted" THEN "active" ELSE x.st
           /\ ~Revived(x, due).told /\ Revived(x, due).ended = x.ended
           /\ Revived(x, due).prev = x.prev /\ Revived(x, due).missed = x.missed
           /\ Revived(x, due).used = 0
  BY UsageNat DEF SubRow, Revived

\* The changes that the actions make to a request keep its type.
LEMMA RequestFields ==
    ASSUME NEW q \in Request
    PROVE  /\ \A p \in {"new", "refused", "held", "refunding", "settled", "over"} :
                [q EXCEPT !.ph = p] \in Request
           /\ \A c \in {"none", "consumed", "refunded"} : [q EXCEPT !.rec = c] \in Request
           /\ \A s \in Subs : [q EXCEPT !.sub = s] \in Request
           /\ \A h \in 0..MaxAmount : [q EXCEPT !.held = h] \in Request
           /\ \A h \in 0..MaxAmount : [q EXCEPT !.price = h] \in Request
           /\ \A e \in {"now", "past", "mixed"} : [q EXCEPT !.era = e] \in Request
           /\ \A b \in BOOLEAN : [q EXCEPT !.short = b] \in Request
           /\ \A n \in 0..(Attempts - 1) : [q EXCEPT !.tries = n] \in Request
  BY DEF Request

\* Late changes nothing but the era.
LEMMA LateTyped ==
    ASSUME NEW q \in Request, NEW d \in Int
    PROVE  /\ Late(q, d) \in Request
           /\ Late(q, d).held = q.held /\ Late(q, d).tries = q.tries
  BY DEF Request, Late

\* A reset keeps the requests typed.
LEMMA WipedTyped ==
    ASSUME TypeOK, NEW S
    PROVE  Wiped(S) \in [Reqs -> Request]
  <1>1. ASSUME NEW r \in Reqs PROVE [req[r] EXCEPT !.era = "past"] \in Request
    BY RequestFields DEF TypeOK
  <1> QED BY <1>1 DEF Wiped, TypeOK

\* What the rows show are numbers.
LEMMA RowsNumbers ==
    ASSUME TypeOK
    PROVE  token \in Int /\ \A u \in Subs : sub[u].used \in Int
  <1>1. ASSUME NEW u \in Subs PROVE sub[u].used \in Int
    <2>1. sub[u].used \in Usage
      BY DEF TypeOK, SubRow
    <2>2. sub[u].used \in Nat
      BY <2>1, UsageNat
    <2> QED BY <2>2
  <1>2. token \in Int
    BY DEF TypeOK
  <1> QED BY <1>1, <1>2

\* A move that its guards admit keeps both rows within their limits.
LEMMA MoveTyped ==
    ASSUME TypeOK, NEW s \in Subs \cup {0}, NEW d \in Int,
           d = 0 \/ MayMove(s, d), Move(s, d)
    PROVE  sub' \in [Subs -> SubRow] /\ token' \in 0..TokenQuota
  <1>1. token' \in 0..TokenQuota
    BY DEF TypeOK, Move, MayMove, FitsToken
  <1>2. CASE s \in Subs
    <2>1. sub[s] \in SubRow /\ sub[s].used \in Usage
      BY <1>2 DEF TypeOK, SubRow
    <2>2. sub[s].used + d \in Usage
      BY <2>1 DEF MayMove, FitsTotal, Usage, Within
    <2>3. [sub[s] EXCEPT !.used = @ + d] \in SubRow
      BY <2>1, <2>2, RowUsed
    <2> QED BY <1>1, <1>2, <2>3 DEF Move, TypeOK
  <1>3. CASE s \notin Subs
    BY <1>1, <1>3 DEF Move, TypeOK
  <1> QED BY <1>2, <1>3

\* A request that is replaced by another of the type leaves the table typed.
LEMMA RequestUpdate ==
    ASSUME req \in [Reqs -> Request], NEW r \in Reqs, NEW q \in Request
    PROVE  [req EXCEPT ![r] = q] \in [Reqs -> Request]
  OBVIOUS

\* The changes of several fields of a request.
LEMMA RequestHeld ==
    ASSUME NEW q \in Request, NEW s \in Subs, NEW a \in 0..MaxAmount
    PROVE  [q EXCEPT !.ph = "held", !.rec = "consumed", !.sub = s, !.held = a] \in Request
  BY DEF Request

\* Settlement, taken or refused.
LEMMA RequestSettled ==
    ASSUME NEW q \in Request, NEW a \in 0..MaxAmount
    PROVE  /\ [q EXCEPT !.ph = "settled", !.price = a] \in Request
           /\ [q EXCEPT !.ph = "settled", !.short = TRUE] \in Request
  <1>1. [q EXCEPT !.ph = "settled", !.price = a] \in Request
    BY DEF Request
  <1>2. [q EXCEPT !.ph = "settled", !.short = TRUE] \in Request
    BY DEF Request
  <1> QED BY <1>1, <1>2

\* The end of a request or of its refund job.
LEMMA RequestDone ==
    ASSUME NEW q \in Request
    PROVE  [q EXCEPT !.tries = 0, !.ph = "over"] \in Request
  <1> DEFINE q1 == [q EXCEPT !.tries = 0]
  <1>1. q1 \in Request
    <2>1. 0 \in 0..(Attempts - 1)
      OBVIOUS
    <2> QED BY <2>1, RequestFields
  <1>2. [q1 EXCEPT !.ph = "over"] \in Request
    BY <1>1, RequestFields
  <1> QED BY <1>2

\* The first state is typed.
LEMMA InitTyped == Init => TypeOK
  <1>1. NotBought \in SubRow
    BY UsageNat DEF SubRow, NotBought
  <1>2. [ph |-> "new", rec |-> "none", sub |-> 0, held |-> 0, price |-> 0,
         short |-> FALSE, era |-> "now", tries |-> 0] \in Request
    BY DEF Request
  <1>3. NoTask \in Task
    BY DEF NoTask, Task
  <1>4. Idle \in Poll
    BY DEF Poll
  <1> QED BY <1>1, <1>2, <1>3, <1>4 DEF Init, TypeOK

\* No status changes, no subscription that has ended runs again, none counts
\* as dealt with that did not.
StatusKept ==
    \A s \in Subs : /\ sub'[s].st = sub[s].st
                    /\ sub[s].ended => sub'[s].ended
                    /\ sub'[s].told => sub[s].told
                    /\ sub'[s].prev = sub[s].prev /\ sub'[s].missed = sub[s].missed

\* What pre-consumption does to the rows of the subscriptions: those tried
\* are reset if they were due, the last is charged.
LEMMA PreConsumeRows ==
    ASSUME TypeOK, NEW r \in Reqs, NEW a \in Amounts, PreConsume(r, a)
    PROVE  sub' \in [Subs -> SubRow] /\ StatusKept
  <1>1. PICK s \in Subs :
          LET rolled == {u \in 1..s : Usable(u) /\ sub[u].due}
          IN  /\ Room(s, a)
              /\ sub' = [u \in Subs |->
                           LET x == IF u \in rolled THEN Rolled(sub[u]) ELSE sub[u]
                           IN  IF u = s THEN [x EXCEPT !.used = @ + a] ELSE x]
    BY DEF PreConsume
  <1> DEFINE rolled == {u \in 1..s : Usable(u) /\ sub[u].due}
             x(u) == IF u \in rolled THEN Rolled(sub[u]) ELSE sub[u]
  <1>2. ASSUME NEW u \in Subs
        PROVE  /\ x(u) \in SubRow /\ x(u).st = sub[u].st /\ x(u).ended = sub[u].ended
               /\ x(u).told => sub[u].told
               /\ x(u).prev = sub[u].prev /\ x(u).missed = sub[u].missed
    BY RowRolled DEF TypeOK
  <1>3. x(s).used + a \in Usage
    <2>1. sub[s] \in SubRow /\ sub[s].used \in Usage
      BY DEF TypeOK, SubRow
    <2>2. x(s).used = UsedAfterReset(s)
      BY <1>1, <2>1, RowRolled DEF UsedAfterReset, Room
    <2>3. UsedAfterReset(s) \in Nat
      BY <2>1, UsageNat DEF UsedAfterReset
    <2> QED BY <1>1, <2>2, <2>3 DEF Room, Usage
  <1>4. ASSUME NEW u \in Subs
        PROVE  sub'[u] = IF u = s THEN [x(u) EXCEPT !.used = @ + a] ELSE x(u)
    BY <1>1
  <1>5. ASSUME NEW u \in Subs
        PROVE  /\ sub'[u] \in SubRow /\ sub'[u].st = sub[u].st /\ sub'[u].ended = sub[u].ended
               /\ sub'[u].told => sub[u].told
               /\ sub'[u].prev = sub[u].prev /\ sub'[u].missed = sub[u].missed
    <2> HIDE DEF x
    <2>1. CASE u = s
      <3>1. sub'[u] = [x(s) EXCEPT !.used = x(s).used + a]
        BY <1>4, <2>1
      <3>2. x(s) \in SubRow
        BY <1>2
      <3> QED BY <1>2, <1>3, <2>1, <3>1, <3>2, RowUsed
    <2>2. CASE u # s
      BY <1>2, <1>4, <2>2
    <2> QED BY <2>1, <2>2
  <1>6. StatusKept
    BY <1>5, Zenon DEF StatusKept
  <1> QED BY <1>1, <1>5, <1>6

\* What expiry does, with the last of the expired subscriptions named.
Gone(s) == sub[s].ended /\ sub[s].st # "expired"
Lapses(last) == group = "plan" /\ OutOfForce /\ sub[last].prev # "none"
Expires(last) ==
    /\ Gone(last) \/ sub[last].st = "expired"
    /\ \A s \in Subs : Gone(s) \/ sub[s].st = "expired" => s <= last
    /\ sub' = [s \in Subs |->
                 IF Gone(s) THEN [sub[s] EXCEPT !.st = "expired"]
                 ELSE [sub[s] EXCEPT !.missed = @ \/ (Lapses(last) /\ sub[s].st = "exhausted")]]
    /\ group' = IF Lapses(last) THEN sub[last].prev ELSE group

\* Expiry picks one that expired last.
LEMMA ExpireTold ==
    ASSUME Expire
    PROVE  \E last \in Subs : Expires(last)
  <1> DEFINE gone == {s \in Subs : sub[s].ended /\ sub[s].st # "expired"}
             expired == {s \in Subs : s \in gone \/ sub[s].st = "expired"}
  <1>1. PICK last \in expired :
          /\ \A s \in expired : s <= last
          /\ sub' = [s \in Subs |->
                       IF s \in gone THEN [sub[s] EXCEPT !.st = "expired"]
                       ELSE [sub[s] EXCEPT !.missed = @ \/ (Lapses(last) /\ sub[s].st = "exhausted")]]
          /\ group' = IF Lapses(last) THEN sub[last].prev ELSE group
    BY DEF Expire, Lapses
  <1>2. last \in Subs /\ (Gone(last) \/ sub[last].st = "expired")
    BY DEF Gone
  <1>3. \A s \in Subs : Gone(s) \/ sub[s].st = "expired" => s <= last
    BY <1>1 DEF Gone
  <1>4. \A s \in Subs : s \in gone <=> Gone(s)
    BY DEF Gone
  <1>5. sub' = [s \in Subs |->
                 IF Gone(s) THEN [sub[s] EXCEPT !.st = "expired"]
                 ELSE [sub[s] EXCEPT !.missed = @ \/ (Lapses(last) /\ sub[s].st = "exhausted")]]
    BY <1>1, <1>4, Zenon
  <1> QED BY <1>1, <1>2, <1>3, <1>5 DEF Expires

\* The rows after it, field by field.
LEMMA ExpireRows ==
    ASSUME TypeOK, NEW last \in Subs, Expires(last)
    PROVE  /\ sub' \in [Subs -> SubRow]
           /\ \A s \in Subs :
                /\ sub'[s].used = sub[s].used /\ sub'[s].prev = sub[s].prev
                /\ sub'[s].ended = sub[s].ended /\ sub'[s].told = sub[s].told
                /\ sub'[s].st = IF Gone(s) THEN "expired" ELSE sub[s].st
                /\ sub[s].missed => sub'[s].missed
                /\ ~Gone(s) /\ Lapses(last) /\ sub[s].st = "exhausted" => sub'[s].missed
  <1>1. ASSUME NEW s \in Subs
        PROVE  /\ sub'[s] \in SubRow
               /\ sub'[s].used = sub[s].used /\ sub'[s].prev = sub[s].prev
               /\ sub'[s].ended = sub[s].ended /\ sub'[s].told = sub[s].told
               /\ sub'[s].st = IF Gone(s) THEN "expired" ELSE sub[s].st
               /\ sub[s].missed => sub'[s].missed
               /\ ~Gone(s) /\ Lapses(last) /\ sub[s].st = "exhausted" => sub'[s].missed
    <2>1. sub[s] \in SubRow
      BY DEF TypeOK
    <2> DEFINE m == sub[s].missed \/ (Lapses(last) /\ sub[s].st = "exhausted")
    <2>2. m \in BOOLEAN
      BY <2>1 DEF SubRow
    <2>3. sub'[s] = IF Gone(s) THEN [sub[s] EXCEPT !.st = "expired"] ELSE [sub[s] EXCEPT !.missed = m]
      BY DEF Expires
    <2>4. sub[s].missed => m
      OBVIOUS
    <2>5. Lapses(last) /\ sub[s].st = "exhausted" => m
      OBVIOUS
    <2> HIDE DEF m
    <2> QED BY <2>1, <2>2, <2>3, <2>4, <2>5 DEF SubRow
  <1>2. sub' = [s \in Subs |-> sub'[s]]
    BY DEF Expires
  <1> QED BY <1>1, <1>2

\* The rows after a purchase.
LEMMA BuyRows ==
    ASSUME TypeOK, NEW s \in Subs, Buy(s)
    PROVE  /\ sub' \in [Subs -> SubRow]
           /\ sub'[s].st = "active"
           /\ \A u \in Subs : /\ sub'[u].used = sub[u].used /\ sub'[u].told = sub[u].told
                              /\ u # s => sub'[u].st = sub[u].st
  <1>1. ASSUME NEW u \in Subs
        PROVE  /\ sub'[u] \in SubRow
               /\ sub'[u].used = sub[u].used /\ sub'[u].told = sub[u].told
               /\ sub'[u].st = IF u = s THEN "active" ELSE sub[u].st
    <2>1. sub[u] \in SubRow
      BY DEF TypeOK
    <2> DEFINE t == IF u = s THEN "active" ELSE sub[u].st
               g == IF u = s /\ group # "plan" THEN group ELSE sub[u].prev
    <2>2. /\ t \in {"none", "active", "exhausted", "expired"}
          /\ g \in {"none", "old", "fallback"}
      BY <2>1 DEF SubRow, TypeOK
    <2>3. sub'[u] = [sub[u] EXCEPT !.missed = FALSE, !.st = t, !.prev = g]
      BY DEF Buy
    <2> HIDE DEF g, t
    <2>4. sub'[u].st = t
      BY <2>1, <2>3 DEF SubRow
    <2> QED BY <2>1, <2>2, <2>3, <2>4 DEF SubRow, t
  <1>2. sub' = [u \in Subs |-> sub'[u]]
    BY DEF Buy
  <1> QED BY <1>1, <1>2

\* Pre-consumption keeps the types.
LEMMA PreConsumeTyped ==
    ASSUME TypeOK, NEW r \in Reqs, NEW a \in Amounts, PreConsume(r, a)
    PROVE  TypeOK'
  <1>1. sub' \in [Subs -> SubRow]
    BY PreConsumeRows
  <1>2. token' \in 0..TokenQuota
    BY DEF TypeOK, PreConsume, FitsToken
  <1>3. req' \in [Reqs -> Request]
    <2>1. PICK s \in Subs : LET rolled == {u \in 1..s : Usable(u) /\ sub[u].due}
            IN req' = [Wiped(rolled) EXCEPT ![r] = [@ EXCEPT !.ph = "held", !.rec = "consumed",
                                                             !.sub = s, !.held = a]]
      BY DEF PreConsume
    <2> DEFINE w == Wiped({u \in 1..s : Usable(u) /\ sub[u].due})
    <2>2. w \in [Reqs -> Request]
      BY WipedTyped
    <2> HIDE DEF w
    <2>3. [w[r] EXCEPT !.ph = "held", !.rec = "consumed", !.sub = s, !.held = a] \in Request
      <3>1. a \in 0..MaxAmount
        OBVIOUS
      <3> QED BY <2>2, <3>1, RequestHeld
    <2>4. req' = [w EXCEPT ![r] = [w[r] EXCEPT !.ph = "held", !.rec = "consumed", !.sub = s, !.held = a]]
      BY <2>1 DEF w
    <2> QED BY <2>2, <2>3, <2>4
  <1> QED BY <1>1, <1>2, <1>3 DEF PreConsume, TypeOK

\* So does every step; one case per action.
LEMMA StepTyped == TypeOK /\ [Next]_vars => TypeOK'
  <1> SUFFICES ASSUME TypeOK, [Next]_vars PROVE TypeOK'
    OBVIOUS
  <1>1. ASSUME NEW r \in Reqs, Fail(r) PROVE TypeOK'
    <2>1. [req[r] EXCEPT !.ph = "refunding"] \in Request
      BY RequestFields DEF TypeOK
    <2> QED BY <1>1, <2>1, RequestUpdate DEF Fail, TypeOK
  <1>2. ASSUME NEW r \in Reqs, RefundAttempt(r) PROVE TypeOK'
    <2> DEFINE q == req[r]
               done(x) == [x EXCEPT !.tries = 0, !.ph = "over"]
               again(x) == IF q.tries + 1 = Attempts THEN done(x) ELSE [x EXCEPT !.tries = @ + 1]
               back == [Late(q, q.held) EXCEPT !.rec = "refunded"]
    <2>1. q \in Request /\ q.held \in 0..MaxAmount /\ q.tries \in 0..(Attempts - 1) /\ q.sub \in Subs \cup {0}
      BY DEF TypeOK, Request
    <2>2. back \in Request /\ back.tries = q.tries
      <3>1. Late(q, q.held) \in Request /\ Late(q, q.held).tries = q.tries
        <4>1. q.held \in Int
          BY <2>1
        <4> QED BY <2>1, <4>1, LateTyped
      <3>2. [Late(q, q.held) EXCEPT !.rec = "refunded"].tries = q.tries
        BY <3>1 DEF Request
      <3> QED BY <3>1, <3>2, RequestFields
    <2> HIDE DEF q, back
    <2>3. ASSUME NEW x \in Request, x.tries = q.tries PROVE done(x) \in Request /\ again(x) \in Request
      <3>1. done(x) \in Request
        BY RequestDone
      <3>2. CASE q.tries + 1 # Attempts
        <4>1. x.tries + 1 \in 0..(Attempts - 1)
          BY <2>1, <2>3, <3>2
        <4>2. [x EXCEPT !.tries = @ + 1] \in Request
          BY <4>1, RequestFields
        <4> QED BY <3>1, <3>2, <4>2
      <3>3. CASE q.tries + 1 = Attempts
        BY <3>1, <3>3
      <3> QED BY <3>2, <3>3
    <2> HIDE DEF done, again
    <2>4. \/ sub' = sub /\ token' = token
          \/ MayMove(q.sub, -q.held) /\ Move(q.sub, -q.held)
      BY <1>2 DEF RefundAttempt, q
    <2>5. sub' \in [Subs -> SubRow] /\ token' \in 0..TokenQuota
      <3>1. CASE MayMove(q.sub, -q.held) /\ Move(q.sub, -q.held)
        <4>1. -q.held \in Int
          BY <2>1
        <4> QED BY <2>1, <3>1, <4>1, MoveTyped
      <3> QED BY <2>4, <3>1 DEF TypeOK
    <2>6. \E x \in {done(back), again(back), done(q), again(q)} : req' = [req EXCEPT ![r] = x]
      BY <1>2 DEF RefundAttempt, q, done, again, back
    <2>7. req' \in [Reqs -> Request]
      BY <2>1, <2>2, <2>3, <2>6, RequestUpdate DEF TypeOK
    <2> QED BY <1>2, <2>5, <2>7 DEF RefundAttempt, TypeOK
  <1>3. ASSUME NEW r \in Reqs, Die(r) PROVE TypeOK'
    <2>1. [req[r] EXCEPT !.tries = 0, !.ph = "over"] \in Request
      BY RequestDone DEF TypeOK
    <2> QED BY <1>3, <2>1, RequestUpdate DEF Die, TypeOK
  <1>4. ASSUME NEW r \in Reqs, NEW a \in Amounts, PreConsume(r, a) PROVE TypeOK'
    BY <1>4, PreConsumeTyped
  <1>5. ASSUME NEW r \in Reqs, NEW a \in Amounts, PreConsumeRefused(r, a) PROVE TypeOK'
    <2>1. [req[r] EXCEPT !.ph = "refused"] \in Request
      BY RequestFields DEF TypeOK
    <2> QED BY <1>5, <2>1, RequestUpdate DEF PreConsumeRefused, TypeOK
  <1>6. ASSUME NEW r \in Reqs, NEW a \in Amounts, Reserve(r, a) PROVE TypeOK'
    <2>1. req[r] \in Request /\ req[r].held \in 0..MaxAmount /\ req[r].sub \in Subs \cup {0}
      BY DEF TypeOK, Request
    <2>2. sub' \in [Subs -> SubRow] /\ token' \in 0..TokenQuota
      BY <1>6, <2>1, MoveTyped DEF Reserve
    <2> DEFINE q == Late(req[r], a)
    <2>3. q \in Request /\ q.held = req[r].held
      <3>1. a \in Int
        OBVIOUS
      <3> QED BY <2>1, <3>1, LateTyped
    <2>4. req' = [req EXCEPT ![r] = [q EXCEPT !.held = q.held + a]]
      BY <1>6 DEF Reserve
    <2> HIDE DEF q
    <2>5. q.held + a \in 0..MaxAmount
      BY <1>6, <2>1, <2>3 DEF Reserve
    <2>6. [q EXCEPT !.held = q.held + a] \in Request
      BY <2>3, <2>5, RequestFields
    <2>7. req' \in [Reqs -> Request]
      BY <2>4, <2>6, RequestUpdate DEF TypeOK
    <2> QED BY <1>6, <2>2, <2>7 DEF Reserve, TypeOK
  <1>7. ASSUME NEW r \in Reqs, NEW a \in Amounts \cup {0}, Settle(r, a) PROVE TypeOK'
    <2> DEFINE d == a - req[r].held
    <2>1. /\ req[r] \in Request /\ req[r].held \in 0..MaxAmount /\ req[r].sub \in Subs \cup {0}
          /\ d \in Int /\ a \in 0..MaxAmount
      BY DEF TypeOK, Request
    <2> HIDE DEF d
    <2>2. sub' \in [Subs -> SubRow] /\ token' \in 0..TokenQuota
      <3>1. CASE d = 0 \/ MayMove(req[r].sub, d)
        BY <1>7, <2>1, <3>1, MoveTyped DEF Settle, d
      <3>2. CASE ~(d = 0 \/ MayMove(req[r].sub, d))
        BY <1>7, <3>2 DEF Settle, d, TypeOK
      <3> QED BY <3>1, <3>2
    <2>3. /\ [Late(req[r], d) EXCEPT !.ph = "settled", !.price = a] \in Request
          /\ [req[r] EXCEPT !.ph = "settled", !.short = TRUE] \in Request
      <3>1. Late(req[r], d) \in Request
        BY <2>1, LateTyped
      <3> QED BY <2>1, <3>1, RequestSettled
    <2>4. req' \in [Reqs -> Request]
      <3>1. \/ req' = [req EXCEPT ![r] = [Late(@, d) EXCEPT !.ph = "settled", !.price = a]]
            \/ req' = [req EXCEPT ![r] = [@ EXCEPT !.ph = "settled", !.short = TRUE]]
        BY <1>7 DEF Settle, d
      <3> QED BY <2>3, <3>1, RequestUpdate DEF TypeOK
    <2>5. task' \in [Reqs -> Task]
      <3>1. [st |-> "queued", quota |-> a] \in Task
        BY <2>1 DEF Task, Open
      <3> QED BY <1>7, <3>1 DEF Settle, TypeOK
    <2> QED BY <1>7, <2>2, <2>4, <2>5 DEF Settle, TypeOK
  <1>8. ASSUME NEW p \in Pollers, PollFailure(p) PROVE TypeOK'
    <2> DEFINE r == poll[p].task
               q == task[r].quota
    <2>1. r \in Reqs
      BY <1>8 DEF PollFailure, TypeOK, Poll, Idle
    <2>2. /\ q \in 0..MaxAmount /\ -q \in Int /\ q \in Int
          /\ req[r] \in Request /\ req[r].sub \in Subs \cup {0}
      BY <2>1 DEF TypeOK, Task, Request
    <2>3. poll' \in [Pollers -> Poll]
      BY <1>8 DEF PollFailure, TypeOK, Poll
    <2>4. CASE Unmoved(p) /\ MayMove(req[r].sub, -q)
      <3>1. sub' \in [Subs -> SubRow] /\ token' \in 0..TokenQuota
        BY <1>8, <2>2, <2>4, MoveTyped DEF PollFailure
      <3>2. [task[r] EXCEPT !.st = "failure"] \in Task
        BY <2>1 DEF TypeOK, Task
      <3>3. Late(req[r], q) \in Request
        BY <2>2, LateTyped
      <3>4. task' \in [Reqs -> Task] /\ req' \in [Reqs -> Request]
        BY <1>8, <2>1, <2>4, <3>2, <3>3 DEF PollFailure, TypeOK
      <3> QED BY <1>8, <2>3, <3>1, <3>4 DEF PollFailure, TypeOK
    <2>5. CASE ~(Unmoved(p) /\ MayMove(req[r].sub, -q))
      BY <1>8, <2>3, <2>5 DEF PollFailure, TypeOK
    <2> QED BY <2>4, <2>5
  <1>9. ASSUME NEW p \in Pollers, PollProgress(p) PROVE TypeOK'
    <2> DEFINE r == poll[p].task
    <2>1. r \in Reqs
      BY <1>9 DEF PollProgress, TypeOK, Poll, Idle
    <2>2. PICK st \in Open : task' = [task EXCEPT ![r].st = IF Unmoved(p) THEN st ELSE @]
      BY <1>9 DEF PollProgress
    <2>3. task[r] \in Task /\ [task[r] EXCEPT !.st = st] \in Task
      BY <2>1 DEF TypeOK, Task
    <2>4. task' \in [Reqs -> Task]
      BY <2>1, <2>2, <2>3 DEF TypeOK, Task
    <2> QED BY <1>9, <2>4 DEF PollProgress, TypeOK, Poll
  <1>10. ASSUME NEW p \in Pollers, PollSuccess(p) PROVE TypeOK'
    <2> DEFINE r == poll[p].task
    <2>1. r \in Reqs
      BY <1>10 DEF PollSuccess, TypeOK, Poll, Idle
    <2>2. [task[r] EXCEPT !.st = "success"] \in Task /\ [st |-> "settle", task |-> r] \in Poll
      <3>1. [task[r] EXCEPT !.st = "success"] \in Task
        BY <2>1 DEF TypeOK, Task
      <3>2. [st |-> "settle", task |-> r] \in [st: {"settle"}, task: Reqs]
        BY <2>1
      <3> HIDE DEF r
      <3> QED BY <3>1, <3>2 DEF Poll
    <2>3. Idle \in Poll
      BY DEF Poll
    <2>4. task' \in [Reqs -> Task] /\ poll' \in [Pollers -> Poll]
      BY <1>10, <2>1, <2>2, <2>3 DEF PollSuccess, TypeOK
    <2> QED BY <1>10, <2>4 DEF PollSuccess, TypeOK
  <1>11. ASSUME NEW p \in Pollers, NEW r \in Reqs, PollRead(p, r) PROVE TypeOK'
    <2>1. [st |-> "read", task |-> r, saw |-> task[r].st] \in Poll
      BY <1>11 DEF PollRead, Poll
    <2> QED BY <1>11, <2>1 DEF PollRead, TypeOK
  <1>12. ASSUME NEW p \in Pollers, NEW a \in Amounts, TaskSettle(p, a) PROVE TypeOK'
    <2> DEFINE r == poll[p].task
               d == a - task[r].quota
    <2>1. r \in Reqs
      BY <1>12 DEF TaskSettle, TypeOK, Poll, Idle
    <2>2. /\ d \in Int /\ a \in 0..MaxAmount
          /\ req[r] \in Request /\ req[r].sub \in Subs \cup {0}
      BY <2>1 DEF TypeOK, Task, Request
    <2>3. poll' \in [Pollers -> Poll]
      BY <1>12 DEF TaskSettle, TypeOK, Poll
    <2>4. CASE d = 0 \/ MayMove(req[r].sub, d)
      <3>1. sub' \in [Subs -> SubRow] /\ token' \in 0..TokenQuota
        BY <1>12, <2>2, <2>4, MoveTyped DEF TaskSettle
      <3> DEFINE q == Late(req[r], d)
      <3>2. q \in Request
        BY <2>2, LateTyped
      <3>3. req' = [req EXCEPT ![r] = [q EXCEPT !.price = a]]
        BY <1>12, <2>4 DEF TaskSettle
      <3> HIDE DEF q
      <3>4. [q EXCEPT !.price = a] \in Request
        BY <2>2, <3>2, RequestFields
      <3>5. req' \in [Reqs -> Request]
        BY <2>1, <3>3, <3>4, RequestUpdate DEF TypeOK
      <3> QED BY <1>12, <2>3, <3>1, <3>5 DEF TaskSettle, TypeOK
    <2>5. CASE ~(d = 0 \/ MayMove(req[r].sub, d))
      BY <1>12, <2>3, <2>5 DEF TaskSettle, TypeOK
    <2> QED BY <2>4, <2>5
  <1>13. ASSUME NEW p \in Pollers, PollDies(p) PROVE TypeOK'
    BY <1>13 DEF PollDies, TypeOK, Poll
  <1>14. ASSUME NEW s \in Subs, PeriodEnds(s) PROVE TypeOK'
    <2>1. [sub[s] EXCEPT !.due = TRUE] \in SubRow
      <3>1. sub[s] \in SubRow
        BY DEF TypeOK
      <3> QED BY <3>1 DEF SubRow
    <2>2. resets' \in 0..MaxResets
      BY <1>14 DEF PeriodEnds, TypeOK
    <2> QED BY <1>14, <2>1, <2>2 DEF PeriodEnds, TypeOK
  <1>15. ASSUME NEW s \in Subs, SubscriptionEnds(s) PROVE TypeOK'
    <2>1. [sub[s] EXCEPT !.ended = TRUE] \in SubRow
      <3>1. sub[s] \in SubRow
        BY DEF TypeOK
      <3> QED BY <3>1 DEF SubRow
    <2> QED BY <1>15, <2>1 DEF SubscriptionEnds, TypeOK
  <1>16. ASSUME NEW s \in Subs, ResetDue(s) PROVE TypeOK'
    <2>1. Revived(sub[s], FALSE) \in SubRow
      BY RowRevived DEF TypeOK
    <2>2. req' \in [Reqs -> Request]
      BY <1>16, WipedTyped DEF ResetDue
    <2> QED BY <1>16, <2>1, <2>2 DEF ResetDue, Restored, TypeOK
  <1>17. ASSUME NEW s \in Subs, AdminReset(s) PROVE TypeOK'
    <2>1. PICK advance \in BOOLEAN : sub' = [sub EXCEPT ![s] = Revived(@, @.due /\ ~advance)]
      BY <1>17 DEF AdminReset
    <2>2. Revived(sub[s], sub[s].due /\ ~advance) \in SubRow
      BY RowRevived DEF TypeOK, SubRow
    <2>3. req' \in [Reqs -> Request]
      BY <1>17, WipedTyped DEF AdminReset
    <2>4. resets' \in 0..MaxResets
      BY <1>17 DEF AdminReset, TypeOK
    <2>5. sub' \in [Subs -> SubRow]
      BY <2>1, <2>2 DEF TypeOK
    <2> QED BY <1>17, <2>3, <2>4, <2>5 DEF AdminReset, Restored, TypeOK
  <1>18. ASSUME NEW s \in Subs, Exhaust(s) PROVE TypeOK'
    <2>1. sub[s] \in SubRow
      BY DEF TypeOK
    <2>2. sub' = [sub EXCEPT ![s] = [sub[s] EXCEPT !.told = TRUE, !.st = "exhausted"]]
      BY <1>18 DEF Exhaust
    <2>3. [sub[s] EXCEPT !.told = TRUE, !.st = "exhausted"] \in SubRow
      BY <2>1 DEF SubRow
    <2>4. sub' \in [Subs -> SubRow]
      BY <2>2, <2>3 DEF TypeOK
    <2> QED BY <1>18, <2>4 DEF Exhaust, TypeOK
  <1>19. ASSUME Expire PROVE TypeOK'
    <2>1. PICK last \in Subs : Expires(last)
      BY <1>19, ExpireTold
    <2>2. sub' \in [Subs -> SubRow]
      BY <2>1, ExpireRows
    <2>3. sub[last].prev \in {"none", "old", "fallback"}
      BY DEF TypeOK, SubRow
    <2>4. group' \in {"plan", "fallback", "old"}
      <3>1. group' = IF Lapses(last) THEN sub[last].prev ELSE group
        BY <2>1 DEF Expires
      <3>2. Lapses(last) => sub[last].prev # "none"
        BY DEF Lapses
      <3> QED BY <2>3, <3>1, <3>2 DEF TypeOK
    <2> QED BY <1>19, <2>2, <2>4 DEF Expire, TypeOK
  <1>20. CASE UNCHANGED vars
    BY <1>20 DEF TypeOK, vars
  <1>21. ASSUME NEW s \in Subs, Buy(s) PROVE TypeOK'
    <2>1. sub' \in [Subs -> SubRow]
      BY <1>21, BuyRows
    <2> QED BY <1>21, <2>1 DEF Buy, TypeOK
  <1> QED BY <1>1, <1>2, <1>3, <1>4, <1>5, <1>6, <1>7, <1>8, <1>9, <1>10, <1>11, <1>12,
             <1>13, <1>14, <1>15, <1>16, <1>17, <1>18, <1>19, <1>20, <1>21 DEF Next

\* No step of any of the actors takes a subscription beyond its total or the
\* token beyond its quota, or below zero: the guards of pre-consumption, of
\* Reserve, of settlement and of the two refunds are enough.
THEOREM SubscriptionTypes == Spec => []TypeOK
  BY InitTyped, StepTyped, PTL DEF Spec

----------------------------------------------------------------------------
(* The group of the user. *)

\* A subscription whose exhaustion was dealt with is not active, so it never
\* stands in for another; one that is exhausted in the old group has missed
\* an expiry, so a reset of it may leave the user there.
GroupInv ==
    /\ TypeOK
    /\ \A s \in Subs : sub[s].told => sub[s].st \in {"exhausted", "expired"}
    /\ \A s \in Subs : group = "old" /\ sub[s].st = "exhausted" => sub[s].missed
    /\ GroupFollowsSubscriptions

\* A step that keeps the status of the rows and the group disturbs nothing.
LEMMA GroupFrame ==
    ASSUME GroupInv, TypeOK', group' = group, StatusKept
    PROVE  GroupInv'
  <1>1. ASSUME NEW s \in Subs
        PROVE  /\ sub'[s].st = sub[s].st /\ sub'[s].missed = sub[s].missed
               /\ sub'[s].prev = sub[s].prev /\ (sub'[s].told => sub[s].told)
               /\ Usable(s)' => Usable(s)
    BY DEF StatusKept, Usable, TypeOK, SubRow
  <1>2. NoWayBack => NoWayBack'
    BY <1>1 DEF NoWayBack
  <1>3. group' = "plan" => NoWayBack' \/ \E s \in Subs : sub'[s].st = "active"
    BY <1>1, <1>2 DEF GroupInv, GroupFollowsSubscriptions
  <1>4. \A s \in Subs : Usable(s)' => group' = "plan" \/ (group' = "old" /\ sub'[s].missed)
    BY <1>1 DEF GroupInv, GroupFollowsSubscriptions
  <1>5. \A s \in Subs : /\ sub'[s].told => sub'[s].st \in {"exhausted", "expired"}
                        /\ group' = "old" /\ sub'[s].st = "exhausted" => sub'[s].missed
    BY <1>1 DEF GroupInv
  <1> QED BY <1>3, <1>4, <1>5 DEF GroupInv, GroupFollowsSubscriptions

\* A reset, periodic or by hand, makes its subscription active again and
\* gives back the group that its exhaustion had taken.
LEMMA GroupReset ==
    ASSUME GroupInv, TypeOK', NEW s \in Subs, NEW due \in BOOLEAN,
           sub[s].st \in {"active", "exhausted"},
           sub' = [sub EXCEPT ![s] = Revived(@, due)], group' = Restored(sub[s])
    PROVE  GroupInv'
  <1>1. /\ sub'[s].st = "active" /\ ~sub'[s].told /\ sub'[s].ended = sub[s].ended
        /\ sub'[s].missed = sub[s].missed
        /\ \A u \in Subs \ {s} : sub'[u] = sub[u]
    BY RowRevived DEF GroupInv, TypeOK
  <1>2. \A u \in Subs : sub'[u].told => sub'[u].st \in {"exhausted", "expired"}
    BY <1>1 DEF GroupInv
  <1>3. ASSUME NEW u \in Subs, group' = "old", sub'[u].st = "exhausted" PROVE sub'[u].missed
    BY <1>1, <1>3 DEF GroupInv, Restored
  <1>4. group' = "plan" => \E u \in Subs : sub'[u].st = "active"
    BY <1>1
  <1>5. ASSUME NEW u \in Subs, Usable(u)'
        PROVE  group' = "plan" \/ (group' = "old" /\ sub'[u].missed)
    <2>1. CASE Usable(u)
      <3>1. group = "plan" \/ (group = "old" /\ sub[u].missed)
        BY <2>1 DEF GroupInv, GroupFollowsSubscriptions
      <3>2. group' = group
        BY <3>1 DEF Restored
      <3> QED BY <1>1, <3>1, <3>2
    <2>2. CASE ~Usable(u)
      <3>1. u = s /\ sub[s].st = "exhausted"
        BY <1>1, <1>5, <2>2 DEF Usable
      <3>2. group \in {"plan", "fallback", "old"} /\ (group = "old" => sub[s].missed)
        BY <3>1 DEF GroupInv, TypeOK
      <3> QED BY <1>1, <3>1, <3>2 DEF Restored
    <2> QED BY <2>1, <2>2
  <1> QED BY <1>2, <1>3, <1>4, <1>5 DEF GroupInv, GroupFollowsSubscriptions

\* Expiry leaves the plan's group to the user if a subscription is still
\* usable, or if the last of the expired ones cannot tell another.
LEMMA GroupExpire ==
    ASSUME GroupInv, TypeOK', Expire
    PROVE  GroupInv'
  <1>1. PICK last \in Subs : Expires(last)
    BY ExpireTold
  <1>2. TypeOK
    BY DEF GroupInv
  <1>3. ASSUME NEW u \in Subs
        PROVE  /\ sub'[u].ended = sub[u].ended /\ sub'[u].told = sub[u].told
               /\ sub'[u].prev = sub[u].prev
               /\ sub'[u].st = IF Gone(u) THEN "expired" ELSE sub[u].st
               /\ sub[u].missed => sub'[u].missed
               /\ ~Gone(u) /\ Lapses(last) /\ sub[u].st = "exhausted" => sub'[u].missed
    BY <1>1, <1>2, ExpireRows
  <1>4. \A u \in Subs : sub'[u].told => sub'[u].st \in {"exhausted", "expired"}
    BY <1>3 DEF GroupInv
  <1>5. ASSUME NEW u \in Subs PROVE Usable(u)' => Usable(u) /\ ~Lapses(last)
    BY <1>3 DEF Usable, Gone, Lapses, OutOfForce
  <1>6. group' = IF Lapses(last) THEN sub[last].prev ELSE group
    BY <1>1 DEF Expires
  <1>7. sub[last].prev \in {"none", "old", "fallback"}
    BY <1>2 DEF TypeOK, SubRow
  <1>8. ASSUME NEW u \in Subs, group' = "old", sub'[u].st = "exhausted" PROVE sub'[u].missed
    <2>1. ~Gone(u) /\ sub[u].st = "exhausted"
      BY <1>3, <1>8
    <2> QED BY <1>3, <1>6, <1>8, <2>1 DEF GroupInv
  <1>9. ASSUME NEW u \in Subs, Usable(u)'
        PROVE  group' = "plan" \/ (group' = "old" /\ sub'[u].missed)
    BY <1>3, <1>5, <1>6, <1>9 DEF GroupInv, GroupFollowsSubscriptions
  <1>10. ASSUME group' = "plan" PROVE NoWayBack' \/ \E u \in Subs : sub'[u].st = "active"
    <2>1. group = "plan" /\ ~Lapses(last)
      BY <1>6, <1>7, <1>10 DEF Lapses
    <2>2. CASE OutOfForce
      <3>1. sub'[last].prev = "none"
        BY <1>3, <2>1, <2>2 DEF Lapses
      <3>2. sub'[last].st = "expired"
        BY <1>1, <1>3 DEF Expires
      <3>3. \A u \in Subs : sub'[u].st = "expired" => u <= last
        BY <1>1, <1>3 DEF Expires
      <3> QED BY <3>1, <3>2, <3>3 DEF NoWayBack
    <2>3. CASE ~OutOfForce
      <3>1. PICK u \in Subs : Usable(u)
        BY <2>3 DEF OutOfForce
      <3> QED BY <1>3, <3>1 DEF Usable, Gone
    <2> QED BY <2>2, <2>3
  <1> QED BY <1>4, <1>8, <1>9, <1>10 DEF GroupInv, GroupFollowsSubscriptions

\* The group is kept at an exhaustion only for a stand-in, and given up only
\* if there is none.
LEMMA GroupExhaust ==
    ASSUME GroupInv, TypeOK', NEW s \in Subs, Exhaust(s)
    PROVE  GroupInv'
  <1>1. /\ sub'[s].st = "exhausted" /\ Usable(s) /\ sub'[s].missed = sub[s].missed
        /\ \A u \in Subs \ {s} : sub'[u] = sub[u]
    BY DEF Exhaust, GroupInv, TypeOK, SubRow
  <1>2. \A u \in Subs : sub'[u].told => sub'[u].st \in {"exhausted", "expired"}
    BY <1>1 DEF GroupInv
  <1>3. ASSUME NEW u \in Subs, group' = "old", sub'[u].st = "exhausted" PROVE sub'[u].missed
    <2>1. group = "old"
      BY <1>3 DEF Exhaust
    <2>2. CASE u = s
      BY <1>1, <2>1, <2>2 DEF GroupInv, GroupFollowsSubscriptions
    <2>3. CASE u # s
      BY <1>1, <1>3, <2>1, <2>3 DEF GroupInv
    <2> QED BY <2>2, <2>3
  <1>4. group' = "plan" => \E u \in Subs : sub'[u].st = "active"
    BY <1>1 DEF Exhaust, StandIns, Usable
  <1>5. ASSUME NEW u \in Subs, Usable(u)'
        PROVE  group' = "plan" \/ (group' = "old" /\ sub'[u].missed)
    <2>1. u # s /\ Usable(u) /\ sub'[u] = sub[u]
      BY <1>1, <1>5 DEF Usable
    <2>2. group = "plan" \/ (group = "old" /\ sub[u].missed)
      BY <2>1 DEF GroupInv, GroupFollowsSubscriptions
    <2>3. u \in StandIns(s)
      BY <2>1 DEF GroupInv, StandIns, Usable
    <2> QED BY <2>1, <2>2, <2>3 DEF Exhaust
  <1> QED BY <1>2, <1>3, <1>4, <1>5 DEF GroupInv, GroupFollowsSubscriptions

\* A purchase brings the group with it.
LEMMA GroupBuy ==
    ASSUME GroupInv, TypeOK', NEW s \in Subs, Buy(s)
    PROVE  GroupInv'
  <1>1. /\ group' = "plan" /\ sub'[s].st = "active" /\ ~sub[s].told
        /\ \A u \in Subs : /\ sub'[u].told = sub[u].told
                           /\ u # s => sub'[u].st = sub[u].st
    BY BuyRows DEF Buy, Bought, GroupInv
  <1>2. \A u \in Subs : sub'[u].told => sub'[u].st \in {"exhausted", "expired"}
    BY <1>1 DEF GroupInv
  <1> QED BY <1>1, <1>2 DEF GroupInv, GroupFollowsSubscriptions

\* The invariant is inductive; one case per action or group of actions that
\* leave status and group alone.
LEMMA GroupStep == GroupInv /\ [Next]_vars => GroupInv'
  <1> SUFFICES ASSUME GroupInv, [Next]_vars PROVE GroupInv'
    OBVIOUS
  <1>1. TypeOK /\ TypeOK'
    BY StepTyped DEF GroupInv
  <1>2. ASSUME NEW s \in Subs \cup {0}, NEW d, Move(s, d), group' = group PROVE GroupInv'
    <2>1. StatusKept
      BY <1>1, <1>2 DEF StatusKept, Move, TypeOK, SubRow
    <2> QED BY <1>1, <1>2, <2>1, GroupFrame
  <1>3. ASSUME sub' = sub, group' = group PROVE GroupInv'
    BY <1>1, <1>3, GroupFrame DEF StatusKept
  <1>4. ASSUME NEW r \in Reqs PROVE req[r].sub \in Subs \cup {0}
    BY <1>1 DEF TypeOK, Request
  <1>5. ASSUME NEW p \in Pollers, poll[p].st \in {"read", "settle"} PROVE poll[p].task \in Reqs
    BY <1>1, <1>5 DEF TypeOK, Poll, Idle
  <1>6. ASSUME NEW r \in Reqs, group' = group, sub' = sub \/ \E d : Move(req[r].sub, d)
        PROVE  GroupInv'
    BY <1>2, <1>3, <1>4, <1>6
  <1>7. ASSUME NEW r \in Reqs,
               Fail(r) \/ RefundAttempt(r) \/ Die(r)
                 \/ (\E a \in Amounts : PreConsumeRefused(r, a) \/ Reserve(r, a))
                 \/ (\E a \in Amounts \cup {0} : Settle(r, a))
        PROVE  GroupInv'
    <2>1. group' = group /\ (sub' = sub \/ \E d : Move(req[r].sub, d))
      BY <1>7 DEF Fail, RefundAttempt, Die, PreConsumeRefused, Reserve, Settle
    <2> QED BY <1>6, <2>1
  <1>8. ASSUME NEW p \in Pollers,
               PollFailure(p) \/ PollProgress(p) \/ PollSuccess(p) \/ PollDies(p)
                 \/ (\E r \in Reqs : PollRead(p, r)) \/ (\E a \in Amounts : TaskSettle(p, a))
        PROVE  GroupInv'
    <2>1. /\ group' = group
          /\ \/ sub' = sub
             \/ poll[p].st \in {"read", "settle"} /\ \E d : Move(req[poll[p].task].sub, d)
      BY <1>8 DEF PollFailure, PollProgress, PollSuccess, PollDies, PollRead, TaskSettle
    <2> QED BY <1>3, <1>5, <1>6, <2>1
  <1>9. ASSUME NEW s \in Subs, PeriodEnds(s) \/ SubscriptionEnds(s) PROVE GroupInv'
    <2>1. ASSUME NEW u \in Subs
          PROVE  /\ sub'[u].st = sub[u].st /\ sub'[u].told = sub[u].told
                 /\ sub'[u].ended \in {sub[u].ended, TRUE}
                 /\ sub'[u].prev = sub[u].prev /\ sub'[u].missed = sub[u].missed
      <3>1. sub[u] \in SubRow
        BY <1>1 DEF TypeOK
      <3>2. \/ sub'[u] = sub[u]
            \/ sub'[u] = [sub[u] EXCEPT !.due = TRUE]
            \/ sub'[u] = [sub[u] EXCEPT !.ended = TRUE]
        BY <1>1, <1>9 DEF PeriodEnds, SubscriptionEnds, TypeOK
      <3> QED BY <3>1, <3>2 DEF SubRow
    <2>2. StatusKept
      BY <2>1, Zenon DEF StatusKept
    <2>3. group' = group
      BY <1>9 DEF PeriodEnds, SubscriptionEnds
    <2> QED BY <1>1, <2>2, <2>3, GroupFrame
  <1>10. ASSUME NEW s \in Subs, ResetDue(s) PROVE GroupInv'
    BY <1>1, <1>10, GroupReset DEF ResetDue
  <1>11. ASSUME NEW s \in Subs, AdminReset(s) PROVE GroupInv'
    <2>1. PICK advance \in BOOLEAN : sub' = [sub EXCEPT ![s] = Revived(@, @.due /\ ~advance)]
      BY <1>11 DEF AdminReset
    <2>2. (sub[s].due /\ ~advance) \in BOOLEAN
      BY <1>1 DEF TypeOK, SubRow
    <2> QED BY <1>1, <1>11, <2>1, <2>2, GroupReset DEF AdminReset
  <1>12. ASSUME NEW s \in Subs, Exhaust(s) PROVE GroupInv'
    BY <1>1, <1>12, GroupExhaust
  <1>13. ASSUME Expire PROVE GroupInv'
    BY <1>1, <1>13, GroupExpire
  <1>14. CASE UNCHANGED vars
    BY <1>3, <1>14 DEF vars
  <1>15. ASSUME NEW r \in Reqs, NEW a \in Amounts, PreConsume(r, a) PROVE GroupInv'
    <2>1. group' = group
      BY <1>15 DEF PreConsume
    <2>2. StatusKept
      BY <1>1, <1>15, PreConsumeRows
    <2> QED BY <1>1, <2>1, <2>2, GroupFrame
  <1>16. ASSUME NEW s \in Subs, Buy(s) PROVE GroupInv'
    BY <1>1, <1>16, GroupBuy
  <1> QED BY <1>7, <1>8, <1>9, <1>10, <1>11, <1>12, <1>13, <1>14, <1>15, <1>16 DEF Next

\* In every order of purchase, exhaustion, reset, expiry and use, and for any
\* number of subscriptions, the user has the plan's group only while one is
\* active or the last to expire knows no way back, and whenever one is usable
\* that was not exhausted when an expiry took the group.
THEOREM GroupRight == Spec => []GroupFollowsSubscriptions
  <1>1. Init => GroupInv
    <2>1. ASSUME Init PROVE group = "old" /\ \A s \in Subs : sub[s].st = "none" /\ ~sub[s].told
      BY <2>1 DEF Init, NotBought
    <2> QED BY <2>1, InitTyped DEF GroupInv, GroupFollowsSubscriptions, Usable
  <1>2. GroupInv => GroupFollowsSubscriptions
    BY DEF GroupInv
  <1> QED BY <1>1, <1>2, GroupStep, PTL DEF Spec

----------------------------------------------------------------------------
(* The books. *)

\* What is known of a request while its life goes on.  Nothing is held before
\* pre-consumption; only a settled request has a task; an open task names the
\* price that was charged, unless the settlement was refused.
Booked(r) ==
    LET q == req[r]
    IN  /\ q.ph \in {"new", "refused"} =>
              q.rec = "none" /\ q.sub = 0 /\ q.held = 0 /\ q.era = "now"
        /\ q.ph \notin {"new", "refused"} => q.sub \in Subs
        /\ q.ph \in {"held", "settled"} => q.rec = "consumed"
        /\ q.ph # "settled" => ~q.short /\ task[r].st = "none"
        /\ task[r].st \in Open /\ ~q.short => task[r].quota = q.price

\* A poller about to settle a task has closed it alone, and finds its price.
Closing ==
    \A p \in Pollers : poll[p].st = "settle" =>
        /\ task[poll[p].task].st = "success"
        /\ ~req[poll[p].task].short => task[poll[p].task].quota = req[poll[p].task].price
        /\ \A o \in Pollers \ {p} : poll[o].st = "settle" => poll[o].task # poll[p].task

\* The invariant under the accounts.
Books == TypeOK /\ Closing /\ \A r \in Reqs : Booked(r)

\* What the requests cost, and what of it a subscription shows as used.
CostOf == [r \in Reqs |-> Cost(r)]
Shares(r, s) == req[r].sub = s /\ req[r].era = "now"
ShareOf(s) == [r \in Reqs |-> IF Shares(r, s) THEN Cost(r) ELSE 0]

\* No charge on s mixes two periods or was left short by a closed task.
Clean(s) == \A r \in Reqs : req[r].sub = s => req[r].era # "mixed" /\ ~Overstated(r)

\* The accounts, as sums over all the requests.
TokenBook == (\A r \in Reqs : ~Overstated(r)) => token = SumFunctionOnSet(CostOf, Reqs)
UsageBook(s) == Clean(s) => sub[s].used = SumFunctionOnSet(ShareOf(s), Reqs)
Accounts == TokenBook /\ \A s \in Subs : UsageBook(s)

\* A cost is an amount.
LEMMA CostTyped ==
    ASSUME TypeOK, NEW r \in Reqs
    PROVE  Cost(r) \in 0..MaxAmount
  BY DEF TypeOK, Request, Cost

\* So the sums are numbers.
LEMMA SumsTyped ==
    ASSUME TypeOK, NEW s \in Subs
    PROVE  /\ SumFunctionOnSet(CostOf, Reqs) \in Int
           /\ SumFunctionOnSet(ShareOf(s), Reqs) \in Int
           /\ \A r \in Reqs : CostOf[r] \in Int /\ ShareOf(s)[r] \in Int
  <1>1. ASSUME NEW r \in Reqs PROVE CostOf[r] \in Int /\ ShareOf(s)[r] \in Int
    <2>1. Cost(r) \in Int
      BY CostTyped
    <2> QED BY <2>1 DEF CostOf, ShareOf
  <1>2. SumFunctionOnSet(CostOf, Reqs) \in Int
    BY <1>1, SumInt
  <1>3. SumFunctionOnSet(ShareOf(s), Reqs) \in Int
    BY <1>1, SumInt
  <1> QED BY <1>1, <1>2, <1>3

\* The accounts say what the properties say.
LEMMA AccountsTold ==
    ASSUME TypeOK, Accounts
    PROVE  TokenAccounted /\ UsageAccounted
  <1>1. TokenAccounted
    BY DEF Accounts, TokenBook, TokenAccounted, CostOf
  <1>2. ASSUME NEW s \in Subs,
               \A r \in {x \in Reqs : req[x].sub = s} : req[r].era # "mixed" /\ ~Overstated(r)
        PROVE  sub[s].used = SumFunctionOnSet(CostOf, {r \in {x \in Reqs : req[x].sub = s} : req[r].era = "now"})
    <2> DEFINE P == {r \in {x \in Reqs : req[x].sub = s} : req[r].era = "now"}
               g == [r \in Reqs |-> IF r \in P THEN CostOf[r] ELSE 0]
    <2>1. Clean(s)
      BY <1>2 DEF Clean
    <2>2. sub[s].used = SumFunctionOnSet(ShareOf(s), Reqs)
      BY <2>1 DEF Accounts, UsageBook
    <2>3. P \in SUBSET Reqs /\ \A r \in Reqs : CostOf[r] \in Int
      BY SumsTyped
    <2>4. g = ShareOf(s)
      BY DEF ShareOf, Shares, CostOf
    <2> HIDE DEF P
    <2>5. SumFunctionOnSet(CostOf, P) = SumFunctionOnSet(g, Reqs)
      BY <2>3, SumPart
    <2> QED BY <2>2, <2>4, <2>5 DEF P
  <1>3. UsageAccounted
    BY <1>2 DEF UsageAccounted, CostOf
  <1> QED BY <1>1, <1>3

\* Nothing is used and nothing costs anything at first.
LEMMA AccountsInit == Init => Accounts
  <1> SUFFICES ASSUME Init PROVE Accounts
    OBVIOUS
  <1>1. \A r \in Reqs : Cost(r) = 0
    BY DEF Init, Cost, NoTask
  <1>2. SumFunctionOnSet(CostOf, Reqs) = 0
    <2>1. \A r \in Reqs : CostOf[r] = 0
      BY <1>1 DEF CostOf
    <2> QED BY <2>1, SumZero
  <1>3. ASSUME NEW s \in Subs PROVE SumFunctionOnSet(ShareOf(s), Reqs) = 0
    <2>1. \A r \in Reqs : ShareOf(s)[r] = 0
      BY <1>1 DEF ShareOf
    <2> QED BY <2>1, SumZero
  <1>4. \A s \in Subs : sub[s].used = 0
    BY DEF Init, NotBought
  <1> QED BY <1>2, <1>3, <1>4 DEF Init, Accounts, TokenBook, UsageBook

----------------------------------------------------------------------------
(* Steps of one request. *)

\* A step that moves d on the two rows, and r's books with them: a charge that
\* a reset has wiped becomes mixed, a task left short is closed, or the cost
\* changes by d.
Moves(r, d) ==
    /\ token' = token + d
    /\ \A u \in Subs : sub'[u].used = IF u = req[r].sub THEN sub[u].used + d ELSE sub[u].used
    /\ req'[r].sub = req[r].sub
    /\ req'[r].era = IF req[r].era = "past" /\ d # 0 THEN "mixed" ELSE req[r].era
    /\ Overstated(r)' \/ (~Overstated(r) /\ Cost(r)' = Cost(r) + d)
    /\ \A x \in Reqs \ {r} : req'[x] = req[x] /\ task'[x] = task[x]

\* A request that rests.
LEMMA RestingCost ==
    ASSUME NEW x \in Reqs, req'[x] = req[x], task'[x] = task[x]
    PROVE  Cost(x)' = Cost(x) /\ (Overstated(x)' <=> Overstated(x))
  BY DEF Cost, Overstated

\* Such a step keeps the accounts.
LEMMA AccountsMoved ==
    ASSUME TypeOK, TypeOK', Accounts, NEW r \in Reqs, NEW d \in Int, Moves(r, d)
    PROVE  Accounts'
  <1>1. ASSUME NEW x \in Reqs, x # r PROVE Cost(x)' = Cost(x) /\ (Overstated(x)' <=> Overstated(x))
    BY <1>1, RestingCost DEF Moves
  <1>2. Cost(r) \in Int
    BY CostTyped
  <1>3. Overstated(r)' \/ (~Overstated(r) /\ Cost(r)' = Cost(r) + d)
    BY DEF Moves
  <1>4. token \in Int /\ \A s \in Subs : sub[s].used \in Int
    BY RowsNumbers
  <1>5. ASSUME \A x \in Reqs : ~Overstated(x)'
        PROVE  token' = SumFunctionOnSet(CostOf', Reqs)
    <2>1. ~Overstated(r) /\ Cost(r)' = Cost(r) + d
      BY <1>3, <1>5
    <2>2. \A x \in Reqs : ~Overstated(x)
      BY <1>1, <1>5, <2>1
    <2>3. token = SumFunctionOnSet(CostOf, Reqs)
      BY <2>2 DEF Accounts, TokenBook
    <2>4. CostOf'[r] = CostOf[r] + d /\ \A x \in Reqs : x # r => CostOf[x] = CostOf'[x]
      BY <1>1, <2>1 DEF CostOf
    <2>5. \A x \in Reqs : CostOf[x] \in Int
      BY CostTyped DEF CostOf
    <2>6. \A x \in Reqs : CostOf'[x] \in Int
      BY <2>4, <2>5
    <2>7. SumFunctionOnSet(CostOf', Reqs) = SumFunctionOnSet(CostOf, Reqs) + CostOf'[r] - CostOf[r]
      BY <2>4, <2>5, <2>6, SumChange
    <2>8. token' = token + d
      BY DEF Moves
    <2>9. CostOf[r] \in Int
      BY <2>5
    <2> QED BY <1>4, <2>3, <2>4, <2>7, <2>8, <2>9
  <1>6. ASSUME NEW s \in Subs, Clean(s)'
        PROVE  sub'[s].used = SumFunctionOnSet(ShareOf(s)', Reqs)
    <2> DEFINE f == ShareOf(s)
               g == ShareOf(s)'
    <2>1. \A x \in Reqs : x # r => f[x] = g[x]
      BY <1>1 DEF ShareOf, Shares, Moves
    <2>2. Clean(s)
      <3>1. ASSUME NEW x \in Reqs, req[x].sub = s PROVE req[x].era # "mixed" /\ ~Overstated(x)
        <4>1. CASE x = r
          BY <1>3, <1>6, <3>1, <4>1 DEF Clean, Moves
        <4>2. CASE x # r
          BY <1>1, <1>6, <3>1, <4>2 DEF Clean, Moves
        <4> QED BY <4>1, <4>2
      <3> QED BY <3>1 DEF Clean
    <2>3. sub[s].used = SumFunctionOnSet(f, Reqs)
      BY <2>2 DEF Accounts, UsageBook
    <2>4. \A x \in Reqs : f[x] \in Int
      BY SumsTyped
    <2>5. /\ g[r] = f[r] + (IF s = req[r].sub THEN d ELSE 0)
          /\ sub'[s].used = sub[s].used + (IF s = req[r].sub THEN d ELSE 0)
      <3>1. CASE s # req[r].sub
        BY <1>4, <3>1 DEF ShareOf, Shares, Moves
      <3>2. CASE s = req[r].sub
        <4>1. req'[r].sub = s /\ req'[r].era # "mixed" /\ ~Overstated(r)'
          BY <1>6, <3>2 DEF Clean, Moves
        <4>2. Cost(r)' = Cost(r) + d
          BY <1>3, <4>1
        <4>3. CASE req[r].era = "past"
          <5>1. d = 0 /\ req'[r].era = "past"
            BY <4>1, <4>3 DEF Moves
          <5>2. f[r] = 0 /\ g[r] = 0
            BY <4>3, <5>1 DEF ShareOf, Shares
          <5>3. sub'[s].used = sub[s].used + d
            BY <3>2 DEF Moves
          <5> QED BY <1>4, <3>2, <5>1, <5>2, <5>3
        <4>4. CASE req[r].era # "past"
          <5>1. req'[r].era = req[r].era
            BY <4>4 DEF Moves
          <5>2. req[r].era = "now"
            BY <4>1, <4>4, <5>1 DEF TypeOK, Request
          <5>3. f[r] = Cost(r) /\ g[r] = Cost(r) + d
            BY <3>2, <4>1, <4>2, <5>1, <5>2 DEF ShareOf, Shares
          <5>4. sub'[s].used = sub[s].used + d
            BY <3>2 DEF Moves
          <5> QED BY <3>2, <5>3, <5>4
        <4> QED BY <4>3, <4>4
      <3> QED BY <3>1, <3>2
    <2>6. f[r] \in Int
      BY <2>4
    <2>7. g[r] \in Int
      BY <2>5, <2>6
    <2>8. \A x \in Reqs : g[x] \in Int
      BY <2>1, <2>4, <2>7
    <2> HIDE DEF f, g
    <2>9. SumFunctionOnSet(g, Reqs) = SumFunctionOnSet(f, Reqs) + g[r] - f[r]
      BY <2>1, <2>4, <2>8, SumChange
    <2>10. sub[s].used \in Int
      BY <1>4
    <2>11. CASE s = req[r].sub
      BY <2>3, <2>5, <2>6, <2>9, <2>10, <2>11 DEF g
    <2>12. CASE s # req[r].sub
      BY <2>3, <2>5, <2>6, <2>9, <2>10, <2>12 DEF g
    <2> QED BY <2>11, <2>12
  <1> QED BY <1>5, <1>6 DEF Accounts, TokenBook, UsageBook

\* Steps that touch no money and no request.
LEMMA AccountsKept ==
    ASSUME Accounts, UNCHANGED <<token, req, task>>,
           \A u \in Subs : sub'[u].used = sub[u].used
    PROVE  Accounts'
  <1>1. CostOf' = CostOf /\ \A s \in Subs : ShareOf(s)' = ShareOf(s)
    BY DEF CostOf, ShareOf, Shares, Cost
  <1>2. \A s \in Subs : Clean(s)' <=> Clean(s)
    BY DEF Clean, Overstated
  <1>3. \A r \in Reqs : Overstated(r)' <=> Overstated(r)
    BY DEF Overstated
  <1> QED BY <1>1, <1>2, <1>3 DEF Accounts, TokenBook, UsageBook

----------------------------------------------------------------------------
(* Resets and pre-consumption. *)

\* What a reset makes of a request.
LEMMA WipedRequest ==
    ASSUME TypeOK, NEW S, NEW x \in Reqs
    PROVE  /\ Wiped(S)[x].ph = req[x].ph /\ Wiped(S)[x].rec = req[x].rec
           /\ Wiped(S)[x].sub = req[x].sub /\ Wiped(S)[x].held = req[x].held
           /\ Wiped(S)[x].price = req[x].price /\ Wiped(S)[x].short = req[x].short
           /\ Wiped(S)[x].era = IF req[x].sub \in S THEN "past" ELSE req[x].era
           /\ Wiped(S)[x].tries = req[x].tries
  <1>1. req[x] \in Request
    BY DEF TypeOK
  <1>2. CASE req[x].sub \in S
    <2>1. Wiped(S)[x] = [req[x] EXCEPT !.era = "past"]
      BY <1>2 DEF Wiped
    <2> QED BY <1>1, <1>2, <2>1 DEF Request
  <1>3. CASE req[x].sub \notin S
    BY <1>3 DEF Wiped
  <1> QED BY <1>2, <1>3

\* Resets of the subscriptions in S keep the accounts: no cost changes, and
\* what S shows as used is nothing, as is what is charged in its new period.
LEMMA AccountsWiped ==
    ASSUME TypeOK, Accounts, NEW S \in SUBSET Subs, req' = Wiped(S), UNCHANGED <<token, task>>,
           \A u \in Subs : sub'[u].used = IF u \in S THEN 0 ELSE sub[u].used
    PROVE  Accounts'
  <1>1. ASSUME NEW x \in Reqs
        PROVE  /\ Cost(x)' = Cost(x) /\ (Overstated(x)' <=> Overstated(x))
               /\ req'[x].sub = req[x].sub
               /\ req'[x].era = IF req[x].sub \in S THEN "past" ELSE req[x].era
    BY WipedRequest DEF Cost, Overstated
  <1>2. CostOf' = CostOf
    BY <1>1 DEF CostOf
  <1>3. ASSUME NEW s \in Subs, Clean(s)'
        PROVE  sub'[s].used = SumFunctionOnSet(ShareOf(s)', Reqs)
    <2>1. CASE s \in S
      <3>1. \A x \in Reqs : ShareOf(s)'[x] = 0
        BY <1>1, <2>1 DEF ShareOf, Shares
      <3>2. SumFunctionOnSet(ShareOf(s)', Reqs) = 0
        BY <3>1, SumZero
      <3> QED BY <2>1, <3>2
    <2>2. CASE s \notin S
      <3>1. Clean(s)
        BY <1>1, <1>3, <2>2 DEF Clean
      <3>2. ShareOf(s)' = ShareOf(s)
        BY <1>1, <2>2 DEF ShareOf, Shares
      <3> QED BY <2>2, <3>1, <3>2 DEF Accounts, UsageBook
    <2> QED BY <2>1, <2>2
  <1> QED BY <1>1, <1>2, <1>3 DEF Accounts, TokenBook, UsageBook

\* What pre-consumption does to the rows and the requests, field by field.
LEMMA PreConsumeFields ==
    ASSUME TypeOK, NEW r \in Reqs, NEW a \in Amounts, PreConsume(r, a)
    PROVE  \E s \in Subs : \E S \in SUBSET Subs :
             /\ \A u \in Subs : sub'[u].used = (IF u \in S THEN 0 ELSE sub[u].used)
                                               + (IF u = s THEN a ELSE 0)
             /\ req'[r].ph = "held" /\ req'[r].rec = "consumed" /\ req'[r].sub = s
             /\ req'[r].held = a /\ req'[r].short = req[r].short
             /\ req'[r].era = IF req[r].sub \in S THEN "past" ELSE req[r].era
             /\ \A x \in Reqs \ {r} : req'[x] = Wiped(S)[x]
  <1>1. PICK s \in Subs :
          LET rolled == {u \in 1..s : Usable(u) /\ sub[u].due}
          IN  /\ sub' = [u \in Subs |->
                           LET x == IF u \in rolled THEN Rolled(sub[u]) ELSE sub[u]
                           IN  IF u = s THEN [x EXCEPT !.used = @ + a] ELSE x]
              /\ req' = [Wiped(rolled) EXCEPT ![r] = [@ EXCEPT !.ph = "held", !.rec = "consumed",
                                                               !.sub = s, !.held = a]]
    BY DEF PreConsume
  <1> DEFINE S == {u \in 1..s : Usable(u) /\ sub[u].due}
             y(u) == IF u \in S THEN Rolled(sub[u]) ELSE sub[u]
             w == Wiped(S)
  <1>2. S \in SUBSET Subs
    OBVIOUS
  <1>3. ASSUME NEW u \in Subs
        PROVE  /\ y(u) \in SubRow /\ y(u).used = IF u \in S THEN 0 ELSE sub[u].used
               /\ y(u).used \in Nat
    <2>1. sub[u] \in SubRow /\ sub[u].used \in Nat
      BY UsageNat DEF TypeOK, SubRow
    <2> QED BY <2>1, RowRolled
  <1>4. ASSUME NEW u \in Subs
        PROVE  sub'[u] = IF u = s THEN [y(u) EXCEPT !.used = y(u).used + a] ELSE y(u)
    BY <1>1
  <1>5. ASSUME NEW u \in Subs
        PROVE  sub'[u].used = y(u).used + (IF u = s THEN a ELSE 0)
    <2> HIDE DEF y
    <2>1. y(u) \in SubRow /\ y(u).used \in Nat
      BY <1>3
    <2>2. CASE u = s
      BY <1>4, <2>1, <2>2 DEF SubRow
    <2>3. CASE u # s
      <3>1. sub'[u] = y(u)
        BY <1>4, <2>3
      <3>2. y(u).used + 0 = y(u).used
        BY <2>1
      <3> QED BY <2>3, <3>1, <3>2
    <2> QED BY <2>2, <2>3
  <1>6. w \in [Reqs -> Request]
    BY WipedTyped
  <1>7. req' = [w EXCEPT ![r] = [w[r] EXCEPT !.ph = "held", !.rec = "consumed", !.sub = s, !.held = a]]
    BY <1>1
  <1>8. /\ w[r].short = req[r].short
        /\ w[r].era = IF req[r].sub \in S THEN "past" ELSE req[r].era
    BY WipedRequest
  <1>9. \A u \in Subs : sub'[u].used = (IF u \in S THEN 0 ELSE sub[u].used) + (IF u = s THEN a ELSE 0)
    BY <1>3, <1>5
  <1> HIDE DEF w, S
  <1>10. /\ req'[r] = [w[r] EXCEPT !.ph = "held", !.rec = "consumed", !.sub = s, !.held = a]
         /\ \A x \in Reqs \ {r} : req'[x] = w[x]
    BY <1>6, <1>7
  <1>11. w[r] \in Request
    BY <1>6
  <1>12. /\ req'[r].ph = "held" /\ req'[r].rec = "consumed" /\ req'[r].sub = s
         /\ req'[r].held = a /\ req'[r].short = w[r].short /\ req'[r].era = w[r].era
    BY <1>10, <1>11 DEF Request
  <1> QED BY <1>2, <1>8, <1>9, <1>10, <1>12 DEF w

\* Pre-consumption keeps the accounts: what it resets shows nothing as used,
\* and the subscription it charges shows the new reservation on top.
LEMMA AccountsCharged ==
    ASSUME Books, TypeOK', Accounts, NEW r \in Reqs, NEW a \in Amounts, PreConsume(r, a)
    PROVE  Accounts'
  <1>t. TypeOK /\ Booked(r)
    BY DEF Books
  <1>1. PICK s \in Subs, S \in SUBSET Subs :
             /\ \A u \in Subs : sub'[u].used = (IF u \in S THEN 0 ELSE sub[u].used)
                                               + (IF u = s THEN a ELSE 0)
             /\ req'[r].ph = "held" /\ req'[r].rec = "consumed" /\ req'[r].sub = s
             /\ req'[r].held = a /\ req'[r].short = req[r].short
             /\ req'[r].era = IF req[r].sub \in S THEN "past" ELSE req[r].era
             /\ \A x \in Reqs \ {r} : req'[x] = Wiped(S)[x]
    BY <1>t, PreConsumeFields
  <1>2. req[r].ph = "new" /\ token' = token + a /\ task' = task
    BY DEF PreConsume
  <1>3. /\ req[r].rec = "none" /\ req[r].sub = 0 /\ req[r].held = 0 /\ req[r].era = "now"
        /\ ~req[r].short /\ task[r].st = "none"
    BY <1>t, <1>2 DEF Booked
  <1>4. Cost(r) = 0 /\ ~Overstated(r)
    BY <1>2, <1>3 DEF Cost, Overstated
  <1>5. Cost(r)' = a /\ ~Overstated(r)' /\ req'[r].era = "now"
    <2>1. req'[r].era = "now"
      BY <1>1, <1>3
    <2>2. Cost(r)' = a
      BY <1>1, <1>2, <1>3 DEF Cost
    <2>3. ~Overstated(r)'
      BY <1>1, <1>3 DEF Overstated
    <2> QED BY <2>1, <2>2, <2>3
  <1>6. ASSUME NEW x \in Reqs, x # r
        PROVE  /\ Cost(x)' = Cost(x) /\ (Overstated(x)' <=> Overstated(x))
               /\ req'[x].sub = req[x].sub
               /\ req'[x].era = IF req[x].sub \in S THEN "past" ELSE req[x].era
    <2>1. req'[x] = Wiped(S)[x] /\ task'[x] = task[x]
      BY <1>1, <1>2, <1>6
    <2> QED BY <1>t, <2>1, WipedRequest DEF Cost, Overstated
  <1>7. token \in Int /\ a \in Int /\ \A u \in Subs : sub[u].used \in Int
    BY <1>t, RowsNumbers
  <1>8. ASSUME \A x \in Reqs : ~Overstated(x)'
        PROVE  token' = SumFunctionOnSet(CostOf', Reqs)
    <2>1. token = SumFunctionOnSet(CostOf, Reqs)
      BY <1>4, <1>6, <1>8 DEF Accounts, TokenBook
    <2>2. CostOf[r] = 0 /\ CostOf'[r] = a /\ \A x \in Reqs : x # r => CostOf[x] = CostOf'[x]
      BY <1>4, <1>5, <1>6 DEF CostOf
    <2>3. \A x \in Reqs : CostOf[x] \in Int
      BY <1>t, CostTyped DEF CostOf
    <2>4. \A x \in Reqs : CostOf'[x] \in Int
      BY <1>7, <2>2, <2>3
    <2>5. SumFunctionOnSet(CostOf', Reqs) = SumFunctionOnSet(CostOf, Reqs) + CostOf'[r] - CostOf[r]
      BY <2>2, <2>3, <2>4, SumChange
    <2> QED BY <1>2, <1>7, <2>1, <2>2, <2>5
  <1>9. ASSUME NEW u \in Subs, Clean(u)'
        PROVE  sub'[u].used = SumFunctionOnSet(ShareOf(u)', Reqs)
    <2> DEFINE f == [x \in Reqs |-> IF u \in S THEN 0 ELSE ShareOf(u)[x]]
               g == ShareOf(u)'
               e == IF u = s THEN a ELSE 0
    <2>1. \A x \in Reqs : f[x] \in Int
      <3>1. \A x \in Reqs : ShareOf(u)[x] \in Int
        BY <1>t, SumsTyped
      <3> QED BY <3>1
    <2>2. \A x \in Reqs : x # r => f[x] = g[x]
      BY <1>6 DEF ShareOf, Shares
    <2>3. f[r] = 0 /\ g[r] = e
      BY <1>1, <1>3, <1>5 DEF ShareOf, Shares
    <2>4. e \in Int
      BY <1>7
    <2>5. SumFunctionOnSet(f, Reqs) = IF u \in S THEN 0 ELSE sub[u].used
      <3>1. CASE u \in S
        <4>1. \A x \in Reqs : f[x] = 0
          BY <3>1
        <4> HIDE DEF f
        <4>2. SumFunctionOnSet(f, Reqs) = 0
          BY <4>1, SumZero
        <4> QED BY <3>1, <4>2
      <3>2. CASE u \notin S
        <4>1. Clean(u)
          BY <1>3, <1>6, <1>9, <3>2 DEF Clean
        <4>2. sub[u].used = SumFunctionOnSet(ShareOf(u), Reqs)
          BY <4>1 DEF Accounts, UsageBook
        <4>3. f = ShareOf(u)
          BY <3>2 DEF ShareOf
        <4> QED BY <3>2, <4>2, <4>3
      <3> QED BY <3>1, <3>2
    <2>6. sub'[u].used = (IF u \in S THEN 0 ELSE sub[u].used) + e
      BY <1>1
    <2> HIDE DEF f, g, e
    <2>7. \A x \in Reqs : g[x] \in Int
      BY <2>1, <2>2, <2>3, <2>4
    <2>8. SumFunctionOnSet(g, Reqs) = SumFunctionOnSet(f, Reqs) + g[r] - f[r]
      BY <2>1, <2>2, <2>7, SumChange
    <2>9. SumFunctionOnSet(f, Reqs) \in Int
      BY <2>1, SumInt
    <2>10. SumFunctionOnSet(g, Reqs) = SumFunctionOnSet(f, Reqs) + e
      BY <2>3, <2>4, <2>8, <2>9
    <2> QED BY <2>5, <2>6, <2>10 DEF g
  <1> QED BY <1>8, <1>9 DEF Accounts, TokenBook, UsageBook

----------------------------------------------------------------------------
(* The books of one request, action by action. *)

\* Late changes nothing but the era, and that only of a charge that was wiped.
LEMMA LateFields ==
    ASSUME NEW q \in Request, NEW d \in Int
    PROVE  /\ Late(q, d) \in Request
           /\ Late(q, d).ph = q.ph /\ Late(q, d).rec = q.rec /\ Late(q, d).sub = q.sub
           /\ Late(q, d).held = q.held /\ Late(q, d).price = q.price
           /\ Late(q, d).short = q.short /\ Late(q, d).tries = q.tries
           /\ Late(q, d).era = IF q.era = "past" /\ d # 0 THEN "mixed" ELSE q.era
  BY DEF Request, Late

\* A move, row by row.
LEMMA MoveRows ==
    ASSUME TypeOK, NEW s \in Subs \cup {0}, NEW d \in Int, Move(s, d)
    PROVE  /\ token' = token + d
           /\ \A u \in Subs : sub'[u].used = IF u = s THEN sub[u].used + d ELSE sub[u].used
  BY DEF Move, TypeOK, SubRow

\* No move.
LEMMA StillRows ==
    ASSUME TypeOK, UNCHANGED <<sub, token>>, NEW s
    PROVE  /\ token' = token + 0
           /\ \A u \in Subs : sub'[u].used = IF u = s THEN sub[u].used + 0 ELSE sub[u].used
  <1>1. token \in Int /\ \A u \in Subs : sub[u].used \in Int
    BY RowsNumbers
  <1> QED BY <1>1

\* What TypeOK and the books say of a request that an action finds.
LEMMA Found ==
    ASSUME Books, NEW r \in Reqs
    PROVE  /\ TypeOK /\ Booked(r) /\ req[r] \in Request /\ task[r] \in Task
           /\ req[r].sub \in Subs \cup {0} /\ req[r].held \in 0..MaxAmount
           /\ task[r].quota \in 0..MaxAmount
  BY DEF Books, TypeOK, Request, Task

\* A request without a closed task changes, and nothing else does.
LEMMA BooksOne ==
    ASSUME Books, TypeOK', NEW r \in Reqs, Booked(r)', task[r].st # "success", poll' = poll,
           \A x \in Reqs \ {r} : req'[x] = req[x] /\ task'[x] = task[x]
    PROVE  Books'
  <1>1. ASSUME NEW x \in Reqs PROVE Booked(x)'
    <2>1. CASE x # r
      BY <2>1 DEF Books, Booked
    <2> QED BY <2>1
  <1>2. Closing'
    <2>1. ASSUME NEW p \in Pollers, poll[p].st = "settle"
          PROVE  poll[p].task \in Reqs /\ poll[p].task # r
      BY <2>1 DEF Books, Closing, TypeOK, Poll, Idle
    <2>2. ASSUME NEW p \in Pollers, poll[p].st = "settle"
          PROVE  /\ task'[poll[p].task] = task[poll[p].task]
                 /\ req'[poll[p].task] = req[poll[p].task]
      BY <2>1, <2>2
    <2> QED BY <2>2 DEF Books, Closing
  <1> QED BY <1>1, <1>2 DEF Books

\* Fail, Die, a refused pre-consumption and an attempt that pays nothing back:
\* the request goes on or ends, the money stays.
LEMMA BooksRest ==
    ASSUME Books, TypeOK', NEW r \in Reqs, UNCHANGED <<sub, token, task, poll>>,
           req[r].ph \in {"new", "held", "refunding"},
           req'[r].ph = "refused" => req[r].ph = "new",
           req'[r].ph \in {"refused", "refunding", "over"},
           req[r].ph = "new" => req'[r].ph = "refused",
           req'[r].rec = req[r].rec, req'[r].sub = req[r].sub, req'[r].held = req[r].held,
           req'[r].short = req[r].short, req'[r].era = req[r].era,
           \A x \in Reqs \ {r} : req'[x] = req[x]
    PROVE  Books' /\ Moves(r, 0)
  <1>f. TypeOK /\ Booked(r) /\ req[r].held \in 0..MaxAmount /\ task'[r] = task[r]
    BY Found
  <1>1. ~req[r].short /\ task[r].st = "none"
    BY <1>f DEF Booked
  <1>2. Booked(r)'
    BY <1>f, <1>1 DEF Booked, Open
  <1>3. Cost(r)' = Cost(r) /\ Cost(r) \in Int
    <2>1. Cost(r)' = Cost(r)
      BY <1>f, <1>1 DEF Cost
    <2>2. Cost(r) \in Int
      BY <1>f, CostTyped
    <2> QED BY <2>1, <2>2
  <1>4. ~Overstated(r) /\ Cost(r)' = Cost(r) + 0
    BY <1>1, <1>3 DEF Overstated
  <1>5. /\ token' = token + 0
        /\ \A u \in Subs : sub'[u].used = IF u = req[r].sub THEN sub[u].used + 0 ELSE sub[u].used
    BY <1>f, StillRows
  <1>6. Moves(r, 0)
    BY <1>4, <1>5 DEF Moves
  <1>7. task[r].st # "success" /\ \A x \in Reqs \ {r} : req'[x] = req[x] /\ task'[x] = task[x]
    BY <1>1
  <1> QED BY <1>2, <1>6, <1>7, BooksOne

\* The three of them.
LEMMA BooksEnd ==
    ASSUME Books, TypeOK', NEW r \in Reqs,
           Fail(r) \/ Die(r) \/ (\E a \in Amounts : PreConsumeRefused(r, a))
    PROVE  Books' /\ Moves(r, 0)
  <1>f. TypeOK /\ req[r] \in Request /\ req \in [Reqs -> Request]
    BY Found DEF TypeOK
  <1>1. CASE Fail(r)
    <2>1. req' = [req EXCEPT ![r] = [req[r] EXCEPT !.ph = "refunding"]] /\ req[r].ph = "held"
          /\ UNCHANGED <<sub, token, task, poll>>
      BY <1>1 DEF Fail
    <2>2. /\ req'[r] = [req[r] EXCEPT !.ph = "refunding"]
          /\ \A x \in Reqs \ {r} : req'[x] = req[x]
      BY <1>f, <2>1
    <2>3. /\ req'[r].ph = "refunding" /\ req'[r].rec = req[r].rec /\ req'[r].sub = req[r].sub
          /\ req'[r].held = req[r].held /\ req'[r].short = req[r].short /\ req'[r].era = req[r].era
      BY <1>f, <2>2 DEF Request
    <2> QED BY <2>1, <2>2, <2>3, BooksRest
  <1>2. CASE Die(r)
    <2>1. /\ req' = [req EXCEPT ![r] = [req[r] EXCEPT !.ph = "over", !.tries = 0]]
          /\ req[r].ph \in {"held", "refunding"} /\ UNCHANGED <<sub, token, task, poll>>
      BY <1>2 DEF Die
    <2>2. /\ req'[r] = [req[r] EXCEPT !.ph = "over", !.tries = 0]
          /\ \A x \in Reqs \ {r} : req'[x] = req[x]
      BY <1>f, <2>1
    <2>3. /\ req'[r].ph = "over" /\ req'[r].rec = req[r].rec /\ req'[r].sub = req[r].sub
          /\ req'[r].held = req[r].held /\ req'[r].short = req[r].short /\ req'[r].era = req[r].era
      BY <1>f, <2>2 DEF Request
    <2> QED BY <2>1, <2>2, <2>3, BooksRest
  <1>3. ASSUME NEW a \in Amounts, PreConsumeRefused(r, a) PROVE Books' /\ Moves(r, 0)
    <2>1. /\ req' = [req EXCEPT ![r] = [req[r] EXCEPT !.ph = "refused"]]
          /\ req[r].ph = "new" /\ UNCHANGED <<sub, token, task, poll>>
      BY <1>3 DEF PreConsumeRefused
    <2>2. /\ req'[r] = [req[r] EXCEPT !.ph = "refused"]
          /\ \A x \in Reqs \ {r} : req'[x] = req[x]
      BY <1>f, <2>1
    <2>3. /\ req'[r].ph = "refused" /\ req'[r].rec = req[r].rec /\ req'[r].sub = req[r].sub
          /\ req'[r].held = req[r].held /\ req'[r].short = req[r].short /\ req'[r].era = req[r].era
      BY <1>f, <2>2 DEF Request
    <2> QED BY <2>1, <2>2, <2>3, BooksRest
  <1> QED BY <1>1, <1>2, <1>3

\* Reserve: the record grows by what the rows pay.
LEMMA BooksReserve ==
    ASSUME Books, TypeOK', NEW r \in Reqs, NEW a \in Amounts, Reserve(r, a)
    PROVE  Books' /\ Moves(r, a)
  <1>f. /\ TypeOK /\ Booked(r) /\ req[r] \in Request /\ req \in [Reqs -> Request] /\ a \in Int
        /\ req[r].sub \in Subs \cup {0} /\ req[r].held \in Int
    BY Found DEF TypeOK
  <1> DEFINE q == Late(req[r], a)
  <1>1. /\ req[r].ph = "held" /\ Move(req[r].sub, a) /\ UNCHANGED <<task, poll>>
        /\ req' = [req EXCEPT ![r] = [q EXCEPT !.held = q.held + a]]
    BY DEF Reserve
  <1>2. /\ q \in Request /\ q.ph = req[r].ph /\ q.rec = req[r].rec /\ q.sub = req[r].sub
        /\ q.held = req[r].held /\ q.short = req[r].short
        /\ q.era = IF req[r].era = "past" /\ a # 0 THEN "mixed" ELSE req[r].era
    BY <1>f, LateFields
  <1> HIDE DEF q
  <1>3. /\ req'[r] = [q EXCEPT !.held = q.held + a]
        /\ \A x \in Reqs \ {r} : req'[x] = req[x] /\ task'[x] = task[x]
    BY <1>f, <1>1
  <1>4. /\ req'[r].ph = "held" /\ req'[r].rec = req[r].rec /\ req'[r].sub = req[r].sub
        /\ req'[r].held = req[r].held + a /\ req'[r].short = req[r].short
        /\ req'[r].era = IF req[r].era = "past" /\ a # 0 THEN "mixed" ELSE req[r].era
    BY <1>1, <1>2, <1>3 DEF Request
  <1>5. req[r].rec = "consumed" /\ ~req[r].short /\ task[r].st = "none" /\ task'[r] = task[r]
    BY <1>f, <1>1 DEF Booked
  <1>6. Booked(r)'
    BY <1>f, <1>1, <1>4, <1>5 DEF Booked, Open
  <1>7. ~Overstated(r) /\ Cost(r)' = Cost(r) + a
    BY <1>1, <1>4, <1>5 DEF Overstated, Cost
  <1>8. /\ token' = token + a
        /\ \A u \in Subs : sub'[u].used = IF u = req[r].sub THEN sub[u].used + a ELSE sub[u].used
    BY <1>f, <1>1, MoveRows
  <1>9. Moves(r, a)
    BY <1>3, <1>4, <1>7, <1>8 DEF Moves
  <1> QED BY <1>1, <1>3, <1>5, <1>6, <1>9, BooksOne

\* Settle: the rows pay the difference to the price, or the request is short.
LEMMA BooksSettle ==
    ASSUME Books, TypeOK', NEW r \in Reqs, NEW a \in Amounts \cup {0}, Settle(r, a)
    PROVE  Books' /\ \E d \in Int : Moves(r, d)
  <1> DEFINE d == a - req[r].held
  <1>f. /\ TypeOK /\ Booked(r) /\ req[r] \in Request /\ req \in [Reqs -> Request] /\ a \in Int
        /\ req[r].sub \in Subs \cup {0} /\ req[r].held \in Int /\ task \in [Reqs -> Task]
    BY Found DEF TypeOK
  <1>d. d \in Int /\ req[r].held + d = a
    BY <1>f
  <1>1. /\ req[r].ph = "held" /\ poll' = poll
        /\ \/ task' = [task EXCEPT ![r] = [st |-> "queued", quota |-> a]]
           \/ task' = task
    BY DEF Settle
  <1>2. req[r].rec = "consumed" /\ ~req[r].short /\ task[r].st = "none" /\ req[r].sub \in Subs
    BY <1>f, <1>1 DEF Booked
  <1>3. /\ task'[r] = task[r] \/ task'[r] = [st |-> "queued", quota |-> a]
        /\ \A x \in Reqs \ {r} : task'[x] = task[x]
    BY <1>f, <1>1
  <1>4. CASE d = 0 \/ MayMove(req[r].sub, d)
    <2> DEFINE q == Late(req[r], d)
    <2>1. /\ Move(req[r].sub, d)
          /\ req' = [req EXCEPT ![r] = [q EXCEPT !.ph = "settled", !.price = a]]
      BY <1>4 DEF Settle
    <2> HIDE DEF d
    <2>2. /\ q \in Request /\ q.rec = req[r].rec /\ q.sub = req[r].sub
          /\ q.held = req[r].held /\ q.short = req[r].short
          /\ q.era = IF req[r].era = "past" /\ d # 0 THEN "mixed" ELSE req[r].era
      BY <1>f, <1>d, LateFields
    <2> HIDE DEF q
    <2>3. /\ req'[r] = [q EXCEPT !.ph = "settled", !.price = a]
          /\ \A x \in Reqs \ {r} : req'[x] = req[x]
      BY <1>f, <2>1
    <2>4. /\ req'[r].ph = "settled" /\ req'[r].rec = req[r].rec /\ req'[r].sub = req[r].sub
          /\ req'[r].price = a /\ req'[r].short = req[r].short
          /\ req'[r].era = IF req[r].era = "past" /\ d # 0 THEN "mixed" ELSE req[r].era
      BY <2>2, <2>3 DEF Request
    <2>5. Booked(r)'
      BY <1>2, <1>3, <2>4 DEF Booked, Open
    <2>6. ~Overstated(r) /\ Cost(r)' = a /\ Cost(r) = req[r].held
      BY <1>1, <1>2, <1>3, <2>4 DEF Overstated, Cost
    <2>7. Cost(r)' = Cost(r) + d
      BY <1>d, <2>6
    <2>8. /\ token' = token + d
          /\ \A u \in Subs : sub'[u].used = IF u = req[r].sub THEN sub[u].used + d ELSE sub[u].used
      BY <1>f, <1>d, <2>1, MoveRows
    <2>9. Moves(r, d)
      BY <1>3, <2>3, <2>4, <2>6, <2>7, <2>8 DEF Moves
    <2> QED BY <1>1, <1>2, <1>3, <1>d, <2>3, <2>5, <2>9, BooksOne
  <1>5. CASE ~(d = 0 \/ MayMove(req[r].sub, d))
    <2>1. /\ UNCHANGED <<sub, token>>
          /\ req' = [req EXCEPT ![r] = [req[r] EXCEPT !.ph = "settled", !.short = TRUE]]
      BY <1>5 DEF Settle
    <2>2. /\ req'[r] = [req[r] EXCEPT !.ph = "settled", !.short = TRUE]
          /\ \A x \in Reqs \ {r} : req'[x] = req[x]
      BY <1>f, <2>1
    <2>3. /\ req'[r].ph = "settled" /\ req'[r].rec = req[r].rec /\ req'[r].sub = req[r].sub
          /\ req'[r].held = req[r].held /\ req'[r].short /\ req'[r].era = req[r].era
      BY <1>f, <2>2 DEF Request
    <2>4. Booked(r)'
      BY <1>2, <2>3 DEF Booked
    <2>5. ~Overstated(r) /\ Cost(r)' = req[r].held /\ Cost(r) = req[r].held
      BY <1>1, <1>2, <1>3, <2>3 DEF Overstated, Cost
    <2>6. Cost(r)' = Cost(r) + 0
      BY <1>f, <2>5
    <2>7. /\ token' = token + 0
          /\ \A u \in Subs : sub'[u].used = IF u = req[r].sub THEN sub[u].used + 0 ELSE sub[u].used
      BY <1>f, <2>1, StillRows
    <2>8. Moves(r, 0)
      BY <1>3, <2>2, <2>3, <2>5, <2>6, <2>7 DEF Moves
    <2> QED BY <1>1, <1>2, <1>3, <2>2, <2>4, <2>8, BooksOne
  <1> QED BY <1>4, <1>5

\* An attempt to pay back: what the request holds goes back once, whether the
\* answer arrives or not, and a later attempt finds the record refunded.
LEMMA BooksRefund ==
    ASSUME Books, TypeOK', NEW r \in Reqs, RefundAttempt(r)
    PROVE  Books' /\ \E d \in Int : Moves(r, d)
  <1> DEFINE q == req[r]
             done(x) == [x EXCEPT !.tries = 0, !.ph = "over"]
             again(x) == IF q.tries + 1 = Attempts THEN done(x) ELSE [x EXCEPT !.tries = @ + 1]
             back == [Late(q, q.held) EXCEPT !.rec = "refunded"]
  <1>f. /\ TypeOK /\ Booked(r) /\ q \in Request /\ req \in [Reqs -> Request]
        /\ q.sub \in Subs \cup {0} /\ q.held \in Int /\ -q.held \in Int
    BY Found DEF TypeOK
  <1>1. /\ q.ph = "refunding" /\ UNCHANGED <<task, poll>>
        /\ \/ /\ Refundable(r) /\ Move(q.sub, -q.held)
              /\ \E x \in {done(back), again(back)} : req' = [req EXCEPT ![r] = x]
           \/ /\ UNCHANGED <<sub, token>>
              /\ \E x \in {done(q), again(q)} : req' = [req EXCEPT ![r] = x]
    BY DEF RefundAttempt
  <1>2. ASSUME NEW x \in Request
        PROVE  \A y \in {done(x), again(x)} :
                 /\ y.ph \in {"over", x.ph} /\ y.rec = x.rec /\ y.sub = x.sub
                 /\ y.held = x.held /\ y.short = x.short /\ y.era = x.era
    BY DEF Request
  <1>3. /\ back \in Request /\ back.ph = q.ph /\ back.rec = "refunded" /\ back.sub = q.sub
        /\ back.held = q.held /\ back.short = q.short
        /\ back.era = IF q.era = "past" /\ q.held # 0 THEN "mixed" ELSE q.era
    <2> DEFINE z == Late(q, q.held)
    <2>1. /\ z \in Request /\ z.ph = q.ph /\ z.sub = q.sub /\ z.held = q.held
          /\ z.short = q.short
          /\ z.era = IF q.era = "past" /\ q.held # 0 THEN "mixed" ELSE q.era
      BY <1>f, LateFields
    <2> HIDE DEF z
    <2>2. back = [z EXCEPT !.rec = "refunded"]
      BY DEF z
    <2> HIDE DEF back, q
    <2> QED BY <2>1, <2>2 DEF Request
  <1>4. ~q.short /\ task[r].st = "none" /\ q.sub \in Subs /\ task'[r] = task[r]
    BY <1>f, <1>1 DEF Booked
  <1> HIDE DEF done, again, back
  <1>5. CASE /\ Refundable(r) /\ Move(q.sub, -q.held)
             /\ \E x \in {done(back), again(back)} : req' = [req EXCEPT ![r] = x]
    <2>1. PICK x \in {done(back), again(back)} : req' = [req EXCEPT ![r] = x]
      BY <1>5
    <2>2. /\ x.ph \in {"over", back.ph} /\ x.rec = back.rec /\ x.sub = back.sub
          /\ x.held = back.held /\ x.short = back.short /\ x.era = back.era
      BY <1>2, <1>3
    <2>3. req'[r] = x /\ \A y \in Reqs \ {r} : req'[y] = req[y]
      BY <1>f, <2>1
    <2>4. /\ req'[r].ph \in {"over", "refunding"} /\ req'[r].rec = "refunded"
          /\ req'[r].sub = q.sub /\ req'[r].short = q.short
          /\ req'[r].era = IF q.era = "past" /\ -q.held # 0 THEN "mixed" ELSE q.era
      <3>1. -q.held # 0 <=> q.held # 0
        BY <1>f
      <3> QED BY <1>1, <1>3, <2>2, <2>3, <3>1
    <2>5. Booked(r)'
      BY <1>4, <2>4 DEF Booked, Open
    <2>6. ~Overstated(r) /\ Cost(r)' = 0 /\ Cost(r) = q.held
      BY <1>1, <1>4, <1>5, <2>4 DEF Overstated, Cost, Refundable
    <2>7. Cost(r)' = Cost(r) + (-q.held)
      BY <1>f, <2>6
    <2>8. /\ token' = token + (-q.held)
          /\ \A u \in Subs : sub'[u].used = IF u = q.sub THEN sub[u].used + (-q.held) ELSE sub[u].used
      BY <1>f, <1>5, MoveRows
    <2>9. Moves(r, -q.held)
      BY <1>1, <2>3, <2>4, <2>6, <2>7, <2>8 DEF Moves
    <2> QED BY <1>1, <1>4, <1>f, <2>3, <2>5, <2>9, BooksOne
  <1>6. CASE /\ UNCHANGED <<sub, token>>
             /\ \E x \in {done(q), again(q)} : req' = [req EXCEPT ![r] = x]
    <2>1. PICK x \in {done(q), again(q)} : req' = [req EXCEPT ![r] = x]
      BY <1>6
    <2>2. /\ x.ph \in {"over", q.ph} /\ x.rec = q.rec /\ x.sub = q.sub
          /\ x.held = q.held /\ x.short = q.short /\ x.era = q.era
      BY <1>2, <1>f
    <2>3. req'[r] = x /\ \A y \in Reqs \ {r} : req'[y] = req[y]
      BY <1>f, <2>1
    <2>4. Books' /\ Moves(r, 0)
      BY <1>1, <1>6, <2>2, <2>3, BooksRest
    <2> QED BY <2>4
  <1> QED BY <1>1, <1>5, <1>6

----------------------------------------------------------------------------
(* Pollers. *)

\* A poller with a task in hand.
LEMMA InHand ==
    ASSUME TypeOK, NEW p \in Pollers, poll[p].st \in {"read", "settle"}
    PROVE  poll[p].task \in Reqs /\ (poll[p].st = "read" => poll[p].saw \in Open)
  BY DEF TypeOK, Poll, Idle

\* A poller reads, gives up or dies: no row changes.
LEMMA BooksLooked ==
    ASSUME Books, TypeOK', NEW p \in Pollers, UNCHANGED <<req, task>>,
           \A o \in Pollers \ {p} : poll'[o] = poll[o], poll'[p].st # "settle"
    PROVE  Books'
  <1>1. \A x \in Reqs : Booked(x)'
    BY DEF Books, Booked
  <1>2. Closing'
    BY DEF Books, Closing
  <1> QED BY <1>1, <1>2 DEF Books

\* A poller that has read the task moves it on: nobody else is closing it.
LEMMA BooksPolled ==
    ASSUME Books, TypeOK', NEW p \in Pollers, NEW r \in Reqs, poll[p].st = "read",
           task[r].st \in Open, Booked(r)', poll'[p].st = "settle" =>
             /\ poll'[p].task = r /\ task'[r].st = "success"
             /\ ~req'[r].short => task'[r].quota = req'[r].price,
           \A o \in Pollers \ {p} : poll'[o] = poll[o],
           \A x \in Reqs \ {r} : req'[x] = req[x] /\ task'[x] = task[x]
    PROVE  Books'
  <1>1. ASSUME NEW x \in Reqs PROVE Booked(x)'
    <2>1. CASE x # r
      BY <2>1 DEF Books, Booked
    <2> QED BY <2>1
  <1>2. ASSUME NEW o \in Pollers \ {p}, poll[o].st = "settle"
        PROVE  /\ poll[o].task \in Reqs /\ poll[o].task # r
               /\ task'[poll[o].task] = task[poll[o].task] /\ req'[poll[o].task] = req[poll[o].task]
    <2>1. poll[o].task \in Reqs
      BY <1>2, InHand DEF Books
    <2>2. poll[o].task # r
      BY <1>2 DEF Books, Closing, Open
    <2> QED BY <2>1, <2>2
  <1>3. Closing'
    <2>1. ASSUME NEW o \in Pollers, poll'[o].st = "settle"
          PROVE  /\ task'[poll'[o].task].st = "success"
                 /\ ~req'[poll'[o].task].short => task'[poll'[o].task].quota = req'[poll'[o].task].price
                 /\ \A i \in Pollers \ {o} : poll'[i].st = "settle" => poll'[i].task # poll'[o].task
      <3>1. CASE o = p
        BY <1>2, <2>1, <3>1
      <3>2. CASE o # p
        <4>1. poll'[o] = poll[o] /\ poll[o].st = "settle"
          BY <2>1, <3>2
        <4>2. /\ task[poll[o].task].st = "success"
              /\ ~req[poll[o].task].short => task[poll[o].task].quota = req[poll[o].task].price
              /\ \A i \in Pollers \ {o} : poll[i].st = "settle" => poll[i].task # poll[o].task
          BY <4>1 DEF Books, Closing
        <4>3. \A i \in Pollers \ {o} : poll'[i].st = "settle" => poll'[i].task # poll'[o].task
          BY <1>2, <3>2, <4>1, <4>2
        <4> QED BY <1>2, <3>2, <4>1, <4>2, <4>3
      <3> QED BY <3>1, <3>2
    <2> QED BY <2>1 DEF Closing
  <1> QED BY <1>1, <1>3 DEF Books

\* A failed task: the price it names goes back with its status.
LEMMA BooksFailure ==
    ASSUME Books, TypeOK', NEW p \in Pollers, PollFailure(p)
    PROVE  Books' /\ (UNCHANGED <<sub, token, req, task>> \/ \E r \in Reqs, d \in Int : Moves(r, d))
  <1>1. /\ poll[p].st = "read" /\ poll' = [poll EXCEPT ![p] = Idle] /\ TypeOK
        /\ poll \in [Pollers -> Poll] /\ Idle.st # "settle"
    BY DEF PollFailure, Books, TypeOK, Idle
  <1>2. PICK r \in Reqs : r = poll[p].task /\ poll[p].saw \in Open
    BY <1>1, InHand
  <1> DEFINE k == task[r].quota
  <1>3. poll'[p].st # "settle" /\ \A o \in Pollers \ {p} : poll'[o] = poll[o]
    BY <1>1
  <1>4. CASE ~(Unmoved(p) /\ MayMove(req[r].sub, -k))
    <2>1. UNCHANGED <<sub, token, req, task>>
      BY <1>2, <1>4 DEF PollFailure
    <2> QED BY <1>3, <2>1, BooksLooked
  <1>5. CASE Unmoved(p) /\ MayMove(req[r].sub, -k)
    <2>f. /\ Booked(r) /\ req[r] \in Request /\ req \in [Reqs -> Request]
          /\ req[r].sub \in Subs \cup {0} /\ task[r] \in Task /\ task \in [Reqs -> Task]
          /\ k \in Int /\ -k \in Int
      BY <1>2, Found DEF TypeOK
    <2> DEFINE q == Late(req[r], k)
    <2>1. /\ task' = [task EXCEPT ![r] = [task[r] EXCEPT !.st = "failure"]]
          /\ Move(req[r].sub, -k) /\ req' = [req EXCEPT ![r] = q]
      BY <1>2, <1>5 DEF PollFailure
    <2>2. task[r].st \in Open
      BY <1>2, <1>5 DEF Unmoved
    <2> HIDE DEF k
    <2>3. /\ q.ph = req[r].ph /\ q.rec = req[r].rec /\ q.sub = req[r].sub
          /\ q.held = req[r].held /\ q.short = req[r].short /\ q.price = req[r].price
          /\ q.era = IF req[r].era = "past" /\ k # 0 THEN "mixed" ELSE req[r].era
      BY <2>f, LateFields
    <2> HIDE DEF q
    <2>4. /\ req'[r] = q /\ task'[r].st = "failure"
          /\ \A x \in Reqs \ {r} : req'[x] = req[x] /\ task'[x] = task[x]
      BY <1>2, <2>f, <2>1 DEF Task
    <2>5. req[r].ph = "settled" /\ req[r].rec = "consumed" /\ req[r].sub \in Subs
      BY <2>f, <2>2 DEF Booked, Open
    <2>6. Booked(r)'
      BY <2>3, <2>4, <2>5 DEF Booked, Open
    <2>7. Overstated(r)' \/ (~Overstated(r) /\ Cost(r)' = Cost(r) + (-k))
      <3>1. CASE req[r].short
        BY <2>3, <2>4, <3>1 DEF Overstated
      <3>2. CASE ~req[r].short
        <4>1. task[r].quota = req[r].price
          BY <2>f, <2>2, <3>2 DEF Booked
        <4>2. Cost(r) = k
          BY <2>2, <2>5, <3>2, <4>1 DEF Cost, Open, k
        <4>3. Cost(r)' = 0 /\ ~Overstated(r)
          BY <2>4, <3>2 DEF Cost, Overstated
        <4> QED BY <2>f, <4>2, <4>3
      <3> QED BY <3>1, <3>2
    <2>8. /\ token' = token + (-k)
          /\ \A u \in Subs : sub'[u].used = IF u = req[r].sub THEN sub[u].used + (-k) ELSE sub[u].used
      BY <1>1, <2>f, <2>1, MoveRows
    <2>9. -k # 0 <=> k # 0
      BY <2>f
    <2>10. Moves(r, -k)
      BY <2>3, <2>4, <2>7, <2>8, <2>9 DEF Moves
    <2>11. Books'
      BY <1>1, <1>2, <1>3, <2>2, <2>4, <2>6, BooksPolled
    <2> QED BY <1>2, <2>f, <2>10, <2>11
  <1> QED BY <1>4, <1>5

\* Progress and success change no cost; success leaves the poller closing.
LEMMA BooksProgress ==
    ASSUME Books, TypeOK', NEW p \in Pollers, PollProgress(p) \/ PollSuccess(p)
    PROVE  Books' /\ (UNCHANGED <<sub, token, req, task>> \/ \E r \in Reqs, d \in Int : Moves(r, d))
  <1>1. /\ poll[p].st = "read" /\ TypeOK /\ UNCHANGED <<sub, token, req>>
        /\ poll \in [Pollers -> Poll] /\ Idle.st # "settle"
    BY DEF PollProgress, PollSuccess, Books, TypeOK, Idle
  <1>2. PICK r \in Reqs : r = poll[p].task /\ poll[p].saw \in Open
    BY <1>1, InHand
  <1>f. Booked(r) /\ task[r] \in Task /\ task \in [Reqs -> Task]
    BY <1>2, Found DEF TypeOK
  <1>3. \A o \in Pollers \ {p} : poll'[o] = poll[o]
    BY <1>1 DEF PollProgress, PollSuccess
  <1>4. CASE ~Unmoved(p)
    <2>1. poll'[p] = Idle
      BY <1>1, <1>4 DEF PollProgress, PollSuccess
    <2>2. task' = task
      <3>1. CASE PollSuccess(p)
        BY <1>4, <3>1 DEF PollSuccess
      <3>2. CASE PollProgress(p)
        <4>1. task' = [task EXCEPT ![r] = [task[r] EXCEPT !.st = task[r].st]]
          BY <1>2, <1>4, <3>2 DEF PollProgress
        <4>2. [task[r] EXCEPT !.st = task[r].st] = task[r]
          BY <1>f DEF Task
        <4> QED BY <1>2, <1>f, <4>1, <4>2
      <3> QED BY <3>1, <3>2
    <2> QED BY <1>1, <1>3, <2>1, <2>2, BooksLooked
  <1>5. CASE Unmoved(p)
    <2>1. \E st \in Open \cup {"success"} :
            /\ task' = [task EXCEPT ![r] = [task[r] EXCEPT !.st = st]]
            /\ poll'[p] = Idle \/ (st = "success" /\ poll'[p] = [st |-> "settle", task |-> r])
      BY <1>1, <1>2, <1>5 DEF PollProgress, PollSuccess
    <2>2. task[r].st \in Open
      BY <1>2, <1>5 DEF Unmoved
    <2>3. PICK st \in Open \cup {"success"} :
            /\ task' = [task EXCEPT ![r] = [task[r] EXCEPT !.st = st]]
            /\ poll'[p] = Idle \/ (st = "success" /\ poll'[p] = [st |-> "settle", task |-> r])
      BY <2>1
    <2>4. /\ task'[r].st = st /\ task'[r].quota = task[r].quota
          /\ \A x \in Reqs \ {r} : req'[x] = req[x] /\ task'[x] = task[x]
      BY <1>1, <1>2, <1>f, <2>3 DEF Task
    <2>5. req[r].ph = "settled" /\ (~req[r].short => task[r].quota = req[r].price)
      BY <1>f, <2>2 DEF Booked, Open
    <2>6. Booked(r)'
      BY <1>1, <1>f, <2>4, <2>5 DEF Booked
    <2>7. Overstated(r)' \/ (~Overstated(r) /\ Cost(r)' = Cost(r) + 0)
      <3>1. st # "failure" /\ task[r].st \notin {"failure", "success"}
        BY <2>2 DEF Open
      <3>2. Cost(r)' = Cost(r) /\ ~Overstated(r)
        BY <1>1, <2>4, <3>1 DEF Cost, Overstated
      <3>3. Cost(r) \in Int
        BY <1>1, <1>2, CostTyped
      <3> QED BY <3>2, <3>3
    <2>8. /\ token' = token + 0
          /\ \A u \in Subs : sub'[u].used = IF u = req[r].sub THEN sub[u].used + 0 ELSE sub[u].used
      BY <1>1, StillRows
    <2>9. Moves(r, 0)
      BY <1>1, <2>4, <2>7, <2>8 DEF Moves
    <2>10. poll'[p].st = "settle" =>
             /\ poll'[p].task = r /\ task'[r].st = "success"
             /\ ~req'[r].short => task'[r].quota = req'[r].price
      BY <1>1, <2>3, <2>4, <2>5
    <2>11. Books'
      BY <1>1, <1>2, <1>3, <2>2, <2>4, <2>6, <2>10, BooksPolled
    <2> QED BY <1>2, <2>9, <2>11
  <1> QED BY <1>4, <1>5

\* The settlement of a task that has succeeded, by the one poller closing it.
LEMMA BooksTaskSettle ==
    ASSUME Books, TypeOK', NEW p \in Pollers, NEW a \in Amounts, TaskSettle(p, a)
    PROVE  Books' /\ (UNCHANGED <<sub, token, req, task>> \/ \E r \in Reqs, d \in Int : Moves(r, d))
  <1>1. /\ poll[p].st = "settle" /\ poll' = [poll EXCEPT ![p] = Idle] /\ TypeOK /\ task' = task
        /\ poll \in [Pollers -> Poll] /\ Idle.st # "settle"
    BY DEF TaskSettle, Books, TypeOK, Idle
  <1>2. PICK r \in Reqs : r = poll[p].task
    BY <1>1, InHand
  <1> DEFINE d == a - task[r].quota
  <1>3. poll'[p].st # "settle" /\ \A o \in Pollers \ {p} : poll'[o] = poll[o]
    BY <1>1
  <1>4. CASE ~(d = 0 \/ MayMove(req[r].sub, d))
    <2>1. UNCHANGED <<sub, token, req, task>>
      BY <1>1, <1>2, <1>4 DEF TaskSettle
    <2> QED BY <1>3, <2>1, BooksLooked
  <1>5. CASE d = 0 \/ MayMove(req[r].sub, d)
    <2>f. /\ Booked(r) /\ req[r] \in Request /\ req \in [Reqs -> Request]
          /\ req[r].sub \in Subs \cup {0} /\ task[r].quota \in Int /\ a \in Int
      BY <1>2, Found DEF TypeOK
    <2>d. d \in Int /\ task[r].quota + d = a
      BY <2>f
    <2>s. /\ task[r].st = "success" /\ (~req[r].short => task[r].quota = req[r].price)
          /\ \A o \in Pollers \ {p} : poll[o].st = "settle" => poll[o].task # r
      BY <1>1, <1>2 DEF Books, Closing
    <2> DEFINE q == Late(req[r], d)
    <2>1. Move(req[r].sub, d) /\ req' = [req EXCEPT ![r] = [q EXCEPT !.price = a]]
      BY <1>2, <1>5 DEF TaskSettle
    <2> HIDE DEF d
    <2>2. /\ q \in Request
          /\ q.ph = req[r].ph /\ q.rec = req[r].rec /\ q.sub = req[r].sub
          /\ q.held = req[r].held /\ q.short = req[r].short
          /\ q.era = IF req[r].era = "past" /\ d # 0 THEN "mixed" ELSE req[r].era
      BY <2>f, <2>d, LateFields
    <2> HIDE DEF q
    <2>3. /\ req'[r] = [q EXCEPT !.price = a]
          /\ \A x \in Reqs \ {r} : req'[x] = req[x] /\ task'[x] = task[x]
      BY <1>1, <1>2, <2>f, <2>1
    <2>4. /\ req'[r].ph = req[r].ph /\ req'[r].rec = req[r].rec /\ req'[r].sub = req[r].sub
          /\ req'[r].price = a /\ req'[r].short = req[r].short
          /\ req'[r].era = IF req[r].era = "past" /\ d # 0 THEN "mixed" ELSE req[r].era
      BY <2>2, <2>3 DEF Request
    <2>5. req[r].ph = "settled" /\ req[r].rec = "consumed" /\ req[r].sub \in Subs
      BY <2>f, <2>s DEF Booked
    <2>6. Booked(r)' /\ \A x \in Reqs \ {r} : Booked(x)'
      <3>1. Booked(r)'
        BY <1>1, <2>4, <2>5, <2>s DEF Booked, Open
      <3>2. \A x \in Reqs \ {r} : Booked(x)'
        BY <2>3 DEF Books, Booked
      <3> QED BY <3>1, <3>2
    <2>7. Overstated(r)' \/ (~Overstated(r) /\ Cost(r)' = Cost(r) + d)
      <3>1. CASE req[r].short
        BY <1>1, <2>4, <2>s, <3>1 DEF Overstated
      <3>2. CASE ~req[r].short
        <4>1. Cost(r) = task[r].quota /\ Cost(r)' = a /\ ~Overstated(r)
          BY <1>1, <2>4, <2>5, <2>s, <3>2 DEF Cost, Overstated
        <4> QED BY <2>d, <4>1
      <3> QED BY <3>1, <3>2
    <2>8. /\ token' = token + d
          /\ \A u \in Subs : sub'[u].used = IF u = req[r].sub THEN sub[u].used + d ELSE sub[u].used
      BY <1>1, <2>f, <2>d, <2>1, MoveRows
    <2>9. Moves(r, d)
      BY <2>3, <2>4, <2>7, <2>8 DEF Moves
    <2>10. Closing'
      <3>1. ASSUME NEW o \in Pollers, poll'[o].st = "settle"
            PROVE  /\ o # p /\ poll'[o] = poll[o] /\ poll[o].task \in Reqs \ {r}
        <4>1. o # p /\ poll'[o] = poll[o] /\ poll[o].st = "settle"
          BY <1>3, <3>1
        <4> QED BY <1>1, <2>s, <4>1, InHand
      <3>2. ASSUME NEW o \in Pollers, poll'[o].st = "settle"
            PROVE  task'[poll[o].task] = task[poll[o].task] /\ req'[poll[o].task] = req[poll[o].task]
        BY <2>3, <3>1, <3>2
      <3> QED BY <3>1, <3>2 DEF Books, Closing
    <2> QED BY <1>2, <2>d, <2>6, <2>9, <2>10 DEF Books
  <1> QED BY <1>4, <1>5

----------------------------------------------------------------------------
\* Resets wipe charges and leave the rest of the books.
LEMMA BooksWiped ==
    ASSUME Books, TypeOK', NEW S \in SUBSET Subs, req' = Wiped(S), UNCHANGED <<task, poll>>
    PROVE  Books'
  <1>1. ASSUME NEW x \in Reqs PROVE Booked(x)'
    <2>1. TypeOK /\ Booked(x) /\ 0 \notin S
      BY DEF Books
    <2>2. /\ req'[x].ph = req[x].ph /\ req'[x].rec = req[x].rec /\ req'[x].sub = req[x].sub
          /\ req'[x].held = req[x].held /\ req'[x].price = req[x].price /\ req'[x].short = req[x].short
          /\ req'[x].era = IF req[x].sub \in S THEN "past" ELSE req[x].era
      BY <2>1, WipedRequest
    <2> QED BY <2>1, <2>2 DEF Booked
  <1>2. \A x \in Reqs : req'[x].price = req[x].price /\ req'[x].short = req[x].short
    BY WipedRequest DEF Books
  <1>3. \A p \in Pollers : poll[p].st = "settle" => poll[p].task \in Reqs
    BY InHand DEF Books
  <1>4. Closing'
    BY <1>2, <1>3 DEF Books, Closing
  <1> QED BY <1>1, <1>4 DEF Books

\* Pre-consumption writes the first entry of a request.
LEMMA BooksCharged ==
    ASSUME Books, TypeOK', NEW r \in Reqs, NEW a \in Amounts, PreConsume(r, a)
    PROVE  Books'
  <1>t. TypeOK /\ Booked(r)
    BY DEF Books
  <1>1. PICK s \in Subs, S \in SUBSET Subs :
             /\ req'[r].ph = "held" /\ req'[r].rec = "consumed" /\ req'[r].sub = s
             /\ req'[r].held = a /\ req'[r].short = req[r].short
             /\ \A x \in Reqs \ {r} : req'[x] = Wiped(S)[x]
    BY <1>t, PreConsumeFields
  <1>2. req[r].ph = "new" /\ UNCHANGED <<task, poll>>
    BY DEF PreConsume
  <1>3. ~req[r].short /\ task[r].st = "none"
    BY <1>t, <1>2 DEF Booked
  <1>4. Booked(r)'
    BY <1>1, <1>2, <1>3 DEF Booked, Open
  <1>5. ASSUME NEW x \in Reqs, x # r
        PROVE  /\ req'[x].ph = req[x].ph /\ req'[x].rec = req[x].rec /\ req'[x].sub = req[x].sub
               /\ req'[x].held = req[x].held /\ req'[x].price = req[x].price
               /\ req'[x].short = req[x].short
               /\ req'[x].era = IF req[x].sub \in S THEN "past" ELSE req[x].era
    <2>1. req'[x] = Wiped(S)[x]
      BY <1>1, <1>5
    <2> QED BY <1>t, <2>1, WipedRequest
  <1>6. ASSUME NEW x \in Reqs, x # r PROVE Booked(x)'
    <2>1. Booked(x) /\ 0 \notin S
      BY DEF Books
    <2> QED BY <1>2, <1>5, <1>6, <2>1 DEF Booked
  <1>7. ASSUME NEW p \in Pollers, poll[p].st = "settle"
        PROVE  poll[p].task \in Reqs /\ poll[p].task # r
    BY <1>t, <1>3, <1>7, InHand DEF Books, Closing
  <1>8. Closing'
    BY <1>2, <1>5, <1>7 DEF Books, Closing
  <1> QED BY <1>4, <1>6, <1>8 DEF Books

\* A reset of one subscription, periodic or by hand.
LEMMA ResetBooked ==
    ASSUME Books, TypeOK', Accounts, NEW s \in Subs, NEW due \in BOOLEAN,
           sub' = [sub EXCEPT ![s] = Revived(sub[s], due)], req' = Wiped({s}),
           UNCHANGED <<token, task, poll>>
    PROVE  Books' /\ Accounts'
  <1>1. TypeOK /\ {s} \in SUBSET Subs
    BY DEF Books
  <1>2. \A u \in Subs : sub'[u].used = IF u \in {s} THEN 0 ELSE sub[u].used
    BY <1>1, RowRevived DEF TypeOK
  <1> HIDE DEF Subs
  <1> QED BY <1>1, <1>2, AccountsWiped, BooksWiped

\* Steps on the subscriptions alone that leave what is used.
LEMMA RowsBooked ==
    ASSUME Books, TypeOK', Accounts, UNCHANGED <<token, req, task, poll>>,
           \A u \in Subs : sub'[u].used = sub[u].used
    PROVE  Books' /\ Accounts'
  <1>1. Books'
    BY DEF Books, Booked, Closing
  <1> QED BY <1>1, AccountsKept

\* Every step keeps books and accounts; one case per action.
LEMMA AccountsStep ==
    Books /\ Accounts /\ [Next]_vars => Books' /\ Accounts'
  <1> SUFFICES ASSUME Books, Accounts, [Next]_vars PROVE Books' /\ Accounts'
    OBVIOUS
  <1>t. TypeOK /\ TypeOK'
    BY StepTyped DEF Books
  <1>m. ASSUME NEW r \in Reqs, NEW d \in Int, Moves(r, d) PROVE Accounts'
    BY <1>t, <1>m, AccountsMoved
  <1>k. ASSUME UNCHANGED <<sub, token, req, task>> PROVE Accounts'
    BY <1>k, AccountsKept
  <1>1. ASSUME NEW r \in Reqs,
               Fail(r) \/ Die(r) \/ (\E a \in Amounts : PreConsumeRefused(r, a))
        PROVE  Books' /\ Accounts'
    BY <1>t, <1>m, <1>1, BooksEnd
  <1>2. ASSUME NEW r \in Reqs, RefundAttempt(r) PROVE Books' /\ Accounts'
    BY <1>t, <1>m, <1>2, BooksRefund
  <1>3. ASSUME NEW r \in Reqs, NEW a \in Amounts, PreConsume(r, a) PROVE Books' /\ Accounts'
    BY <1>t, <1>3, BooksCharged, AccountsCharged
  <1>4. ASSUME NEW r \in Reqs, NEW a \in Amounts, Reserve(r, a) PROVE Books' /\ Accounts'
    <2>1. a \in Int
      OBVIOUS
    <2> QED BY <1>t, <1>m, <1>4, <2>1, BooksReserve
  <1>5. ASSUME NEW r \in Reqs, NEW a \in Amounts \cup {0}, Settle(r, a) PROVE Books' /\ Accounts'
    BY <1>t, <1>m, <1>5, BooksSettle
  <1>6. ASSUME NEW p \in Pollers, PollFailure(p) PROVE Books' /\ Accounts'
    BY <1>t, <1>k, <1>m, <1>6, BooksFailure
  <1>7. ASSUME NEW p \in Pollers, PollProgress(p) \/ PollSuccess(p) PROVE Books' /\ Accounts'
    BY <1>t, <1>k, <1>m, <1>7, BooksProgress
  <1>8. ASSUME NEW p \in Pollers, NEW a \in Amounts, TaskSettle(p, a) PROVE Books' /\ Accounts'
    BY <1>t, <1>k, <1>m, <1>8, BooksTaskSettle
  <1>9. ASSUME NEW p \in Pollers, PollDies(p) \/ (\E r \in Reqs : PollRead(p, r))
        PROVE  Books' /\ Accounts'
    <2>1. /\ UNCHANGED <<sub, token, req, task>> /\ poll'[p].st # "settle"
          /\ \A o \in Pollers \ {p} : poll'[o] = poll[o]
      BY <1>t, <1>9 DEF PollDies, PollRead, TypeOK, Idle
    <2> QED BY <1>t, <1>k, <2>1, BooksLooked
  <1>10. ASSUME NEW s \in Subs, ResetDue(s) PROVE Books' /\ Accounts'
    BY <1>t, <1>10, ResetBooked DEF ResetDue
  <1>11. ASSUME NEW s \in Subs, AdminReset(s) PROVE Books' /\ Accounts'
    <2>1. PICK advance \in BOOLEAN : sub' = [sub EXCEPT ![s] = Revived(@, @.due /\ ~advance)]
      BY <1>11 DEF AdminReset
    <2>2. (sub[s].due /\ ~advance) \in BOOLEAN
      BY <1>t DEF TypeOK, SubRow
    <2> QED BY <1>t, <1>11, <2>1, <2>2, ResetBooked DEF AdminReset
  <1>12. ASSUME NEW s \in Subs, PeriodEnds(s) \/ SubscriptionEnds(s) \/ Exhaust(s)
         PROVE  Books' /\ Accounts'
    <2>1. UNCHANGED <<token, req, task, poll>>
      BY <1>12 DEF PeriodEnds, SubscriptionEnds, Exhaust
    <2>2. ASSUME NEW u \in Subs PROVE sub'[u].used = sub[u].used
      <3>1. sub[u] \in SubRow
        BY <1>t DEF TypeOK
      <3>2. \/ sub'[u] = sub[u]
            \/ sub'[u] = [sub[u] EXCEPT !.due = TRUE]
            \/ sub'[u] = [sub[u] EXCEPT !.ended = TRUE]
            \/ sub'[u] = [sub[u] EXCEPT !.told = TRUE, !.st = "exhausted"]
        BY <1>t, <1>12 DEF PeriodEnds, SubscriptionEnds, Exhaust, TypeOK
      <3> QED BY <3>1, <3>2 DEF SubRow
    <2> QED BY <1>t, <2>1, <2>2, RowsBooked
  <1>13. ASSUME Expire PROVE Books' /\ Accounts'
    <2>1. UNCHANGED <<token, req, task, poll>>
      BY <1>13 DEF Expire
    <2>2. \A u \in Subs : sub'[u].used = sub[u].used
      BY <1>t, <1>13, ExpireTold, ExpireRows
    <2> QED BY <1>t, <2>1, <2>2, RowsBooked
  <1>14. CASE UNCHANGED vars
    BY <1>t, <1>14, RowsBooked DEF vars
  <1>15. ASSUME NEW s \in Subs, Buy(s) PROVE Books' /\ Accounts'
    <2>1. UNCHANGED <<token, req, task, poll>>
      BY <1>15 DEF Buy
    <2>2. \A u \in Subs : sub'[u].used = sub[u].used
      BY <1>t, <1>15, BuyRows
    <2> QED BY <1>t, <2>1, <2>2, RowsBooked
  <1> QED BY <1>1, <1>2, <1>3, <1>4, <1>5, <1>6, <1>7, <1>8, <1>9, <1>10, <1>11, <1>12,
             <1>13, <1>14, <1>15 DEF Next

\* The first books are empty.
LEMMA BooksInit == Init => Books
  <1> SUFFICES ASSUME Init PROVE Books
    OBVIOUS
  <1>1. \A r \in Reqs : Booked(r)
    BY DEF Init, Booked, NoTask, Open
  <1>2. Closing
    BY DEF Init, Closing, Idle
  <1> QED BY <1>1, <1>2, InitTyped DEF Books

\* The token has been charged exactly what its requests cost, and every
\* subscription shows as used exactly what the requests charged in its running
\* period cost, for any number of requests, subscriptions and pollers.
THEOREM SubscriptionAccounts == Spec => [](TokenAccounted /\ UsageAccounted)
  <1>1. Books /\ Accounts => TokenAccounted /\ UsageAccounted
    BY AccountsTold DEF Books
  <1> QED BY <1>1, BooksInit, AccountsInit, AccountsStep, PTL DEF Spec

\* The token's half: neither retried refunds nor pollers that race for one
\* task nor resets take or return anything twice.
THEOREM TokenAlwaysAccounted == Spec => []TokenAccounted
  BY SubscriptionAccounts, PTL

\* The subscriptions' half: a reset starts from nothing, and what was charged
\* before it never shows in the new period, unless it is settled or refunded
\* there.
THEOREM UsageAlwaysAccounted == Spec => []UsageAccounted
  BY SubscriptionAccounts, PTL
=============================================================================
