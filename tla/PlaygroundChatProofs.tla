------------------------ MODULE PlaygroundChatProofs ------------------------
(***************************************************************************)
(* TLAPS proofs about PlaygroundChat, for any number of messages.          *)
(*                                                                         *)
(* Updates find their message by position, so what has to be known is that *)
(* the last message is the one of the request that is out: of the stream,  *)
(* because the page shows Stop as long as there is one, and of a plain     *)
(* request as long as the list was left alone.                             *)
(***************************************************************************)
EXTENDS PlaygroundChat, TLAPS, SequenceTheorems

\* The messages of s show their own texts.
Own(s) == \A i \in DOMAIN s : s[i].text \subseteq {s[i].key}

\* Only the last message may be unfinished.
LastOpen(s) == \A i \in DOMAIN s : s[i].status \in Unfinished => i = Len(s)

\* The two lists differ in texts and states only.
SameShape(s, t) ==
  Len(s) = Len(t) /\ \A i \in DOMAIN s : s[i].key = t[i].key /\ s[i].from = t[i].from

\* The list ends in the message of request k.
EndsIn(s, k) == EndsInAssistant(s) /\ s[Len(s)].key = k

\* What was rendered differs from the state in texts and states only.
Rendered == SameShape(view.msgs, msgs)

\* The page may show Stop when nothing streams any more, but never the other
\* way round, and the stream's message is the last one.
StreamShown == cur # 0 => view.gen /\ EndsIn(msgs, cur)

\* Until a click has crossed a plain request, the message of one that is out
\* is the last one, and all lists show their own texts.
OwnTexts ==
  "crossed" \notin slips =>
     /\ Own(msgs) /\ Own(view.msgs) /\ Own(stored)
     /\ \A k \in Keys : net[k] = "plain" => EndsIn(msgs, k)

\* Until the page has slipped, one message at most is unfinished, in the
\* state and in what a reload finds.
OneOpen == UnfinishedHasRequest /\ (slips = {} => LastOpen(stored))

\* The inductive invariant.
PageInv == TypeOK /\ Rendered /\ StreamShown /\ OwnTexts /\ OneOpen

----------------------------------------------------------------------------
(* Messages and lists of messages. *)

\* What is known of an element of a list.
LEMMA Element ==
  ASSUME NEW s \in Seq(Message), NEW i \in DOMAIN s
  PROVE  /\ Len(s) \in Nat /\ DOMAIN s = 1..Len(s) /\ i \in 1..Len(s)
         /\ s[i] \in Message
<1>1. Len(s) \in Nat /\ DOMAIN s = 1..Len(s)
  BY LenProperties
<1>2. i \in 1..Len(s)
  BY <1>1
<1> QED BY <1>1, <1>2, ElementOfSeq

\* The last element of a list that ends in an assistant's message.
LEMMA LastElement ==
  ASSUME NEW s \in Seq(Message), s # <<>>
  PROVE  Len(s) \in Nat \ {0} /\ Len(s) \in DOMAIN s /\ s[Len(s)] \in Message
<1>1. Len(s) \in Nat /\ DOMAIN s = 1..Len(s) /\ Len(s) \in Nat \ {0}
  BY LenProperties, EmptySeq
<1>2. Len(s) \in 1..Len(s)
  BY <1>1
<1> QED BY <1>1, <1>2, ElementOfSeq

\* The forms an update gives to a message: its key and author stay.
LEMMA Forms ==
  ASSUME NEW m \in Message, NEW r \in Keys
  PROVE  /\ Chunked(m, r) \in Message /\ Completed(m) \in Message
         /\ WithError(m, r) \in Message /\ WithAnswer(m, r) \in Message
         /\ Chunked(m, r).key = m.key /\ Chunked(m, r).from = m.from
         /\ Completed(m).key = m.key /\ Completed(m).from = m.from
         /\ WithError(m, r).key = m.key /\ WithError(m, r).from = m.from
         /\ WithAnswer(m, r).key = m.key /\ WithAnswer(m, r).from = m.from
         /\ Chunked(m, r).text \subseteq m.text \cup {r}
         /\ Completed(m).text = m.text
         /\ WithError(m, r).text = {r} /\ WithAnswer(m, r).text = {r}
         /\ Completed(m).status \notin Unfinished
         /\ WithError(m, r).status \notin Unfinished
         /\ WithAnswer(m, r).status \notin Unfinished
<1>1. m.text \cup {r} \in SUBSET Keys /\ {r} \in SUBSET Keys
  BY DEF Message
<1> QED BY <1>1 DEF Message, Unfinished, Chunked, Completed, WithError, WithAnswer

\* A list with its last message replaced.
LEMMA Updated ==
  ASSUME NEW s \in Seq(Message), NEW m \in Message, EndsInAssistant(s)
  PROVE  /\ updateLastAssistantMessage(s, m) \in Seq(Message)
         /\ Len(updateLastAssistantMessage(s, m)) = Len(s)
         /\ \A j \in 1..Len(s) : updateLastAssistantMessage(s, m)[j]
                                    = IF j = Len(s) THEN m ELSE s[j]
<1>1. Len(s) \in 1..Len(s)
  BY LastElement, LenProperties DEF EndsInAssistant
<1> QED BY <1>1, ExceptSeq DEF updateLastAssistantMessage

----------------------------------------------------------------------------
(* The two ways the lists change. *)

\* A click that leaves the list s and the stream c.
LEMMA Click ==
  ASSUME PageInv,
         NEW s \in Seq(Message), NEW c \in 0..MaxKey,
         FromClick(s, c), cur' = c,
         net' \in [Keys -> {"none", "stream", "plain"}], got' \subseteq Keys,
         editing' \in 0..MaxKey, used' \in 0..MaxKey,
         slips' \subseteq {"crossed", "stale", "nochoice"},
         (c # 0 => EndsIn(s, c)),
         ("crossed" \notin slips' =>
            Own(s) /\ \A k \in Keys : net'[k] = "plain" => EndsIn(s, k)),
         (slips' = {} =>
            \A i \in DOMAIN s :
               s[i].status \in Unfinished
                  => i = Len(s) /\ (net'[s[i].key] = "plain" \/ c = s[i].key))
  PROVE  PageInv'
<1>1. msgs' = s /\ stored' = s /\ view'.msgs = s /\ view'.gen = (c # 0) /\ dirty' = FALSE
  BY DEF FromClick
<1>2. TypeOK'
  BY <1>1 DEF TypeOK
<1>3. Rendered'
  BY <1>1 DEF Rendered, SameShape
<1>4. StreamShown'
  BY <1>1 DEF StreamShown
<1>5. OwnTexts'
  BY <1>1 DEF OwnTexts
<1>6. OneOpen'
  BY <1>1 DEF OneOpen, UnfinishedHasRequest, LastOpen
<1> QED BY <1>2, <1>3, <1>4, <1>5, <1>6 DEF PageInv

\* An event of the network that gives the last message the form m.
LEMMA Event ==
  ASSUME PageInv, NEW m, FromNetwork(m),
         (EndsInAssistant(msgs) => /\ m \in Message
                                   /\ m.key = msgs[Len(msgs)].key
                                   /\ m.from = msgs[Len(msgs)].from),
         cur' \in {cur, 0},
         net' \in [Keys -> {"none", "stream", "plain"}], got' \subseteq Keys,
         UNCHANGED <<editing, used, slips>>,
         \A k \in Keys : net'[k] = "plain" => net[k] = "plain",
         ("crossed" \notin slips /\ EndsInAssistant(msgs) => m.text \subseteq {m.key}),
         (slips = {} => /\ EndsInAssistant(msgs)
                        /\ m.status \in Unfinished
                             => net'[m.key] = "plain" \/ cur' = m.key)
  PROVE  PageInv'
<1> DEFINE n == Len(msgs)
<1>1. /\ msgs' = updateLastAssistantMessage(msgs, m) /\ view' = view
      /\ dirty' \in BOOLEAN /\ (stored' = stored \/ stored' = msgs')
  BY DEF FromNetwork, PageInv, TypeOK
<1>2. /\ msgs \in Seq(Message) /\ n \in Nat /\ DOMAIN msgs = 1..n
      /\ view.msgs \in Seq(Message) /\ DOMAIN view.msgs = 1..n
  <2>1. msgs \in Seq(Message) /\ view.msgs \in Seq(Message) /\ Len(view.msgs) = n
    BY DEF PageInv, TypeOK, Rendered, SameShape
  <2> QED BY <2>1, LenProperties
<1>3. /\ msgs' \in Seq(Message) /\ Len(msgs') = n /\ DOMAIN msgs' = 1..n
      /\ \A j \in 1..n : \/ msgs'[j] = msgs[j] /\ ~(j = n /\ EndsInAssistant(msgs))
                         \/ msgs'[j] = m /\ j = n /\ EndsInAssistant(msgs)
  <2>1. CASE EndsInAssistant(msgs)
    <3>1. m \in Message
      BY <2>1
    <3>2. msgs' \in Seq(Message) /\ Len(msgs') = n
      BY <1>1, <1>2, <2>1, <3>1, Updated
    <3>3. \A j \in 1..n : msgs'[j] = IF j = n THEN m ELSE msgs[j]
      BY <1>1, <1>2, <2>1, <3>1, Updated
    <3> QED BY <2>1, <3>2, <3>3, LenProperties
  <2>2. CASE ~EndsInAssistant(msgs)
    BY <1>1, <1>2, <2>2 DEF updateLastAssistantMessage
  <2> QED BY <2>1, <2>2
<1>4. \A j \in 1..n : msgs'[j].key = msgs[j].key /\ msgs'[j].from = msgs[j].from
  BY <1>3
<1>5. EndsInAssistant(msgs) => n \in 1..n /\ msgs[n].from = "assistant"
  BY <1>2, LastElement DEF EndsInAssistant
<1>6. \A k : EndsIn(msgs, k) => EndsIn(msgs', k)
  <2>1. SUFFICES ASSUME NEW k, EndsIn(msgs, k) PROVE EndsIn(msgs', k)
    OBVIOUS
  <2>2. EndsInAssistant(msgs) /\ msgs[n].key = k
    BY <2>1 DEF EndsIn
  <2>3. n \in 1..n /\ msgs'[n].from = "assistant" /\ msgs'[n].key = k
    BY <1>4, <1>5, <2>2
  <2>4. msgs' # <<>>
    <3>1. n # 0
      BY <1>2, <2>3
    <3>2. Len(<<>>) = 0
      BY EmptySeq
    <3> QED BY <1>3, <3>1, <3>2
  <2> QED BY <1>3, <2>3, <2>4 DEF EndsIn, EndsInAssistant
<1>7. TypeOK'
  <2>1. /\ cur \in 0..MaxKey /\ stored \in Seq(Message) /\ view.msgs \in Seq(Message)
        /\ view.gen \in BOOLEAN /\ editing \in 0..MaxKey /\ used \in 0..MaxKey
        /\ slips \subseteq {"crossed", "stale", "nochoice"}
    BY DEF PageInv, TypeOK
  <2>2. 0 \in 0..MaxKey
    BY PlaygroundAssumption
  <2>3. cur' \in 0..MaxKey
    BY <2>1, <2>2
  <2>4. stored' \in Seq(Message)
    BY <1>1, <1>3, <2>1
  <2> QED BY <1>1, <1>3, <2>1, <2>3, <2>4 DEF TypeOK
<1>8. Rendered'
  BY <1>1, <1>2, <1>3, <1>4 DEF PageInv, Rendered, SameShape
<1>9. StreamShown'
  BY <1>1, <1>6 DEF PageInv, StreamShown
<1>10. OwnTexts'
  <2>1. SUFFICES ASSUME "crossed" \notin slips
                 PROVE  /\ Own(msgs') /\ Own(view'.msgs) /\ Own(stored')
                        /\ \A k \in Keys : net'[k] = "plain" => EndsIn(msgs', k)
    BY DEF OwnTexts
  <2>2. Own(msgs) /\ Own(view.msgs) /\ Own(stored)
    BY <2>1 DEF PageInv, OwnTexts
  <2>3. Own(msgs')
    BY <1>2, <1>3, <2>1, <2>2 DEF Own
  <2>4. \A k \in Keys : net'[k] = "plain" => EndsIn(msgs', k)
    BY <1>6, <2>1 DEF PageInv, OwnTexts
  <2> QED BY <1>1, <2>2, <2>3, <2>4
<1>11. OneOpen'
  <2>1. SUFFICES ASSUME slips = {}
                 PROVE  /\ \A i \in DOMAIN msgs' :
                             msgs'[i].status \in Unfinished
                                => /\ i = Len(msgs')
                                   /\ net'[msgs'[i].key] = "plain" \/ cur' = msgs'[i].key
                        /\ LastOpen(stored')
    BY DEF OneOpen, UnfinishedHasRequest
  <2>2. \A i \in 1..n : msgs[i].status \in Unfinished => i = n
    BY <1>2, <2>1 DEF PageInv, OneOpen, UnfinishedHasRequest
  <2>3. \A i \in 1..n : msgs'[i].status \in Unfinished => i = n /\ msgs'[i] = m
    BY <1>3, <2>1, <2>2
  <2>4. LastOpen(msgs')
    BY <1>3, <2>3 DEF LastOpen
  <2>5. LastOpen(stored)
    BY <2>1 DEF PageInv, OneOpen
  <2> QED BY <1>1, <1>3, <2>1, <2>3, <2>4, <2>5
<1> QED BY <1>7, <1>8, <1>9, <1>10, <1>11 DEF PageInv

----------------------------------------------------------------------------
(* The network. *)

\* The request r that streams, or of which a plain answer is out.
LEMMA Asked ==
  ASSUME PageInv, NEW r \in Keys, cur = r \/ (net[r] = "plain" /\ "crossed" \notin slips)
  PROVE  EndsInAssistant(msgs) /\ LastMessage.key = r
<1>1. r # 0
  BY PlaygroundAssumption DEF Keys
<1> QED BY <1>1 DEF PageInv, StreamShown, OwnTexts, EndsIn, LastMessage

\* The message an event updates.
LEMMA LastTyped ==
  ASSUME PageInv, EndsInAssistant(msgs)
  PROVE  LastMessage \in Message /\ ("crossed" \notin slips => LastMessage.text \subseteq {LastMessage.key})
<1>1. msgs \in Seq(Message)
  BY DEF PageInv, TypeOK
<1>2. LastMessage \in Message /\ Len(msgs) \in DOMAIN msgs
  BY <1>1, LastElement DEF EndsInAssistant, LastMessage
<1> QED BY <1>2 DEF PageInv, OwnTexts, Own, LastMessage

\* A chunk of the current stream.
LEMMA ChunkInductive ==
  ASSUME PageInv, NEW r \in Keys, StreamChunk(r)
  PROVE  PageInv'
<1> DEFINE m == Chunked(LastMessage, r)
<1>1. /\ FromNetwork(m) /\ cur = r /\ UNCHANGED <<cur, net, editing, used, slips>>
      /\ got' \subseteq Keys
  BY DEF StreamChunk, isCurrent, PageInv, TypeOK
<1>2. EndsInAssistant(msgs) /\ LastMessage.key = r
  BY <1>1, Asked
<1>3. LastMessage \in Message
  BY <1>2, LastTyped
<1>4. m \in Message /\ m.key = LastMessage.key /\ m.from = LastMessage.from
  BY <1>3, Forms
<1>5. m.text \subseteq LastMessage.text \cup {r}
  BY <1>3, Forms
<1>6. "crossed" \notin slips => m.text \subseteq {m.key}
  BY <1>2, <1>4, <1>5, LastTyped
<1>7. net' \in [Keys -> {"none", "stream", "plain"}]
  BY <1>1 DEF PageInv, TypeOK
<1> HIDE DEF m
<1> QED BY <1>1, <1>2, <1>4, <1>6, <1>7, Event DEF LastMessage

\* An event after which the request r is not out any more, and its message is
\* finished.
LEMMA RequestDone ==
  ASSUME PageInv, NEW r \in Keys, NEW m, FromNetwork(m),
         cur = r \/ net[r] = "plain",
         (LastMessage \in Message => /\ m \in Message
                                     /\ m.key = LastMessage.key
                                     /\ m.from = LastMessage.from
                                     /\ m.status \notin Unfinished
                                     /\ m.text \in {LastMessage.text, {r}}),
         cur' \in {cur, 0}, net' = [net EXCEPT ![r] = "none"],
         UNCHANGED <<got, editing, used, slips>>
  PROVE  PageInv'
<1>1. EndsInAssistant(msgs) => /\ m \in Message /\ m.key = LastMessage.key
                               /\ m.from = LastMessage.from
                               /\ m.status \notin Unfinished
                               /\ m.text \in {LastMessage.text, {r}}
  BY LastTyped
<1>2. "crossed" \notin slips => EndsInAssistant(msgs) /\ LastMessage.key = r
  BY Asked
<1>3. "crossed" \notin slips => m.text \subseteq {m.key}
  BY <1>1, <1>2, LastTyped
<1>4. slips = {} => EndsInAssistant(msgs) /\ m.status \notin Unfinished
  BY <1>1, <1>2
<1>5. /\ net' \in [Keys -> {"none", "stream", "plain"}] /\ got' \subseteq Keys
      /\ \A k \in Keys : net'[k] = "plain" => net[k] = "plain"
  BY DEF PageInv, TypeOK
<1> QED BY <1>1, <1>3, <1>4, <1>5, Event DEF LastMessage

\* The end of the current stream.
LEMMA EndInductive ==
  ASSUME PageInv, NEW r \in Keys, StreamEnds(r)
  PROVE  PageInv'
<1>1. PICK how \in {"done", "error", "lost"} : settle(r, how)
  BY DEF StreamEnds
<1>2. /\ cur = r /\ cur' = 0 /\ net' = [net EXCEPT ![r] = "none"]
      /\ UNCHANGED <<got, editing, used, slips>>
  BY <1>1 DEF StreamEnds, isCurrent, settle
<1>3. CASE FromNetwork(Completed(LastMessage))
  BY <1>2, <1>3, Forms, RequestDone
<1>4. CASE FromNetwork(WithError(LastMessage, r))
  BY <1>2, <1>4, Forms, RequestDone
<1> QED BY <1>1, <1>3, <1>4 DEF settle

\* A plain answer, or its failure.
LEMMA PlainInductive ==
  ASSUME PageInv, NEW r \in Keys, PlainAnswers(r) \/ PlainFails(r)
  PROVE  PageInv'
<1>1. /\ net[r] = "plain" /\ cur' = cur /\ net' = [net EXCEPT ![r] = "none"]
      /\ UNCHANGED <<got, editing, used, slips>>
  BY DEF PlainAnswers, PlainFails
<1>2. CASE FromNetwork(WithAnswer(LastMessage, r))
  BY <1>1, <1>2, Forms, RequestDone
<1>3. CASE FromNetwork(WithError(LastMessage, r))
  BY <1>1, <1>3, Forms, RequestDone
<1> QED BY <1>2, <1>3 DEF PlainAnswers, PlainFails

\* What leaves the lists and the stream alone and gives up a request that is
\* not the current stream: the end of a stopped stream, an answer dropped.
LEMMA QuietInductive ==
  ASSUME PageInv, NEW r \in Keys, StreamGone(r) \/ PlainNoChoice(r)
  PROVE  PageInv'
<1>1. /\ UNCHANGED <<msgs, view, dirty, stored, cur, got, editing, used>>
      /\ net' = [net EXCEPT ![r] = "none"]
      /\ (slips' = slips /\ net[r] = "stream") \/ slips' = slips \cup {"nochoice"}
  BY DEF StreamGone, PlainNoChoice
<1>2. TypeOK'
  BY <1>1 DEF PageInv, TypeOK
<1>3. Rendered' /\ StreamShown'
  BY <1>1 DEF PageInv, Rendered, StreamShown
<1>4. "crossed" \notin slips' => "crossed" \notin slips
  BY <1>1
<1>5. net \in [Keys -> {"none", "stream", "plain"}]
  BY DEF PageInv, TypeOK
<1>6. \A k \in Keys : net'[k] = "plain" => net[k] = "plain"
  BY <1>1, <1>5
<1>7. OwnTexts'
  BY <1>1, <1>4, <1>6 DEF PageInv, OwnTexts
<1>8. OneOpen'
  <2>1. SUFFICES ASSUME slips' = {} PROVE OneOpen'
    BY DEF OneOpen, UnfinishedHasRequest
  <2>2. slips = {} /\ net[r] = "stream"
    BY <1>1, <2>1
  <2>3. \A k \in Keys : net[k] = "plain" => net'[k] = "plain"
    BY <1>1, <1>5, <2>2
  <2>4. \A i \in DOMAIN msgs : msgs[i].key \in Keys
    BY Element DEF PageInv, TypeOK, Message
  <2> QED BY <1>1, <2>2, <2>3, <2>4 DEF PageInv, OneOpen, UnfinishedHasRequest
<1> QED BY <1>2, <1>3, <1>7, <1>8 DEF PageInv

----------------------------------------------------------------------------
(* The user. *)

\* What a click that adds no slip knows of the page.
LEMMA Slips ==
  ASSUME PageInv, NEW b \in BOOLEAN, Slip(b)
  PROVE  /\ slips' \subseteq {"crossed", "stale", "nochoice"}
         /\ "crossed" \notin slips' => "crossed" \notin slips
         /\ "crossed" \notin slips' /\ b => \A k \in Keys : net[k] # "plain"
         /\ slips' = {} => slips = {} /\ view.msgs = msgs
BY DEF Slip, PageInv, TypeOK

\* While Send is offered nothing streams, and without a plain request either
\* nothing on the page is unfinished.
LEMMA NothingOpen ==
  ASSUME PageInv, CanSend, Slip(TRUE)
  PROVE  /\ cur = 0
         /\ slips' = {} => \A i \in DOMAIN view.msgs : view.msgs[i].status \notin Unfinished
<1>1. cur = 0
  BY DEF PageInv, StreamShown, CanSend
<1>2. SUFFICES ASSUME slips' = {}
               PROVE  \A i \in DOMAIN view.msgs : view.msgs[i].status \notin Unfinished
  BY <1>1
<1>3. slips = {} /\ view.msgs = msgs /\ \A k \in Keys : net[k] # "plain"
  BY <1>2, Slips
<1>4. \A i \in DOMAIN msgs : msgs[i].key \in Keys
  BY Element DEF PageInv, TypeOK, Message
<1>5. 0 \notin Keys
  BY DEF Keys
<1> QED BY <1>1, <1>3, <1>4, <1>5 DEF PageInv, OneOpen, UnfinishedHasRequest

\* What a list owes to the rendered one.
Taken(m, s) ==
  \/ m.status = "complete" /\ m.text = {}
  \/ \E i \in DOMAIN s : m = s[i]

\* t asks for a message k after messages taken from s.
Asks(t, s, k) ==
  /\ t \in Seq(Message) /\ t # <<>>
  /\ t[Len(t)] = createLoadingAssistantMessage(k)
  /\ \A j \in DOMAIN t : j # Len(t) => Taken(t[j], s)

\* A list that ends in the message asked for.
LEMMA Appended ==
  ASSUME NEW s \in Seq(Message), NEW t \in Seq(Message), NEW k \in Keys,
         \A j \in DOMAIN t : Taken(t[j], s)
  PROVE  Asks(t \o <<createLoadingAssistantMessage(k)>>, s, k)
<1> DEFINE m == createLoadingAssistantMessage(k)
           u == t \o <<m>>
<1>1. m \in Message
  BY DEF createLoadingAssistantMessage, Message, Unfinished
<1> HIDE DEF m
<1>2. <<m>> \in Seq(Message) /\ Len(<<m>>) = 1 /\ <<m>>[1] = m
  BY <1>1
<1>3. Len(t) \in Nat /\ DOMAIN t = 1..Len(t)
  BY LenProperties
<1>4. /\ u \in Seq(Message) /\ Len(u) = Len(t) + 1
      /\ \A i \in 1..(Len(t) + 1) : u[i] = IF i <= Len(t) THEN t[i] ELSE <<m>>[i - Len(t)]
  BY <1>2, ConcatProperties
<1> HIDE DEF u
<1>5. DOMAIN u = 1..(Len(t) + 1)
  BY <1>4, LenProperties
<1>6. u # <<>>
  <2>1. Len(u) # 0
    BY <1>3, <1>4
  <2> QED BY <2>1, EmptySeq
<1>7. u[Len(u)] = m
  BY <1>2, <1>3, <1>4
<1>8. ASSUME NEW j \in DOMAIN u, j # Len(u) PROVE Taken(u[j], s)
  <2>1. j \in 1..Len(t) /\ j \in 1..(Len(t) + 1) /\ j <= Len(t)
    BY <1>3, <1>4, <1>5, <1>8
  <2>2. u[j] = t[j]
    BY <1>4, <2>1
  <2> QED BY <1>3, <2>1, <2>2
<1>9. Asks(u, s, k)
  BY <1>4, <1>6, <1>7, <1>8 DEF Asks, m
<1> QED BY <1>9 DEF u, m

\* The first messages of a list.
LEMMA CutOff ==
  ASSUME NEW s \in Seq(Message), NEW n \in 0..Len(s)
  PROVE  /\ SubSeq(s, 1, n) \in Seq(Message) /\ Len(SubSeq(s, 1, n)) = n
         /\ \A j \in DOMAIN SubSeq(s, 1, n) : Taken(SubSeq(s, 1, n)[j], s)
<1> DEFINE t == SubSeq(s, 1, n)
<1>1. Len(s) \in Nat /\ DOMAIN s = 1..Len(s)
  BY LenProperties
<1>2. n \in Int /\ n >= 0 /\ \A i \in 1..n : i \in 1..Len(s) /\ s[i] \in Message
  BY <1>1, ElementOfSeq
<1>3. /\ t \in Seq(Message) /\ Len(t) = (IF 1 <= n THEN n - 1 + 1 ELSE 0)
      /\ \A i \in 1..(n - 1 + 1) : t[i] = s[1 + i - 1]
  BY <1>2, SubSeqProperties
<1> HIDE DEF t
<1>4. Len(t) = n /\ \A i \in 1..n : t[i] = s[i]
  BY <1>2, <1>3
<1>5. \A j \in DOMAIN t : Taken(t[j], s)
  BY <1>1, <1>2, <1>3, <1>4, LenProperties DEF Taken
<1> QED BY <1>3, <1>4, <1>5 DEF t

\* The other messages of a list.
LEMMA CutOut ==
  ASSUME NEW s \in Seq(Message), NEW i \in DOMAIN s
  PROVE  LET t == SubSeq(s, 1, i - 1) \o SubSeq(s, i + 1, Len(s))
         IN  t \in Seq(Message) /\ \A j \in DOMAIN t : Taken(t[j], s)
<1> DEFINE a == SubSeq(s, 1, i - 1)
           b == SubSeq(s, i + 1, Len(s))
           t == a \o b
<1>1. Len(s) \in Nat /\ DOMAIN s = 1..Len(s) /\ i \in 1..Len(s)
  BY LenProperties
<1>2. i - 1 \in 0..Len(s)
  BY <1>1
<1>3. a \in Seq(Message) /\ \A j \in DOMAIN a : Taken(a[j], s)
  BY <1>2, CutOff
<1>4. i + 1 \in Int /\ Len(s) \in Int /\ \A j \in (i + 1)..Len(s) : j \in 1..Len(s) /\ s[j] \in Message
  BY <1>1, ElementOfSeq
<1>5. /\ b \in Seq(Message)
      /\ Len(b) = (IF i + 1 <= Len(s) THEN Len(s) - (i + 1) + 1 ELSE 0)
      /\ \A j \in 1..(Len(s) - (i + 1) + 1) : b[j] = s[i + 1 + j - 1]
  BY <1>4, SubSeqProperties
<1>6. DOMAIN b = 1..Len(b) /\ Len(b) \in Nat /\ DOMAIN a = 1..Len(a) /\ Len(a) \in Nat
  BY <1>3, <1>5, LenProperties
<1>7. \A j \in DOMAIN b : Taken(b[j], s)
  <2>1. SUFFICES ASSUME NEW j \in DOMAIN b PROVE Taken(b[j], s)
    OBVIOUS
  <2> HIDE DEF b
  <2>2. j \in 1..(Len(s) - (i + 1) + 1) /\ i + 1 + j - 1 \in 1..Len(s)
    BY <1>1, <1>5, <1>6
  <2>3. b[j] = s[i + 1 + j - 1]
    BY <1>5, <2>2
  <2> QED BY <1>1, <2>2, <2>3 DEF Taken
<1> HIDE DEF a, b
<1>8. /\ t \in Seq(Message) /\ Len(t) = Len(a) + Len(b)
      /\ \A j \in 1..(Len(a) + Len(b)) : t[j] = IF j <= Len(a) THEN a[j] ELSE b[j - Len(a)]
  BY <1>3, <1>5, ConcatProperties
<1> HIDE DEF t
<1>9. ASSUME NEW j \in DOMAIN t PROVE Taken(t[j], s)
  <2>1. j \in 1..(Len(a) + Len(b))
    BY <1>8, LenProperties
  <2>2. CASE j <= Len(a)
    BY <1>3, <1>6, <1>8, <2>1, <2>2
  <2>3. CASE ~(j <= Len(a))
    <3>1. j - Len(a) \in DOMAIN b
      BY <1>6, <2>1, <2>3
    <3> QED BY <1>7, <1>8, <2>1, <2>3, <3>1
  <2> QED BY <2>2, <2>3
<1> QED BY <1>8, <1>9 DEF t, a, b

\* Messages taken from the rendered list are finished and show their own
\* texts as long as that list does.
LEMMA TakenKeeps ==
  ASSUME NEW s, NEW m, Taken(m, s)
  PROVE  /\ Own(s) => m.text \subseteq {m.key}
         /\ (\A i \in DOMAIN s : s[i].status \notin Unfinished) => m.status \notin Unfinished
BY DEF Taken, Own, Unfinished

\* A new request: whichever click makes it, its message is the last one.
LEMMA AskInductive ==
  ASSUME PageInv, CanSend, Slip(TRUE), NEW s, NEW k \in Keys,
         Asks(s, view.msgs, k), sendChat(s),
         got' \subseteq Keys, editing' \in 0..MaxKey, used' \in 0..MaxKey
  PROVE  PageInv'
<1> DEFINE n == Len(s)
<1>1. /\ s \in Seq(Message) /\ s # <<>> /\ s[n] = createLoadingAssistantMessage(k)
      /\ \A j \in DOMAIN s : j # n => Taken(s[j], view.msgs)
  BY DEF Asks
<1>2. /\ s[n].key = k /\ s[n].from = "assistant" /\ s[n].status = "loading"
      /\ s[n].text = {} /\ EndsIn(s, k)
  BY <1>1 DEF createLoadingAssistantMessage, EndsIn, EndsInAssistant
<1>3. cur = 0 /\ k \in 0..MaxKey /\ k # 0 /\ 0 \in 0..MaxKey
  BY NothingOpen, PlaygroundAssumption DEF Keys
<1>4. net \in [Keys -> {"none", "stream", "plain"}]
  BY DEF PageInv, TypeOK
<1>5. \/ cur' = k /\ net' = [net EXCEPT ![k] = "stream"] /\ FromClick(s, k)
      \/ cur' = 0 /\ net' = [net EXCEPT ![k] = "plain"] /\ FromClick(s, 0)
  BY <1>2, <1>3 DEF sendChat
<1>6. net' \in [Keys -> {"none", "stream", "plain"}]
  BY <1>4, <1>5
<1>7. "crossed" \notin slips' => Own(s)
  <2>1. SUFFICES ASSUME "crossed" \notin slips', NEW j \in DOMAIN s
                 PROVE  s[j].text \subseteq {s[j].key}
    BY DEF Own
  <2>2. Own(view.msgs)
    BY <2>1, Slips DEF PageInv, OwnTexts
  <2> QED BY <1>1, <1>2, <2>2, TakenKeeps
<1>8. "crossed" \notin slips' => \A q \in Keys : net'[q] = "plain" => EndsIn(s, q)
  <2>1. SUFFICES ASSUME "crossed" \notin slips', NEW q \in Keys, net'[q] = "plain"
                 PROVE  EndsIn(s, q)
    OBVIOUS
  <2>2. net[q] # "plain"
    BY <2>1, Slips
  <2>3. q = k
    BY <1>4, <1>5, <2>1, <2>2
  <2> QED BY <1>2, <2>3
<1>9. slips' = {} => \A j \in DOMAIN s :
         s[j].status \in Unfinished
            => j = n /\ (net'[s[j].key] = "plain" \/ cur' = s[j].key)
  <2>1. SUFFICES ASSUME slips' = {}, NEW j \in DOMAIN s, s[j].status \in Unfinished
                 PROVE  j = n /\ (net'[s[j].key] = "plain" \/ cur' = s[j].key)
    OBVIOUS
  <2>2. \A i \in DOMAIN view.msgs : view.msgs[i].status \notin Unfinished
    BY <2>1, NothingOpen
  <2>3. j = n
    BY <1>1, <2>1, <2>2, TakenKeeps
  <2>4. net'[k] = "plain" \/ cur' = k
    BY <1>4, <1>5
  <2> QED BY <1>2, <2>3, <2>4
<1>10. slips' \subseteq {"crossed", "stale", "nochoice"}
  BY Slips
<1>11. CASE cur' = k /\ FromClick(s, k)
  BY <1>1, <1>2, <1>3, <1>6, <1>7, <1>8, <1>9, <1>10, <1>11, Click
<1>12. CASE cur' = 0 /\ FromClick(s, 0)
  BY <1>1, <1>2, <1>3, <1>6, <1>7, <1>8, <1>9, <1>10, <1>12, Click
<1> QED BY <1>5, <1>11, <1>12

\* Sending a message.
LEMMA SendInductive ==
  ASSUME PageInv, handleSendMessage
  PROVE  PageInv'
<1> DEFINE u == createUserMessage(used + 1)
           m == createLoadingAssistantMessage(used + 2)
           s == view.msgs \o <<u, m>>
           t == view.msgs \o <<u>>
<1>1. /\ CanSend /\ used + 2 <= MaxKey /\ sendChat(s) /\ used' = used + 2 /\ Slip(TRUE)
      /\ UNCHANGED <<got, editing>>
  BY DEF handleSendMessage
<1>2. /\ view.msgs \in Seq(Message) /\ got \subseteq Keys /\ editing \in 0..MaxKey
      /\ used \in 0..MaxKey
  BY DEF PageInv, TypeOK
<1>3. used + 1 \in Keys /\ used + 2 \in Keys /\ used + 2 \in 0..MaxKey
  BY <1>1, <1>2, PlaygroundAssumption DEF Keys
<1>4. u \in Message /\ m \in Message /\ u.status = "complete" /\ u.text = {}
  BY <1>3 DEF createUserMessage, createLoadingAssistantMessage, Message, Unfinished
<1> HIDE DEF u, m
<1>5. <<u>> \in Seq(Message) /\ <<m>> \in Seq(Message) /\ <<u, m>> = <<u>> \o <<m>>
  <2>1. <<u>> \in Seq(Message) /\ <<m>> \in Seq(Message) /\ <<u, m>> \in Seq(Message)
    BY <1>4
  <2>2. /\ <<u>> \o <<m>> \in Seq(Message) /\ Len(<<u>> \o <<m>>) = Len(<<u>>) + Len(<<m>>)
        /\ \A i \in 1..(Len(<<u>>) + Len(<<m>>)) :
             (<<u>> \o <<m>>)[i] = IF i <= Len(<<u>>) THEN <<u>>[i] ELSE <<m>>[i - Len(<<u>>)]
    BY <2>1, ConcatProperties
  <2>3. /\ Len(<<u>>) = 1 /\ Len(<<m>>) = 1 /\ Len(<<u, m>>) = 2
        /\ <<u>>[1] = u /\ <<m>>[1] = m /\ <<u, m>>[1] = u /\ <<u, m>>[2] = m
    OBVIOUS
  <2>4. Len(<<u>> \o <<m>>) = 2 /\ (<<u>> \o <<m>>)[1] = u /\ (<<u>> \o <<m>>)[2] = m
    BY <2>2, <2>3
  <2>5. \A i \in 1..Len(<<u, m>>) : <<u, m>>[i] = (<<u>> \o <<m>>)[i]
    BY <2>3, <2>4
  <2> QED BY <2>1, <2>2, <2>3, <2>4, <2>5, SeqEqual
<1>6. s = t \o <<m>>
  <2>1. (view.msgs \o <<u>>) \o <<m>> = view.msgs \o (<<u>> \o <<m>>)
    BY <1>2, <1>5, ConcatAssociative
  <2> QED BY <1>5, <2>1
<1>7. t \in Seq(Message) /\ \A j \in DOMAIN t : Taken(t[j], view.msgs)
  <2>1. /\ t \in Seq(Message) /\ Len(t) = Len(view.msgs) + Len(<<u>>)
        /\ \A i \in 1..(Len(view.msgs) + Len(<<u>>)) :
             t[i] = IF i <= Len(view.msgs) THEN view.msgs[i] ELSE <<u>>[i - Len(view.msgs)]
    BY <1>2, <1>5, ConcatProperties
  <2>2. Len(<<u>>) = 1 /\ <<u>>[1] = u
    OBVIOUS
  <2>3. Len(view.msgs) \in Nat /\ DOMAIN view.msgs = 1..Len(view.msgs)
    BY <1>2, LenProperties
  <2>4. DOMAIN t = 1..(Len(view.msgs) + 1)
    BY <2>1, <2>2, LenProperties
  <2> HIDE DEF t
  <2>5. \A i \in 1..(Len(view.msgs) + 1) : t[i] = u \/ (i \in 1..Len(view.msgs) /\ t[i] = view.msgs[i])
    BY <2>1, <2>2, <2>3
  <2> QED BY <1>4, <2>1, <2>3, <2>4, <2>5 DEF Taken
<1>8. Asks(s, view.msgs, used + 2)
  <2> HIDE DEF t, s
  <2> QED BY <1>2, <1>3, <1>6, <1>7, Appended DEF m
<1> HIDE DEF s, t
<1> QED BY <1>1, <1>2, <1>3, <1>8, AskInductive

\* Asking again for the answer i.
LEMMA RegenerateInductive ==
  ASSUME PageInv, NEW i \in DOMAIN view.msgs, handleRegenerateMessage(i)
  PROVE  PageInv'
<1> DEFINE t == SubSeq(view.msgs, 1, i - 1)
           s == t \o <<createLoadingAssistantMessage(used + 1)>>
<1>1. /\ CanSend /\ used < MaxKey /\ sendChat(s) /\ used' = used + 1 /\ Slip(TRUE)
      /\ UNCHANGED <<got, editing>>
  BY DEF handleRegenerateMessage
<1>2. /\ view.msgs \in Seq(Message) /\ got \subseteq Keys /\ editing \in 0..MaxKey
      /\ used \in 0..MaxKey
  BY DEF PageInv, TypeOK
<1>3. used + 1 \in Keys /\ used + 1 \in 0..MaxKey
  BY <1>1, <1>2, PlaygroundAssumption DEF Keys
<1>4. i - 1 \in 0..Len(view.msgs)
  BY <1>2, Element
<1>5. t \in Seq(Message) /\ \A j \in DOMAIN t : Taken(t[j], view.msgs)
  BY <1>2, <1>4, CutOff
<1> HIDE DEF t
<1>6. Asks(s, view.msgs, used + 1)
  BY <1>2, <1>3, <1>5, Appended
<1> HIDE DEF s
<1> QED BY <1>1, <1>2, <1>3, <1>6, AskInductive

\* Submitting an edited message.
LEMMA SubmitInductive ==
  ASSUME PageInv, NEW i \in DOMAIN view.msgs, SubmitEdit(i)
  PROVE  PageInv'
<1> DEFINE t == SubSeq(view.msgs, 1, i)
           s == t \o <<createLoadingAssistantMessage(used + 1)>>
<1>1. /\ CanSend /\ used < MaxKey /\ sendChat(s) /\ used' = used + 1 /\ Slip(TRUE)
      /\ editing' = 0 /\ UNCHANGED got
  BY DEF SubmitEdit
<1>2. view.msgs \in Seq(Message) /\ got \subseteq Keys /\ used \in 0..MaxKey
  BY DEF PageInv, TypeOK
<1>3. used + 1 \in Keys /\ used + 1 \in 0..MaxKey /\ 0 \in 0..MaxKey
  BY <1>1, <1>2, PlaygroundAssumption DEF Keys
<1>4. i \in 0..Len(view.msgs)
  BY <1>2, Element
<1>5. t \in Seq(Message) /\ \A j \in DOMAIN t : Taken(t[j], view.msgs)
  BY <1>2, <1>4, CutOff
<1> HIDE DEF t
<1>6. Asks(s, view.msgs, used + 1)
  BY <1>2, <1>3, <1>5, Appended
<1> HIDE DEF s
<1> QED BY <1>1, <1>2, <1>3, <1>6, AskInductive

\* Saving an edited message: the click keeps the shape of the list, and
\* answers under way lose at most their text.
LEMMA SaveInductive ==
  ASSUME PageInv, NEW i \in DOMAIN view.msgs, SaveEdit(i)
  PROVE  PageInv'
<1> DEFINE v == view.msgs
           e == [v[i] EXCEPT !.text = {}]
           s == [v EXCEPT ![i] = e]
<1>1. /\ FromClick(s, cur) /\ cur' = cur /\ editing' = 0 /\ Slip(FALSE)
      /\ UNCHANGED <<net, got, used>>
  BY DEF SaveEdit
<1>2. v \in Seq(Message) /\ v[i] \in Message /\ i \in 1..Len(v) /\ DOMAIN v = 1..Len(v)
  BY Element DEF PageInv, TypeOK
<1>3. /\ e \in Message /\ e.key = v[i].key /\ e.from = v[i].from /\ e.status = v[i].status
      /\ e.text = {}
  BY <1>2 DEF Message
<1> HIDE DEF e
<1>4. /\ s \in Seq(Message) /\ Len(s) = Len(v)
      /\ \A j \in 1..Len(v) : s[j] = IF j = i THEN e ELSE v[j]
  BY <1>2, <1>3, ExceptSeq
<1> HIDE DEF s
<1>5. DOMAIN s = 1..Len(v)
  BY <1>4, LenProperties
<1>6. \A j \in 1..Len(v) : /\ s[j].key = v[j].key /\ s[j].from = v[j].from
                           /\ s[j].status = v[j].status /\ s[j].text \subseteq v[j].text
  BY <1>3, <1>4
<1>7. Len(v) = Len(msgs) /\ \A j \in 1..Len(v) : v[j].key = msgs[j].key /\ v[j].from = msgs[j].from
  BY <1>2 DEF PageInv, Rendered, SameShape
<1>8. \A k : EndsIn(msgs, k) => EndsIn(s, k)
  <2>1. SUFFICES ASSUME NEW k, EndsIn(msgs, k) PROVE EndsIn(s, k)
    OBVIOUS
  <2>2. msgs \in Seq(Message) /\ msgs # <<>>
    BY <2>1 DEF PageInv, TypeOK, EndsIn, EndsInAssistant
  <2>3. Len(msgs) \in Nat \ {0} /\ Len(msgs) \in 1..Len(msgs)
    BY <2>2, LastElement
  <2>4. s # <<>>
    BY <1>4, <1>7, <2>3, EmptySeq
  <2>5. s[Len(s)].key = msgs[Len(msgs)].key /\ s[Len(s)].from = msgs[Len(msgs)].from
    BY <1>4, <1>6, <1>7, <2>3
  <2> QED BY <2>1, <2>4, <2>5 DEF EndsIn, EndsInAssistant
<1>9. cur # 0 => EndsIn(s, cur)
  BY <1>8 DEF PageInv, StreamShown
<1>10. "crossed" \notin slips' =>
          Own(s) /\ \A k \in Keys : net'[k] = "plain" => EndsIn(s, k)
  <2>1. SUFFICES ASSUME "crossed" \notin slips'
                 PROVE  Own(s) /\ \A k \in Keys : net'[k] = "plain" => EndsIn(s, k)
    OBVIOUS
  <2>2. Own(v) /\ \A k \in Keys : net[k] = "plain" => EndsIn(msgs, k)
    BY <1>1, <2>1, Slips DEF PageInv, OwnTexts
  <2>3. Own(s)
    BY <1>2, <1>5, <1>6, <2>2 DEF Own
  <2> QED BY <1>1, <1>8, <2>2, <2>3
<1>11. slips' = {} => \A j \in DOMAIN s :
          s[j].status \in Unfinished
             => j = Len(s) /\ (net'[s[j].key] = "plain" \/ cur = s[j].key)
  <2>1. SUFFICES ASSUME slips' = {}, NEW j \in DOMAIN s, s[j].status \in Unfinished
                 PROVE  j = Len(s) /\ (net'[s[j].key] = "plain" \/ cur = s[j].key)
    OBVIOUS
  <2>2. slips = {} /\ v = msgs
    BY <1>1, <2>1, Slips
  <2>3. j \in DOMAIN msgs /\ msgs[j].status \in Unfinished /\ msgs[j].key = s[j].key
    BY <1>2, <1>5, <1>6, <2>1, <2>2
  <2>4. j = Len(msgs) /\ (net[msgs[j].key] = "plain" \/ cur = msgs[j].key)
    BY <2>2, <2>3 DEF PageInv, OneOpen, UnfinishedHasRequest
  <2> QED BY <1>1, <1>4, <1>7, <2>3, <2>4
<1>12. /\ net' \in [Keys -> {"none", "stream", "plain"}] /\ got' \subseteq Keys
       /\ cur \in 0..MaxKey /\ used' \in 0..MaxKey
  BY <1>1 DEF PageInv, TypeOK
<1>13. editing' \in 0..MaxKey
  BY <1>1, PlaygroundAssumption
<1>14. slips' \subseteq {"crossed", "stale", "nochoice"}
  BY <1>1, Slips
<1> QED BY <1>1, <1>4, <1>9, <1>10, <1>11, <1>12, <1>13, <1>14, Click

\* A click that leaves some of the rendered messages.
LEMMA LeaveInductive ==
  ASSUME PageInv, CanSend, Slip(TRUE), NEW s \in Seq(Message),
         \A j \in DOMAIN s : Taken(s[j], view.msgs),
         FromClick(s, cur), UNCHANGED <<cur, net, got, editing, used>>
  PROVE  PageInv'
<1>1. cur = 0 /\ 0 \in 0..MaxKey
  BY NothingOpen, PlaygroundAssumption
<1>2. "crossed" \notin slips' =>
         Own(s) /\ \A k \in Keys : net'[k] = "plain" => EndsIn(s, k)
  <2>1. SUFFICES ASSUME "crossed" \notin slips'
                 PROVE  Own(s) /\ \A k \in Keys : net'[k] = "plain" => EndsIn(s, k)
    OBVIOUS
  <2>2. Own(view.msgs) /\ \A k \in Keys : net[k] # "plain"
    BY <2>1, Slips DEF PageInv, OwnTexts
  <2>3. Own(s)
    BY <2>2, TakenKeeps DEF Own
  <2> QED BY <2>2, <2>3
<1>3. slips' = {} => \A j \in DOMAIN s : s[j].status \notin Unfinished
  BY NothingOpen, TakenKeeps
<1>4. /\ net' \in [Keys -> {"none", "stream", "plain"}] /\ got' \subseteq Keys
      /\ editing' \in 0..MaxKey /\ used' \in 0..MaxKey
  BY DEF PageInv, TypeOK
<1>5. slips' \subseteq {"crossed", "stale", "nochoice"}
  BY Slips
<1> QED BY <1>1, <1>2, <1>3, <1>4, <1>5, Click

\* Deleting a message leaves the others.
LEMMA DeleteInductive ==
  ASSUME PageInv, NEW i \in DOMAIN view.msgs, handleDeleteMessage(i)
  PROVE  PageInv'
<1> DEFINE s == SubSeq(view.msgs, 1, i - 1) \o SubSeq(view.msgs, i + 1, Len(view.msgs))
<1>1. /\ CanSend /\ FromClick(s, cur) /\ Slip(TRUE)
      /\ UNCHANGED <<cur, net, got, editing, used>>
  BY DEF handleDeleteMessage
<1>2. view.msgs \in Seq(Message)
  BY DEF PageInv, TypeOK
<1>3. s \in Seq(Message) /\ \A j \in DOMAIN s : Taken(s[j], view.msgs)
  BY <1>2, CutOut
<1> HIDE DEF s
<1> QED BY <1>1, <1>3, LeaveInductive

\* Clearing the page leaves none.
LEMMA ClearInductive ==
  ASSUME PageInv, clearMessages
  PROVE  PageInv'
<1>1. /\ CanSend /\ FromClick(<<>>, cur) /\ Slip(TRUE)
      /\ UNCHANGED <<cur, net, got, editing, used>>
  BY DEF clearMessages
<1>2. <<>> \in Seq(Message) /\ \A j \in DOMAIN <<>> : Taken(<<>>[j], view.msgs)
  BY EmptySeq, LenProperties
<1> QED BY <1>1, <1>2, LeaveInductive

\* Stop: the stream is let go and its message, the last one, is finished.
LEMMA StopInductive ==
  ASSUME PageInv, stopGeneration
  PROVE  PageInv'
<1>1. cur' = 0 /\ 0 \in 0..MaxKey /\ UNCHANGED <<net, got, editing, used, slips>>
  BY PlaygroundAssumption DEF stopGeneration
<1>2. /\ msgs \in Seq(Message) /\ net' \in [Keys -> {"none", "stream", "plain"}]
      /\ got' \subseteq Keys /\ editing' \in 0..MaxKey /\ used' \in 0..MaxKey
      /\ slips' \subseteq {"crossed", "stale", "nochoice"}
  BY <1>1 DEF PageInv, TypeOK
<1>3. CASE EndsInAssistant(msgs)
  <2> DEFINE m == Completed(LastMessage)
             s == updateLastAssistantMessage(msgs, m)
             n == Len(msgs)
  <2>1. FromClick(s, 0)
    BY <1>3 DEF stopGeneration
  <2>2. n \in Nat \ {0} /\ DOMAIN msgs = 1..n /\ msgs[n] = LastMessage
    BY <1>2, <1>3, LastElement, LenProperties DEF EndsInAssistant, LastMessage
  <2>3. LastMessage \in Message
    BY <1>3, LastTyped
  <2>4. LastMessage.key \in Keys
    BY <2>3 DEF Message
  <2>5. /\ m \in Message /\ m.key = LastMessage.key /\ m.from = LastMessage.from
        /\ m.text = LastMessage.text /\ m.status \notin Unfinished
    BY <2>3, <2>4, Forms
  <2> HIDE DEF m
  <2>6. s \in Seq(Message) /\ Len(s) = n /\ \A j \in 1..n : s[j] = IF j = n THEN m ELSE msgs[j]
    BY <1>2, <1>3, <2>5, Updated
  <2> HIDE DEF s
  <2>7. DOMAIN s = 1..n /\ n \in 1..n
    BY <2>2, <2>6, LenProperties
  <2>8. \A k : EndsIn(msgs, k) => EndsIn(s, k)
    <3>1. s # <<>>
      BY <2>2, <2>6, EmptySeq
    <3>2. s[n].key = msgs[n].key /\ s[n].from = msgs[n].from
      BY <2>2, <2>5, <2>6, <2>7
    <3> QED BY <2>6, <3>1, <3>2 DEF EndsIn, EndsInAssistant
  <2>9. "crossed" \notin slips =>
           Own(s) /\ \A k \in Keys : net[k] = "plain" => EndsIn(s, k)
    <3>1. SUFFICES ASSUME "crossed" \notin slips
                   PROVE  Own(s) /\ \A k \in Keys : net[k] = "plain" => EndsIn(s, k)
      OBVIOUS
    <3>2. Own(msgs) /\ \A k \in Keys : net[k] = "plain" => EndsIn(msgs, k)
      BY <3>1 DEF PageInv, OwnTexts
    <3>3. Own(s)
      BY <2>2, <2>5, <2>6, <2>7, <3>2 DEF Own
    <3> QED BY <2>8, <3>2, <3>3
  <2>10. slips = {} => \A j \in DOMAIN s : s[j].status \notin Unfinished
    BY <2>2, <2>5, <2>6, <2>7 DEF PageInv, OneOpen, UnfinishedHasRequest
  <2> QED BY <1>1, <1>2, <2>1, <2>6, <2>9, <2>10, Click
<1>4. CASE ~EndsInAssistant(msgs)
  <2>1. UNCHANGED <<msgs, view, dirty, stored>>
    BY <1>4 DEF stopGeneration
  <2>2. TypeOK'
    BY <1>1, <2>1 DEF PageInv, TypeOK
  <2>3. Rendered' /\ StreamShown'
    BY <1>1, <2>1 DEF PageInv, Rendered, StreamShown
  <2>4. OwnTexts'
    BY <1>1, <2>1 DEF PageInv, OwnTexts
  <2>5. cur = 0
    BY <1>4 DEF PageInv, StreamShown, EndsIn
  <2>6. OneOpen'
    BY <1>1, <2>1, <2>5 DEF PageInv, OneOpen, UnfinishedHasRequest
  <2> QED BY <2>2, <2>3, <2>4, <2>6 DEF PageInv
<1> QED BY <1>3, <1>4

\* What loading makes of a list of which only the last may be unfinished.
LEMMA Sanitized ==
  ASSUME NEW s \in Seq(Message)
  PROVE  /\ sanitizeMessagesOnLoad(s) \in Seq(Message)
         /\ Own(s) => Own(sanitizeMessagesOnLoad(s))
         /\ LastOpen(s) => \A i \in DOMAIN sanitizeMessagesOnLoad(s) :
                              sanitizeMessagesOnLoad(s)[i].status \notin Unfinished
<1> DEFINE stuck == {i \in DOMAIN s : s[i].status \in Unfinished}
           last == CHOOSE i \in stuck : \A j \in stuck : j <= i
           m == Repaired(s[last])
           t == [s EXCEPT ![last] = m]
<1>1. Len(s) \in Nat /\ DOMAIN s = 1..Len(s)
  BY LenProperties
<1>2. CASE stuck = {}
  <2>1. sanitizeMessagesOnLoad(s) = s
    BY <1>2 DEF sanitizeMessagesOnLoad
  <2> QED BY <1>2, <2>1
<1>3. CASE stuck # {}
  <2>1. sanitizeMessagesOnLoad(s) = t
    BY <1>3 DEF sanitizeMessagesOnLoad
  <2>2. LastOpen(s) => last = Len(s) /\ last \in DOMAIN s
    <3>1. SUFFICES ASSUME LastOpen(s) PROVE last = Len(s) /\ last \in DOMAIN s
      OBVIOUS
    <3>2. PICK i \in stuck : TRUE
      BY <1>3
    <3>3. \A j \in stuck : j = Len(s)
      BY <3>1 DEF LastOpen
    <3>4. i = Len(s) /\ i \in DOMAIN s
      BY <3>2, <3>3
    <3>5. \E q \in stuck : \A j \in stuck : j <= q
      BY <1>1, <3>2, <3>3
    <3>6. last \in stuck
      BY <3>5
    <3> HIDE DEF last
    <3> QED BY <3>3, <3>4, <3>6
  <2> HIDE DEF last
  <2>3. last \in DOMAIN s => /\ m \in Message /\ m.status \notin Unfinished
                             /\ s[last].text \subseteq {s[last].key} => m.text \subseteq {m.key}
    <3>1. SUFFICES ASSUME last \in DOMAIN s
                   PROVE  /\ m \in Message /\ m.status \notin Unfinished
                          /\ s[last].text \subseteq {s[last].key} => m.text \subseteq {m.key}
      OBVIOUS
    <3>2. s[last] \in Message
      BY <3>1, Element
    <3>3. s[last].key \in Keys
      BY <3>2 DEF Message
    <3> QED BY <3>2, <3>3, Forms DEF Repaired
  <2> HIDE DEF m
  <2>4. CASE last \in DOMAIN s
    <3>1. /\ t \in Seq(Message) /\ Len(t) = Len(s)
          /\ \A j \in 1..Len(s) : t[j] = IF j = last THEN m ELSE s[j]
      BY <1>1, <2>3, <2>4, ExceptSeq
    <3> HIDE DEF t
    <3>2. DOMAIN t = 1..Len(s)
      BY <3>1, LenProperties
    <3>3. Own(s) => Own(t)
      BY <1>1, <2>3, <2>4, <3>1, <3>2 DEF Own
    <3>4. LastOpen(s) => \A i \in DOMAIN t : t[i].status \notin Unfinished
      BY <1>1, <2>2, <2>3, <2>4, <3>1, <3>2 DEF LastOpen
    <3> QED BY <2>1, <3>1, <3>3, <3>4
  <2>5. CASE last \notin DOMAIN s
    <3>1. s \in [1..Len(s) -> Message]
      BY LenProperties
    <3>2. t = s
      BY <1>1, <2>5, <3>1
    <3> QED BY <2>1, <2>2, <2>5, <3>2
  <2> QED BY <2>4, <2>5
<1> QED BY <1>2, <1>3

\* The page is loaded again.
LEMMA ReloadInductive ==
  ASSUME PageInv, Reload
  PROVE  PageInv'
<1> DEFINE s == sanitizeMessagesOnLoad(stored)
<1>1. /\ FromClick(s, 0) /\ cur' = 0 /\ net' = [k \in Keys |-> "none"] /\ editing' = 0
      /\ UNCHANGED <<got, used, slips>>
  BY DEF Reload
<1>2. stored \in Seq(Message)
  BY DEF PageInv, TypeOK
<1>3. /\ s \in Seq(Message)
      /\ Own(stored) => Own(s)
      /\ LastOpen(stored) => \A i \in DOMAIN s : s[i].status \notin Unfinished
  BY <1>2, Sanitized
<1> HIDE DEF s
<1>4. /\ net' \in [Keys -> {"none", "stream", "plain"}] /\ got' \subseteq Keys
      /\ used' \in 0..MaxKey /\ slips' \subseteq {"crossed", "stale", "nochoice"}
      /\ \A k \in Keys : net'[k] # "plain"
  BY <1>1 DEF PageInv, TypeOK
<1>5. 0 \in 0..MaxKey
  BY PlaygroundAssumption
<1>6. "crossed" \notin slips' => Own(s)
  BY <1>1, <1>3 DEF PageInv, OwnTexts
<1>7. slips' = {} => \A i \in DOMAIN s : s[i].status \notin Unfinished
  BY <1>1, <1>3 DEF PageInv, OneOpen
<1> QED BY <1>1, <1>3, <1>4, <1>5, <1>6, <1>7, Click

\* React renders what was updated.
LEMMA RenderInductive ==
  ASSUME PageInv, Render
  PROVE  PageInv'
<1>1. /\ view'.msgs = msgs /\ view'.gen = (cur # 0) /\ dirty' = FALSE /\ stored' = msgs
      /\ UNCHANGED <<msgs, cur, net, got, editing, used, slips>>
  BY DEF Render
<1>2. TypeOK'
  BY <1>1 DEF PageInv, TypeOK
<1>3. Rendered' /\ StreamShown'
  BY <1>1 DEF PageInv, Rendered, SameShape, StreamShown
<1>4. OwnTexts'
  BY <1>1 DEF PageInv, OwnTexts
<1>5. OneOpen'
  BY <1>1 DEF PageInv, OneOpen, UnfinishedHasRequest, LastOpen
<1> QED BY <1>2, <1>3, <1>4, <1>5 DEF PageInv

\* Opening and closing the editor.
LEMMA EditorInductive ==
  ASSUME PageInv, UNCHANGED <<msgs, view, dirty, stored, cur, net, got, used, slips>>,
         editing' \in 0..MaxKey
  PROVE  PageInv'
BY DEF PageInv, TypeOK, Rendered, StreamShown, OwnTexts, OneOpen, UnfinishedHasRequest

----------------------------------------------------------------------------
(* The theorems. *)

\* The empty page satisfies the invariant.
LEMMA PageInvInit == Init => PageInv
<1> SUFFICES ASSUME Init PROVE PageInv
  OBVIOUS
<1>1. <<>> \in Seq(Message) /\ DOMAIN <<>> = {} /\ 0 \in 0..MaxKey
  BY EmptySeq, PlaygroundAssumption
<1>2. /\ msgs = <<>> /\ view.msgs = <<>> /\ view.gen = FALSE /\ dirty = FALSE /\ stored = <<>>
      /\ cur = 0 /\ net = [k \in Keys |-> "none"] /\ got = {} /\ editing = 0 /\ used = 0
      /\ slips = {}
  BY DEF Init
<1>3. TypeOK
  BY <1>1, <1>2 DEF TypeOK
<1>4. Rendered /\ StreamShown
  BY <1>1, <1>2 DEF Rendered, SameShape, StreamShown
<1>5. OwnTexts /\ OneOpen
  BY <1>1, <1>2 DEF OwnTexts, Own, OneOpen, UnfinishedHasRequest, LastOpen
<1> QED BY <1>3, <1>4, <1>5 DEF PageInv

\* Every step keeps it.
LEMMA PageInvStep == PageInv /\ [Next]_vars => PageInv'
<1> SUFFICES ASSUME PageInv, [Next]_vars PROVE PageInv'
  OBVIOUS
<1>1. CASE handleSendMessage
  BY <1>1, SendInductive
<1>2. CASE handleEditOpenChange
  BY <1>2, EditorInductive, PlaygroundAssumption DEF handleEditOpenChange
<1>3. CASE clearMessages
  BY <1>3, ClearInductive
<1>4. CASE stopGeneration
  BY <1>4, StopInductive
<1>5. CASE Reload
  BY <1>5, ReloadInductive
<1>6. ASSUME NEW i \in DOMAIN view.msgs, handleRegenerateMessage(i) PROVE PageInv'
  BY <1>6, RegenerateInductive
<1>7. ASSUME NEW i \in DOMAIN view.msgs, handleEditMessage(i) PROVE PageInv'
  <2>1. view.msgs[i].key \in Keys
    BY Element DEF PageInv, TypeOK, Message
  <2>2. editing' \in 0..MaxKey
    BY <1>7, <2>1, PlaygroundAssumption DEF handleEditMessage, Keys
  <2> QED BY <1>7, <2>2, EditorInductive DEF handleEditMessage
<1>8. ASSUME NEW i \in DOMAIN view.msgs, handleDeleteMessage(i) PROVE PageInv'
  BY <1>8, DeleteInductive
<1>9. ASSUME NEW i \in DOMAIN view.msgs, SaveEdit(i) PROVE PageInv'
  BY <1>9, SaveInductive
<1>10. ASSUME NEW i \in DOMAIN view.msgs, SubmitEdit(i) PROVE PageInv'
  BY <1>10, SubmitInductive
<1>11. ASSUME NEW r \in Keys, StreamChunk(r) PROVE PageInv'
  BY <1>11, ChunkInductive
<1>12. ASSUME NEW r \in Keys, StreamEnds(r) PROVE PageInv'
  BY <1>12, EndInductive
<1>13. ASSUME NEW r \in Keys, StreamGone(r) \/ PlainNoChoice(r) PROVE PageInv'
  BY <1>13, QuietInductive
<1>14. ASSUME NEW r \in Keys, PlainAnswers(r) \/ PlainFails(r) PROVE PageInv'
  BY <1>14, PlainInductive
<1>15. CASE Render
  BY <1>15, RenderInductive
<1>16. CASE UNCHANGED vars
  BY <1>16, EditorInductive DEF vars, PageInv, TypeOK
<1> QED
  BY <1>1, <1>2, <1>3, <1>4, <1>5, <1>6, <1>7, <1>8, <1>9, <1>10, <1>11, <1>12,
     <1>13, <1>14, <1>15, <1>16 DEF Next, User, Network

\* PageInv is an invariant of the page.
THEOREM PageKept == Spec => []PageInv
<1>1. Spec => Init /\ [][Next]_vars
  BY DEF Spec
<1> QED BY <1>1, PageInvInit, PageInvStep, PTL

\* Type correctness: every message updated by position is a message, and the
\* lists stay lists through cuts, edits and reloads.
THEOREM PlaygroundTypes == Spec => []TypeOK
<1>1. PageInv => TypeOK
  BY DEF PageInv
<1> QED BY <1>1, PageKept, PTL

\* What a message shows came from its own request, for any number of messages
\* and any order of clicks and events that crosses no plain request.
THEOREM TextsAlwaysOwn == Spec => []OwnText
<1>1. PageInv => OwnText
  BY DEF PageInv, OwnTexts, Own, OwnText
<1> QED BY <1>1, PageKept, PTL

\* A message that is loading or streaming is the last one, and its request is
\* out, on every page that has not slipped.
THEOREM NoneLeftTurning == Spec => []UnfinishedHasRequest
<1>1. PageInv => UnfinishedHasRequest
  BY DEF PageInv, OneOpen
<1> QED BY <1>1, PageKept, PTL
=============================================================================
