--------------------------- MODULE PlaygroundChat ---------------------------
(***************************************************************************)
(* The chat playground of the dashboard, web/default/src/features/         *)
(* playground: one page with its list of messages, a composer, and the     *)
(* streamed and plain requests it has under way.                           *)
(*                                                                         *)
(* Answers find their message by position (the last one, if it is the      *)
(* assistant's), the user's handlers work on what was rendered last, and   *)
(* only a stream counts as generating. A click renders what it changed     *)
(* before the next event; an event of the network leaves that to React.    *)
(*                                                                         *)
(* A request has the key of the assistant message made for it, and a text  *)
(* is the set of the requests it came from.                                *)
(***************************************************************************)
EXTENDS Naturals, Sequences, FiniteSets

CONSTANT MaxKey   \* bound: messages made

ASSUME PlaygroundAssumption == MaxKey \in Nat \ {0}

VARIABLES
    msgs,     \* the messages state, pending updates included
    view,     \* what was rendered last: messages and isGenerating
    dirty,    \* an update waits to be rendered
    stored,   \* the messages in localStorage
    cur,      \* sseSourceRef: the request streaming, or 0
    net,      \* what the network still may deliver for a request
    got,      \* requests of which a chunk was received
    editing,  \* editingMessageKey, or 0
    used,     \* keys handed out
    slips     \* history: the cases the page is known not to handle

vars == <<msgs, view, dirty, stored, cur, net, got, editing, used, slips>>

Keys == 1..MaxKey
Unfinished == {"loading", "streaming"}
Message == [key: Keys, from: {"user", "assistant"},
            status: Unfinished \cup {"complete", "error"}, text: SUBSET Keys]

TypeOK ==
    /\ msgs \in Seq(Message) /\ stored \in Seq(Message)
    /\ view.msgs \in Seq(Message) /\ view.gen \in BOOLEAN /\ dirty \in BOOLEAN
    /\ cur \in 0..MaxKey /\ editing \in 0..MaxKey /\ used \in 0..MaxKey
    /\ net \in [Keys -> {"none", "stream", "plain"}]
    /\ got \subseteq Keys
    /\ slips \subseteq {"crossed", "stale", "nochoice"}

Init ==
    /\ msgs = <<>> /\ view = [msgs |-> <<>>, gen |-> FALSE] /\ dirty = FALSE
    /\ stored = <<>> /\ cur = 0 /\ net = [k \in Keys |-> "none"] /\ got = {}
    /\ editing = 0 /\ used = 0 /\ slips = {}

----------------------------------------------------------------------------
(* lib/message-utils.ts. *)

createUserMessage(k) ==
    [key |-> k, from |-> "user", status |-> "complete", text |-> {}]

createLoadingAssistantMessage(k) ==
    [key |-> k, from |-> "assistant", status |-> "loading", text |-> {}]

\* updateLastAssistantMessage finds a message to update.
EndsInAssistant(s) == s # <<>> /\ s[Len(s)].from = "assistant"

\* updateLastAssistantMessage, with m as the new form of the message.
updateLastAssistantMessage(s, m) ==
    IF EndsInAssistant(s) THEN [s EXCEPT ![Len(s)] = m] ELSE s

\* The message that an update would change.
LastMessage == msgs[Len(msgs)]

Chunked(m, r) ==
    IF m.status = "error" THEN m
    ELSE [m EXCEPT !.status = "streaming", !.text = m.text \cup {r}]

Completed(m) == IF m.status \in Unfinished THEN [m EXCEPT !.status = "complete"] ELSE m

WithError(m, r) == [m EXCEPT !.status = "error", !.text = {r}]

WithAnswer(m, r) == [m EXCEPT !.status = "complete", !.text = {r}]

\* Mutant: whatever was streaming is dropped, only loading is repaired.
SanitizeLoadingOnly(s) ==
    LET stuck == {i \in DOMAIN s : s[i].status = "loading"}
        last == CHOOSE i \in stuck : \A j \in stuck : j <= i
    IN  IF stuck = {} THEN s ELSE [s EXCEPT ![last] = WithError(s[last], s[last].key)]

\* What becomes of a message nobody will finish.
Repaired(m) == IF m.text # {} THEN Completed(m) ELSE WithError(m, m.key)

\* The last unfinished message of a stored list is brought to an end.
sanitizeMessagesOnLoad(s) ==
    LET stuck == {i \in DOMAIN s : s[i].status \in Unfinished}
        last == CHOOSE i \in stuck : \A j \in stuck : j <= i
    IN  IF stuck = {} THEN s ELSE [s EXCEPT ![last] = Repaired(s[last])]

----------------------------------------------------------------------------
(* How an update reaches the screen. *)

\* A handler of the network calls updateMessages: saved now or when rendered.
FromNetwork(m) ==
    /\ msgs' = updateLastAssistantMessage(msgs, m)
    /\ dirty' = (dirty \/ EndsInAssistant(msgs))
    /\ stored' \in {stored, msgs'}
    /\ UNCHANGED view

\* A click replaces the messages by s and leaves c as the stream.
FromClick(s, c) ==
    /\ msgs' = s /\ stored' = s
    /\ view' = [msgs |-> s, gen |-> (c # 0)]
    /\ dirty' = FALSE

\* What a click on a list that is not the rendered one, or while a plain
\* request is out, may spoil.
Slip(structural) ==
    slips' = slips \cup (IF view.msgs # msgs THEN {"stale"} ELSE {})
                   \cup (IF structural /\ \E k \in Keys : net[k] = "plain"
                         THEN {"crossed"} ELSE {})

Render ==
    /\ dirty
    /\ view' = [msgs |-> msgs, gen |-> (cur # 0)]
    /\ dirty' = FALSE /\ stored' = msgs
    /\ UNCHANGED <<msgs, cur, net, got, editing, used, slips>>

----------------------------------------------------------------------------
(* The user: index.tsx and the hooks behind it. *)

\* canSend, guardAction, disabled: not while a stream is running.
CanSend == ~view.gen

\* sendChat for the last message of s.
sendChat(s) ==
    LET k == s[Len(s)].key
    IN  \/ /\ cur' = k /\ net' = [net EXCEPT ![k] = "stream"]
           /\ FromClick(s, k)
        \/ /\ net' = [net EXCEPT ![k] = "plain"]
           /\ FromClick(s, cur) /\ UNCHANGED cur

handleSendMessage ==
    /\ CanSend /\ used + 2 <= MaxKey
    /\ sendChat(view.msgs \o <<createUserMessage(used + 1),
                              createLoadingAssistantMessage(used + 2)>>)
    /\ used' = used + 2 /\ Slip(TRUE)
    /\ UNCHANGED <<got, editing>>

handleRegenerateMessage(i) ==
    /\ CanSend /\ used < MaxKey
    /\ view.msgs[i].from = "assistant" /\ view.msgs[i].status \notin Unfinished
    /\ sendChat(SubSeq(view.msgs, 1, i - 1) \o <<createLoadingAssistantMessage(used + 1)>>)
    /\ used' = used + 1 /\ Slip(TRUE)
    /\ UNCHANGED <<got, editing>>

\* guardAction, and only a message with content has the button.
handleEditMessage(i) ==
    /\ CanSend /\ editing = 0
    /\ view.msgs[i].from = "user" \/ view.msgs[i].text # {}
    /\ editing' = view.msgs[i].key
    /\ UNCHANGED <<msgs, view, dirty, stored, cur, net, got, used, slips>>

handleEditOpenChange ==
    /\ editing # 0 /\ editing' = 0
    /\ UNCHANGED <<msgs, view, dirty, stored, cur, net, got, used, slips>>

\* applyEdit(newContent, false): Save is offered while a stream runs, too.
SaveEdit(i) ==
    /\ view.msgs[i].key = editing
    /\ FromClick([view.msgs EXCEPT ![i] = [view.msgs[i] EXCEPT !.text = {}]], cur)
    /\ editing' = 0 /\ Slip(FALSE)
    /\ UNCHANGED <<cur, net, got, used>>

\* applyEdit(newContent, true): cut after the user's message and ask again.
SubmitEdit(i) ==
    /\ view.msgs[i].key = editing /\ view.msgs[i].from = "user"
    /\ CanSend /\ used < MaxKey
    /\ sendChat(SubSeq(view.msgs, 1, i) \o <<createLoadingAssistantMessage(used + 1)>>)
    /\ editing' = 0 /\ used' = used + 1 /\ Slip(TRUE)
    /\ UNCHANGED got

\* A message being edited has no delete button.
handleDeleteMessage(i) ==
    /\ CanSend /\ view.msgs[i].key # editing
    /\ FromClick(SubSeq(view.msgs, 1, i - 1) \o SubSeq(view.msgs, i + 1, Len(view.msgs)), cur)
    /\ Slip(TRUE)
    /\ UNCHANGED <<cur, net, got, editing, used>>

clearMessages ==
    /\ CanSend /\ view.msgs # <<>>
    /\ FromClick(<<>>, cur)
    /\ Slip(TRUE)
    /\ UNCHANGED <<cur, net, got, editing, used>>

\* stopGeneration: the source is let go first, then the message is finished.
stopGeneration ==
    /\ view.gen
    /\ cur' = 0
    /\ IF EndsInAssistant(msgs)
       THEN FromClick(updateLastAssistantMessage(msgs, Completed(LastMessage)), 0)
       ELSE UNCHANGED <<msgs, view, dirty, stored>>
    /\ UNCHANGED <<net, got, editing, used, slips>>

\* The page is loaded again: loadMessages.
Reload ==
    LET s == sanitizeMessagesOnLoad(stored)
    IN  /\ FromClick(s, 0)
        /\ cur' = 0 /\ net' = [k \in Keys |-> "none"] /\ editing' = 0
        /\ UNCHANGED <<got, used, slips>>

----------------------------------------------------------------------------
(* The network: use-stream-request.ts and sendNonStreamingChat. *)

\* Mutant: events of a source that was let go are still handled.
isCurrentAlways(r) == TRUE

isCurrent(r) == cur = r

StreamChunk(r) ==
    /\ net[r] = "stream" /\ isCurrent(r)
    /\ got' = got \cup {r}
    /\ FromNetwork(Chunked(LastMessage, r))
    /\ UNCHANGED <<cur, net, editing, used, slips>>

\* Mutant: the end of a stream does not finish its message.
settleSilently(r, how) ==
    /\ cur' = 0 /\ UNCHANGED <<msgs, view, dirty, stored>>

\* settle: [DONE], an unreadable chunk or an error status, or the connection
\* is gone, which completes what was received.
settle(r, how) ==
    /\ cur' = 0
    /\ IF how = "done" \/ (how = "lost" /\ r \in got)
       THEN FromNetwork(Completed(LastMessage))
       ELSE FromNetwork(WithError(LastMessage, r))

StreamEnds(r) ==
    /\ net[r] = "stream" /\ isCurrent(r)
    /\ net' = [net EXCEPT ![r] = "none"]
    /\ \E how \in {"done", "error", "lost"} : settle(r, how)
    /\ UNCHANGED <<got, editing, used, slips>>

\* The aborted source of a stopped stream is gone.
StreamGone(r) ==
    /\ net[r] = "stream" /\ cur # r
    /\ net' = [net EXCEPT ![r] = "none"]
    /\ UNCHANGED <<msgs, view, dirty, stored, cur, got, editing, used, slips>>

PlainAnswers(r) ==
    /\ net[r] = "plain"
    /\ net' = [net EXCEPT ![r] = "none"]
    /\ FromNetwork(WithAnswer(LastMessage, r))
    /\ UNCHANGED <<cur, got, editing, used, slips>>

PlainFails(r) ==
    /\ net[r] = "plain"
    /\ net' = [net EXCEPT ![r] = "none"]
    /\ FromNetwork(WithError(LastMessage, r))
    /\ UNCHANGED <<cur, got, editing, used, slips>>

\* An answer without a choice is dropped without a word.
PlainNoChoice(r) ==
    /\ net[r] = "plain"
    /\ net' = [net EXCEPT ![r] = "none"]
    /\ slips' = slips \cup {"nochoice"}
    /\ UNCHANGED <<msgs, view, dirty, stored, cur, got, editing, used>>

----------------------------------------------------------------------------
User ==
    \/ handleSendMessage \/ handleEditOpenChange \/ clearMessages \/ stopGeneration \/ Reload
    \/ \E i \in DOMAIN view.msgs :
         \/ handleRegenerateMessage(i) \/ handleEditMessage(i) \/ handleDeleteMessage(i)
         \/ SaveEdit(i) \/ SubmitEdit(i)

Network ==
    \E r \in Keys : \/ StreamChunk(r) \/ StreamEnds(r) \/ StreamGone(r)
                    \/ PlainAnswers(r) \/ PlainFails(r) \/ PlainNoChoice(r)

Next == User \/ Network \/ Render

\* React renders what was updated, and a connection ends some day: the
\* gateway and the browser both cut one that is silent.
Fairness == WF_vars(Render) /\ \A r \in Keys : WF_vars(StreamEnds(r))

Spec == Init /\ [][Next]_vars /\ Fairness

----------------------------------------------------------------------------
(* Properties. *)

\* What a message shows came from its own request (updates go to the last
\* message, whichever it is), as long as nothing was sent, deleted or cleared
\* while a plain request was out.
OwnText ==
    "crossed" \notin slips
       => \A i \in DOMAIN msgs : msgs[i].text \subseteq {msgs[i].key}

\* A message that is loading or streaming is the last one and its request is
\* still out: whatever the order of chunks, ends, stops, edits and reloads,
\* no message is left turning for ever.
UnfinishedHasRequest ==
    slips = {}
       => \A i \in DOMAIN msgs :
             msgs[i].status \in Unfinished
                => /\ i = Len(msgs)
                   /\ net[msgs[i].key] = "plain" \/ cur = msgs[i].key

\* The composer comes back: a page that shows Stop will offer Send again
\* (isGenerating is only read when something else causes a render).
GenerationEnds == view.gen ~> ~view.gen
=============================================================================
