--------------------------- MODULE StreamSubscription ---------------------------
(***************************************************************************)
(* How a browser follows the log of one conversation of the agent gateway: *)
(* the log with its bounded window (ConversationRuns says what is in it),  *)
(* the subscriptions of the browser's connection and their forwarders, the *)
(* connection's two queues, the resuming client, and the transcript, which *)
(* outlives the client's registration.                                     *)
(*                                                                         *)
(* Events are their sequence numbers.  The window loses any prefix at any  *)
(* time (retention and caps).  Runtime snapshots, which let a late viewer  *)
(* rebuild the run in progress, and answers to unsubscriptions are left    *)
(* out.  Waiting for room in a full queue may end in a timeout at any time. *)
(***************************************************************************)
EXTENDS Integers, SequencesExt

CONSTANTS
    Buffer,     \* conversationSubscriberBuffer
    Outbox,     \* the data queue of a connection
    Pending,    \* MAX_PENDING_EVENTS
    MaxSeq,     \* bound: events of a log
    MaxEpochs,  \* bound: logs
    MaxSubs,    \* bound: forwarders of a connection at a time
    MaxBreaks   \* bound: lost connections, requests that time out, visits
                \* to another conversation

ASSUME StreamAssumption ==
    /\ {Buffer, Outbox, Pending, MaxEpochs} \subseteq Nat \ {0}
    /\ {MaxSeq, MaxSubs, MaxBreaks} \subseteq Nat

VARIABLES
    log,       \* the stream: its epoch, lastSeq, evictedThroughSeq
    subs,      \* the connection's subscriptions, the oldest first
    handling,  \* the answer of the subscribe request being handled
    reqs,      \* requests under way
    data,      \* outbox: events and answers
    ctrl,      \* ctrlOutbox: a chat.subscription_reset is under way
    connected,
    client,    \* the registration of the conversation
    view,      \* the transcript
    breaks

streamVars == <<log, subs, handling, reqs, data, ctrl, connected, client, view, breaks>>

Epochs == 1..MaxEpochs
Seqs == 0..MaxSeq
Tickets == 0..(MaxBreaks + 2) \* request ids; 0 is none
Request == [id : Tickets, after : Seqs, epoch : Epochs \cup {0}]
(* whole: the replay is the whole window, as of a client without a cursor. *)
Answer == [id : Tickets, epoch : Epochs, reset : BOOLEAN, whole : BOOLEAN,
           from : Seqs, latest : Seqs]
Unsubscribe == [id |-> 0, after |-> 0, epoch |-> 0]
Event(s) == [id |-> 0, epoch |-> log.epoch, reset |-> FALSE, whole |-> FALSE,
             from |-> s, latest |-> s]
NoAnswer == [Event(0) EXCEPT !.epoch = 1]
IsEvent(m) == m.id = 0

Nobody == [here |-> FALSE, seq |-> 0, epoch |-> 0, synced |-> FALSE, syncing |-> 0,
           queued |-> FALSE, retry |-> FALSE, pending |-> <<>>, from |-> 0]
Newcomer == [Nobody EXCEPT !.here = TRUE]
(* shown: history, the events applied since the last reset; logs: history,  *)
(* the logs whose numbers the cursor has taken since then.                 *)
NewView == [seq |-> 0, shown |-> {}, logs |-> {}]

StreamTypeOK ==
    /\ log \in [epoch : Epochs, last : Seqs, evicted : Seqs]
    /\ subs \in Seq([ch : Seq(Seqs), state : {"open", "over", "cancelled"}])
    /\ handling \in Answer \X {"none", "replace", "answer"}
    /\ reqs \in Seq(Request) /\ data \in Seq(Answer)
    /\ ctrl \in BOOLEAN /\ connected \in BOOLEAN /\ breaks \in 0..MaxBreaks
    /\ client \in [here : BOOLEAN, seq : Seqs, epoch : Epochs \cup {0}, synced : BOOLEAN,
                   syncing : Tickets, queued : BOOLEAN, retry : BOOLEAN,
                   pending : Seq(Seqs), from : Seqs]
    /\ view \in [seq : Seqs, shown : SUBSET (Epochs \X Seqs), logs : SUBSET Epochs]
    /\ log.evicted <= log.last /\ Len(data) <= Outbox /\ Len(client.pending) <= Pending
    /\ \A i \in DOMAIN subs : Len(subs[i].ch) <= Buffer

StreamInit ==
    /\ log = [epoch |-> 1, last |-> 0, evicted |-> 0]
    /\ subs = <<>> /\ handling = <<NoAnswer, "none">> /\ reqs = <<>> /\ data = <<>>
    /\ ctrl = FALSE /\ connected = FALSE /\ client = Newcomer /\ view = NewView /\ breaks = 0

Break == breaks < MaxBreaks /\ breaks' = breaks + 1

-----------------------------------------------------------------------------
(* The gateway's log. *)

(* publishLocked: a subscriber whose buffer is full is closed. *)
(* Mutant: the buffer grows. *)
OfferAlways(sub, s) ==
    IF sub.state # "open" THEN sub ELSE [sub EXCEPT !.ch = Append(@, s)]
Offer(sub, s) ==
    IF sub.state # "open" THEN sub
    ELSE IF Len(sub.ch) < Buffer THEN [sub EXCEPT !.ch = Append(@, s)]
    ELSE [sub EXCEPT !.state = "over"]
Publish ==
    /\ log.last < MaxSeq /\ log' = [log EXCEPT !.last = @ + 1]
    /\ subs' = [i \in DOMAIN subs |-> Offer(subs[i], log.last + 1)]
    /\ UNCHANGED <<handling, reqs, data, ctrl, connected, client, view, breaks>>

Evict ==
    /\ \E s \in log.evicted + 1..log.last : log' = [log EXCEPT !.evicted = s]
    /\ UNCHANGED <<subs, handling, reqs, data, ctrl, connected, client, view, breaks>>

NewLog == log.epoch < MaxEpochs /\ log' = [epoch |-> log.epoch + 1, last |-> 0, evicted |-> 0]

(* reap, of a stream that nobody has followed and that was idle for half an *)
(* hour: what was under way to and from it has been served or has timed out *)
(* long before, so the queues are empty.                                   *)
Reap ==
    /\ subs = <<>> /\ reqs = <<>> /\ data = <<>> /\ ~ctrl /\ log.last > 0 /\ NewLog
    /\ UNCHANGED <<subs, handling, reqs, data, ctrl, connected, client, view, breaks>>

-----------------------------------------------------------------------------
(* The connection. *)

(* handleDisconnected: what was buffered belongs to the dead connection. *)
LoseConnection ==
    /\ connected' = FALSE
    /\ subs' = <<>> /\ handling' = <<NoAnswer, "none">> /\ reqs' = <<>> /\ data' = <<>>
    /\ ctrl' = FALSE
    /\ client' = [client EXCEPT !.synced = FALSE, !.syncing = 0, !.queued = FALSE,
                                !.retry = FALSE, !.pending = <<>>]
    /\ UNCHANGED view

ConnectionLost == connected /\ Break /\ LoseConnection /\ UNCHANGED log
RestartStore == LoseConnection /\ NewLog /\ UNCHANGED breaks

(* Mutant: a window that has lost what the client wants is not noticed. *)
ResetUnlessEvicted(req) ==
    (req.epoch # 0 /\ req.epoch # log.epoch) \/ req.after > log.last
Reset(req) ==
    \/ req.epoch # 0 /\ req.epoch # log.epoch
    \/ req.after > log.last
    \/ req.after > 0 /\ req.after < log.evicted

(* handleChatSubscribe, on the connection's read loop: the replay and the  *)
(* subscription; then the previous subscription is cancelled; then the     *)
(* answer, and the forwarder starts.                                       *)
CancelOpen(s) == [i \in DOMAIN s |->
    IF s[i].state = "open" THEN [s[i] EXCEPT !.state = "cancelled"] ELSE s[i]]
Larger(m, n) == IF m > n THEN m ELSE n
Subscribe ==
    /\ handling[2] = "none" /\ reqs # <<>> /\ Head(reqs) # Unsubscribe
    /\ Len(subs) < MaxSubs
    /\ LET req == Head(reqs)
           after == IF Reset(req) THEN 0 ELSE req.after
       IN  handling' = <<[id |-> req.id, epoch |-> log.epoch, reset |-> Reset(req),
                          whole |-> after = 0, from |-> Larger(after, log.evicted), latest |-> log.last],
                         "replace">>
    /\ subs' = Append(subs, [ch |-> <<>>, state |-> "open"]) /\ reqs' = Tail(reqs)
    /\ UNCHANGED <<log, data, ctrl, connected, client, view, breaks>>
Replace ==
    /\ handling[2] = "replace" /\ handling' = [handling EXCEPT ![2] = "answer"]
    /\ subs' = Append(CancelOpen(Front(subs)), Last(subs))
    /\ UNCHANGED <<log, reqs, data, ctrl, connected, client, view, breaks>>
(* writeResponse; a queue that stays full closes the connection. *)
Respond ==
    /\ handling[2] = "answer"
    /\ IF Len(data) < Outbox
       THEN /\ data' = Append(data, handling[1]) /\ handling' = <<NoAnswer, "none">>
            /\ UNCHANGED <<subs, reqs, ctrl, connected, client, view>>
       ELSE LoseConnection
    /\ UNCHANGED <<log, breaks>>

(* handleChatUnsubscribe *)
HandleUnsubscribe ==
    /\ handling[2] = "none" /\ reqs # <<>> /\ Head(reqs) = Unsubscribe
    /\ subs' = CancelOpen(subs) /\ reqs' = Tail(reqs)
    /\ UNCHANGED <<log, handling, data, ctrl, connected, client, view, breaks>>

(* forwardConversationEvents: an event is queued, or shed with the          *)
(* subscription when the queue stays full; a closed channel is drained     *)
(* first.  What is shed is announced on the control queue.                 *)
Running(i) == handling[2] = "none" \/ i < Len(subs)
(* Mutant: only a full queue is announced, not a subscriber that was closed. *)
AnnouncesShed(i) == subs[i].ch # <<>>
Announces(i) == subs[i].ch # <<>> \/ subs[i].state = "over"
Forward(i) ==
    /\ i \in DOMAIN subs /\ Running(i) /\ subs[i].ch # <<>> /\ Len(data) < Outbox
    /\ data' = Append(data, Event(Head(subs[i].ch)))
    /\ subs' = [subs EXCEPT ![i].ch = Tail(@)]
    /\ UNCHANGED <<log, handling, reqs, ctrl, connected, client, view, breaks>>
End(i) ==
    /\ i \in DOMAIN subs /\ Running(i)
    /\ IF subs[i].ch # <<>> THEN Len(data) = Outbox ELSE subs[i].state # "open"
    /\ subs' = RemoveAt(subs, i) /\ ctrl' = (ctrl \/ Announces(i))
    /\ UNCHANGED <<log, handling, reqs, data, connected, client, view, breaks>>

-----------------------------------------------------------------------------
(* The client. *)

Used == {reqs[i].id : i \in DOMAIN reqs} \cup {data[i].id : i \in DOMAIN data}
        \cup {handling[1].id, 0}
Fresh == {t \in Tickets \ Used : \A u \in Tickets \ Used : t <= u}

(* sync: one request at a time; the next one is queued. *)
(* Mutant: a sync asked for during another one is forgotten. *)
QueueSyncForgotten(c) == c
QueueSync(c) == [c EXCEPT !.queued = TRUE]
Sync(c) ==
    IF c.syncing # 0
    THEN client' = QueueSync(c) /\ UNCHANGED reqs
    ELSE \E t \in Fresh :
            /\ client' = [c EXCEPT !.syncing = t, !.retry = FALSE, !.queued = FALSE]
            /\ reqs' = Append(reqs, [id |-> t, after |-> c.seq, epoch |-> c.epoch])

(* handleConnected *)
Connect ==
    /\ ~connected /\ connected' = TRUE
    /\ IF client.here THEN Sync([client EXCEPT !.synced = FALSE]) ELSE UNCHANGED <<client, reqs>>
    /\ UNCHANGED <<log, subs, handling, data, ctrl, view, breaks>>

(* applyOne: what the cursor has passed was applied. *)
Show(v, s) ==
    IF s <= v.seq THEN v ELSE [v EXCEPT !.seq = s, !.shown = @ \cup {<<log.epoch, s>>}]

(* deliver: the registration's cursor, the transcript, and whether a gap   *)
(* asks for a sync.                                                        *)
DeliverEvent(d, s) ==
    IF s <= d.seq THEN d
    ELSE IF d.seq > 0 /\ s > d.seq + 1 THEN [d EXCEPT !.gap = TRUE]
    ELSE [d EXCEPT !.seq = s, !.view = Show(@, s)]
(* The events that waited for the answer, one after the other. *)
Drained(d, events) ==
    LET after[n \in 0..Len(events)] ==
            IF n = 0 THEN d ELSE DeliverEvent(after[n - 1], events[n])
    IN  after[Len(events)]

(* handleChatEvent *)
ReceiveEvent ==
    /\ data # <<>> /\ IsEvent(Head(data)) /\ data' = Tail(data)
    /\ LET s == Head(data).latest
           d == DeliverEvent([seq |-> client.seq, view |-> view, gap |-> FALSE], s)
       IN  IF ~client.here THEN UNCHANGED <<client, view, reqs>>
           ELSE IF ~client.synced
           THEN /\ client' = IF Len(client.pending) < Pending
                             THEN [client EXCEPT !.pending = Append(@, s)] ELSE client
                /\ UNCHANGED <<view, reqs>>
           ELSE /\ view' = d.view
                /\ IF d.gap THEN Sync(client)
                   ELSE client' = [client EXCEPT !.seq = d.seq] /\ UNCHANGED reqs
    /\ UNCHANGED <<log, subs, handling, ctrl, connected, breaks>>

(* applySync: a reset starts the transcript's cursor anew. *)
ApplySync(a) ==
    LET base == IF a.reset \/ view.seq = 0 THEN NewView ELSE view
    IN  [logs |-> base.logs \cup {a.epoch},
         seq |-> Larger(base.seq, a.latest),
         shown |-> base.shown \cup {<<a.epoch, s>> : s \in Larger(base.seq, a.from) + 1..a.latest}]
(* The answer to sync; one that nobody waits for is ignored. *)
ReceiveAnswer ==
    /\ data # <<>> /\ ~IsEvent(Head(data)) /\ data' = Tail(data)
    /\ LET a == Head(data)
           d == Drained([seq |-> a.latest, view |-> ApplySync(a), gap |-> FALSE],
                        client.pending)
           c == [client EXCEPT !.epoch = a.epoch, !.seq = d.seq, !.synced = TRUE,
                               !.syncing = 0, !.pending = <<>>,
                               !.from = IF a.whole THEN a.from ELSE @]
       IN  IF a.id # client.syncing THEN UNCHANGED <<client, view, reqs>>
           ELSE /\ view' = d.view
                /\ IF client.queued \/ d.gap THEN Sync(c) ELSE client' = c /\ UNCHANGED reqs
    /\ UNCHANGED <<log, subs, handling, ctrl, connected, breaks>>

(* handleSubscriptionReset *)
ReceiveReset ==
    /\ ctrl /\ ctrl' = FALSE
    /\ IF client.here THEN Sync([client EXCEPT !.retry = FALSE]) ELSE UNCHANGED <<client, reqs>>
    /\ UNCHANGED <<log, subs, handling, data, connected, view, breaks>>

(* A request that times out is retried later, at once if a sync is queued. *)
TimeOut ==
    /\ client.syncing # 0 /\ Break
    /\ LET c == [client EXCEPT !.syncing = 0, !.synced = FALSE]
       IN  IF client.queued THEN Sync(c)
           ELSE client' = [c EXCEPT !.retry = TRUE] /\ UNCHANGED reqs
    /\ UNCHANGED <<log, subs, handling, data, ctrl, connected, view>>
Retry ==
    /\ client.retry /\ Sync([client EXCEPT !.retry = FALSE])
    /\ UNCHANGED <<log, subs, handling, data, ctrl, connected, view, breaks>>

(* The user turns to another conversation, and comes back: the            *)
(* registration is a new one, the transcript is the one that was kept.     *)
Leave ==
    /\ client.here /\ Break /\ client' = Nobody
    /\ reqs' = IF connected THEN Append(reqs, Unsubscribe) ELSE reqs
    /\ UNCHANGED <<log, subs, handling, data, ctrl, connected, view>>
Return ==
    /\ ~client.here
    /\ IF connected THEN Sync(Newcomer) ELSE client' = Newcomer /\ UNCHANGED reqs
    /\ UNCHANGED <<log, subs, handling, data, ctrl, connected, view, breaks>>

-----------------------------------------------------------------------------
StreamNext ==
    \/ Publish \/ Evict \/ Reap
    \/ ConnectionLost \/ RestartStore \/ Connect
    \/ Subscribe \/ Replace \/ Respond \/ HandleUnsubscribe
    \/ \E i \in 1..MaxSubs : Forward(i) \/ End(i)
    \/ ReceiveEvent \/ ReceiveAnswer \/ ReceiveReset \/ TimeOut \/ Retry \/ Leave \/ Return

(* Reconnection, the connection's goroutines, its writer and the client's  *)
(* retries run on.                                                         *)
StreamFairness ==
    /\ WF_streamVars(Connect) /\ WF_streamVars(Subscribe) /\ WF_streamVars(Replace)
    /\ WF_streamVars(Respond) /\ WF_streamVars(HandleUnsubscribe)
    /\ \A i \in 1..MaxSubs : WF_streamVars(Forward(i) \/ End(i))
    /\ WF_streamVars(ReceiveEvent) /\ WF_streamVars(ReceiveAnswer)
    /\ WF_streamVars(ReceiveReset) /\ WF_streamVars(Retry)
StreamSpec == StreamInit /\ [][StreamNext]_streamVars /\ StreamFairness

-----------------------------------------------------------------------------
(* "the highest log seq already applied": the transcript has shown every    *)
(* event that its registration has passed on since it began, or since the  *)
(* last reset; none is taken for one that was applied already.             *)
EverythingShown ==
    client.synced =>
        \A s \in client.from + 1..client.seq : <<client.epoch, s>> \in view.shown

(* The same, of a transcript that was filled from the log it follows.      *)
SameLog == view.logs \subseteq {client.epoch}
NothingMissed == SameLog => EverythingShown

(* A shed or replaced subscription never ends a stream silently: a client   *)
(* that believes itself in sync has a subscription that goes on, or a reset *)
(* is on its way to it.                                                     *)
NeverDeadEnd ==
    connected /\ client.synced /\ client.syncing = 0 =>
        ctrl \/ \E i \in DOMAIN subs : subs[i].state \in {"open", "over"}

(* A client that stays is in sync with the whole log when events cease. *)
CatchesUp == <>[](client.here => client.synced /\ client.seq = log.last)
=============================================================================
