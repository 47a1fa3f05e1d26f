---------------------------- MODULE ConversationRuns ----------------------------
(***************************************************************************)
(* The runs of one conversation in the agent gateway's stream store: the   *)
(* ordered log every viewer follows, the activity (the current run), the   *)
(* ring of finished runs that absorbs duplicate terminal signals, and the  *)
(* records of the runs' commands.  Every operation holds the store's       *)
(* mutex, so each is one step; a step is an operator on the store.         *)
(*                                                                         *)
(* The agent is arbitrary here: any message about any run, in any order    *)
(* and any number of times.  RemoteChat puts the desktop application in    *)
(* its place.  Time is left out: a timeout may fire whenever its other     *)
(* conditions hold.  Eviction and subscribers are in StreamSubscription.   *)
(***************************************************************************)
EXTENDS Integers, Sequences

CONSTANTS
    Runs,   \* run ids
    None,   \* no run
    Memory  \* conversationFinishedRunMemory

ASSUME MemoryAssumption == Memory \in Nat \ {0}
ASSUME NoneAssumption == None \notin Runs

VARIABLE gw \* the store: see StoreType

Kinds == {"user_message", "rebased", "token", "run_started", "run_finished", "run_queued"}
States == {"idle", "queued", "running", "cancelling"}
(* "pending": delivered, claimed or starting; "terminal": completed, failed *)
(* or cancelled; "done": also the error event; "edit": a user_message that  *)
(* truncates the history first.                                             *)
AgentEvents == {"user_message", "edit", "token", "done"}
Controls == {"pending", "started", "queued_in_gui", "terminal"}

EventType == [kind : Kinds, run : Runs]
RecordType ==
    [bound : BOOLEAN,     \* there is a record: it names the conversation
     seeded : BOOLEAN,    \* userMessageSeeded
     deferred : BOOLEAN,  \* deferredSeeds
     parked : BOOLEAN,    \* queuedInGUI
     rebased : BOOLEAN,   \* rebaseSeeded
     first : Nat]         \* firstSeededSeq
StoreType ==
    [log : Seq(EventType),
     act : [run : Runs \cup {None}, state : States, start : Nat],
     ring : Seq(Runs),    \* finishedRuns
     fin : Seq(Runs),     \* history: the runs of the run_finished events
     rec : [Runs -> RecordType],
     pending : SUBSET Runs]

NoRecord == [bound |-> FALSE, seeded |-> FALSE, deferred |-> FALSE,
             parked |-> FALSE, rebased |-> FALSE, first |-> 0]
Idle == [run |-> None, state |-> "idle", start |-> 0]
EmptyStore == [log |-> <<>>, act |-> Idle, ring |-> <<>>, fin |-> <<>>,
               rec |-> [r \in Runs |-> NoRecord], pending |-> {}]

-----------------------------------------------------------------------------
Remembered(g, r) == \E i \in DOMAIN g.ring : g.ring[i] = r
Log(g, kind, r) == [g EXCEPT !.log = Append(@, [kind |-> kind, run |-> r])]
Bind(g, r) == [g EXCEPT !.rec[r].bound = TRUE]

(* appendSeededPayloadsLocked: the first one is the run's firstSeededSeq. *)
Seed(g, kind, r) ==
    [Log(g, kind, r) EXCEPT !.rec[r].first = IF @ = 0 THEN Len(g.log) + 1 ELSE @]

(* The seeds of a command that was accepted while another run was active. *)
(* Mutant: the flushed message is not marked, so its echo follows it.      *)
FlushUnmarked(g, r) ==
    IF g.rec[r].deferred
    THEN [Seed(g, "user_message", r) EXCEPT !.rec[r].deferred = FALSE]
    ELSE g
Flush(g, r) ==
    IF g.rec[r].deferred
    THEN [Seed(g, "user_message", r) EXCEPT !.rec[r].deferred = FALSE,
                                            !.rec[r].seeded = TRUE]
    ELSE g

(* Mutant: the ring keeps one run too few. *)
RememberLess(ring, r) ==
    IF Len(ring) < Memory - 1 THEN Append(ring, r) ELSE Tail(Append(ring, r))
Remember(ring, r) ==
    IF Len(ring) < Memory THEN Append(ring, r) ELSE Append(Tail(ring), r)

(* run_finished; the run that leaves the ring loses its record. *)
Close(g, r) ==
    IF Remembered(g, r) THEN g
    ELSE [Log(g, "run_finished", r) EXCEPT
            !.ring = Remember(@, r), !.fin = Append(@, r),
            !.rec = IF Len(g.ring) < Memory THEN @
                    ELSE [@ EXCEPT ![Head(g.ring)] = NoRecord],
            !.act = IF @.run = r THEN Idle ELSE @]

(* Mutant: the run that was active is not finished first. *)
SupersedeSilently(g) == g
(* runStartedLocked of a run while another one is active. *)
Supersede(g) ==
    IF g.act.state \in {"running", "cancelling"} THEN Close(g, g.act.run) ELSE g

Activate(g, r) ==
    [g EXCEPT !.act =
        [run |-> r, state |-> "running",
         start |-> IF g.rec[r].first \in 1..Len(g.log) THEN g.rec[r].first ELSE Len(g.log)]]
LogStart(g, r) == Log(Flush(Bind(g, r), r), "run_started", r)

(* runStartedLocked: a cancelled run that starts keeps its state. *)
Start(g, r) ==
    IF Remembered(g, r) THEN g
    ELSE IF g.act.run # r THEN Activate(LogStart(Supersede(g), r), r)
    ELSE IF g.act.state = "queued" THEN [LogStart(g, r) EXCEPT !.act.state = "running"]
    ELSE g

(* runFinishedLocked: the start of an unknown run is made up, unless       *)
(* another run is active.                                                  *)
(* Mutant: whatever run is current is finished.                            *)
FinishCurrent(g, r) == Close(g, g.act.run)
Finish(g, r) == IF g.act.run = None THEN Close(Start(g, r), r) ELSE Close(g, r)

(* markRunQueuedLocked *)
Queue(g, r) ==
    IF Remembered(g, r) \/ g.act.run # None THEN g
    ELSE [g EXCEPT !.act = [run |-> r, state |-> "queued", start |-> Len(g.log) + 1]]

(* markRunQueuedInGUILocked: run_queued takes a seeded message back. *)
Park(g, r) ==
    IF Remembered(g, r) THEN g
    ELSE LET h == [g EXCEPT !.rec[r] =
                    [@ EXCEPT !.bound = TRUE, !.parked = TRUE,
                              !.deferred = FALSE, !.seeded = FALSE]]
             k == IF g.rec[r].seeded THEN Log(h, "run_queued", r) ELSE h
         IN  IF g.act.run = r THEN [k EXCEPT !.act = Idle] ELSE k

(* A command's message at once, in an idle conversation; else deferred. *)
SeedNow(g, r) ==
    [Seed(Queue(Bind(g, r), r), "user_message", r) EXCEPT !.rec[r].seeded = TRUE]
SeedLater(g, r) == [Bind(g, r) EXCEPT !.rec[r].deferred = TRUE]

(* resolveConversationLocked, of a message that names the conversation: it *)
(* binds a pending draft.                                                  *)
Resolve(g, r) ==
    IF r \in g.pending THEN SeedNow([g EXCEPT !.pending = @ \ {r}], r) ELSE Bind(g, r)

-----------------------------------------------------------------------------
(* StartChatCommand, for this conversation and for a draft. *)
Accept(g, r, draft) ==
    IF draft THEN [g EXCEPT !.pending = @ \cup {r}]
    ELSE IF g.act.run = None THEN SeedNow(g, r) ELSE SeedLater(g, r)

(* FailChatCommand *)
FailCommand(g, r) ==
    IF r \in g.pending THEN [g EXCEPT !.pending = @ \ {r}]
    ELSE IF g.rec[r].bound THEN Finish(Flush(g, r), r) ELSE g

(* ChatCommandSettled *)
Settled(g, r) ==
    /\ g.rec[r].bound
    /\ \/ g.rec[r].parked \/ Remembered(g, r)
       \/ g.act.run = r /\ g.act.state # "queued"

(* MarkConversationCancelling; ForceFinishRun is its watchdog. *)
MarkCancelling(g) == [g EXCEPT !.act.state = "cancelling"]
ForceFinish(g, r) == IF g.rec[r].bound THEN Finish(g, r) ELSE g

(* ingestChatControl; ingestRuntimeSnapshot does the same to runs. *)
Control(g, r, type) ==
    LET h == Resolve(g, r)
    IN  CASE type = "started" -> Start(h, r)
          [] type = "terminal" -> Finish(h, r)
          [] type = "queued_in_gui" -> Park(h, r)
          [] type = "pending" -> Queue(h, r)

(* A GUI-local edit announces the truncation once. *)
Rebase(g, r) ==
    IF g.rec[r].rebased THEN g
    ELSE Seed([g EXCEPT !.rec[r].rebased = TRUE], "rebased", r)
Stream(g, r, kind) == IF g.act.run = r THEN Log(g, kind, r) ELSE g

(* ingestChatEvent: the echo of a seeded message is swallowed, and what    *)
(* follows the run's end is dropped.                                       *)
ChatEvent(g, r, type) ==
    LET h == Resolve(g, r)
        echo == type \in {"user_message", "edit"}
    IN  IF type = "done" THEN Finish(h, r)
        ELSE IF (echo /\ h.rec[r].seeded) \/ Remembered(h, r) THEN h
        ELSE Stream(Start(IF type = "edit" THEN Rebase(h, r) ELSE h, r), r,
                    IF echo THEN "user_message" ELSE "token")

(* reap deletes a stream that has been idle, with the records of the runs  *)
(* in its ring.                                                            *)
Forget(g) ==
    [g EXCEPT !.log = <<>>, !.ring = <<>>, !.fin = <<>>,
              !.rec = [r \in Runs |-> IF Remembered(g, r) THEN NoRecord ELSE @[r]]]

-----------------------------------------------------------------------------
(* Any agent, any client. *)
StoreInit == gw = EmptyStore
StoreNext ==
    \/ \E r \in Runs :
        \/ \E draft \in BOOLEAN : gw' = Accept(gw, r, draft)
        \/ gw' = FailCommand(gw, r)
        \/ gw' = ForceFinish(gw, r)
        \/ \E type \in Controls : gw' = Control(gw, r, type)
        \/ \E type \in AgentEvents : gw' = ChatEvent(gw, r, type)
    \/ gw.act.run # None /\ gw' = MarkCancelling(gw)
    \/ gw.act.run # None /\ gw' = Finish(gw, gw.act.run)
    \/ gw.act.run = None /\ gw' = Forget(gw)
    \/ gw' = EmptyStore
StoreSpec == StoreInit /\ [][StoreNext]_gw

-----------------------------------------------------------------------------
(* "run_finished is emitted exactly once per run": whatever the agent      *)
(* repeats, a run finishes again only after more other runs than the ring  *)
(* remembers.                                                              *)
FinishedOnce ==
    \A i, j \in DOMAIN gw.fin : i < j /\ gw.fin[i] = gw.fin[j] => j - i > Memory

(* Run r is started in the log and not finished. *)
Open(g, r) ==
    \E i \in DOMAIN g.log :
        /\ g.log[i] = [kind |-> "run_started", run |-> r]
        /\ \A j \in DOMAIN g.log : j > i => g.log[j] # [kind |-> "run_finished", run |-> r]

(* "Run handoff is supersession": no viewer ever sees two runs open, and   *)
(* the one it sees is the activity's, unless the agent parked it.          *)
OpenIsActive == \A r \in Runs : Open(gw, r) => gw.act.run = r \/ gw.rec[r].parked
=============================================================================
