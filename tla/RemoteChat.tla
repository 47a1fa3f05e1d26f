------------------------------- MODULE RemoteChat -------------------------------
(***************************************************************************)
(* Chat runs between a browser, the agent gateway (ConversationRuns) and   *)
(* the desktop application that executes them: commands sent by the web    *)
(* client, the desktop's inbox and run ledger, its front end, and the      *)
(* stream between the two, which loses what is under way when it breaks.   *)
(*                                                                         *)
(* The front end sends control events at once, and chat events through a   *)
(* chain of calls of its own (`chain').  The desktop's `sent' means handed *)
(* to the stream.  Leases last while the front end lives; timeouts may     *)
(* fire whenever their other conditions hold.                              *)
(***************************************************************************)
EXTENDS ConversationRuns, FiniteSets

CONSTANTS
    Ageing,   \* bound: the runs whose ends the desktop may drop
    MaxUp,    \* bound: messages of the desktop under way
    MaxFaults \* bound: broken streams, restarts of the gateway, the desktop or
              \* its front end, cancels, startup watchdogs overtaken between
              \* check and failure

ASSUME BoundsAssumption == MaxUp \in Nat /\ MaxFaults \in Nat

VARIABLES
    sort,    \* what a run is: unused, of a web command (a draft until the
             \* desktop names its conversation), or typed on the desktop
    watch,   \* the startup watchdog: to dispatch, waiting, found unsettled
    forcing, \* runs with a cancel watchdog
    inbox,   \* the desktop's record of a command
    exec,    \* the front end's execution of a run
    ledger,  \* the desktop's ledger; an "old" end is no longer replayed
    unsent,  \* terminal entries not yet handed to the stream
    chain,   \* the front end's chat events, waiting for their call
    up, down, \* the stream, each way
    online,
    fresh,   \* a new stream whose reconciliation has not begun
    starts, ends, \* what the reconciliation has still to replay
    faults

gateVars == <<gw, watch, forcing>>
deskVars == <<inbox, exec, ledger, unsent, chain>>
netVars  == <<up, down, online, fresh, starts, ends>>
vars == <<gateVars, deskVars, netVars, sort, faults>>

Message == [run : Runs, type : AgentEvents \cup Controls, named : BOOLEAN]
Command == [run : Runs, cancel : BOOLEAN]
TypeOK ==
    /\ gw \in StoreType
    /\ sort \in [Runs -> {"unused", "web", "draft", "local"}]
    /\ watch \in [Runs -> {"off", "dispatch", "wait", "late"}] /\ forcing \subseteq Runs
    /\ inbox \in [Runs -> {"none", "queued", "claimed", "parked", "running"}]
    /\ exec \in [Runs -> {"none", "owned", "started", "streaming", "ended", "over"}]
    /\ ledger \in [Runs -> {"none", "running", "ended", "old"}] /\ unsent \subseteq Runs
    /\ chain \in Seq(Message) /\ up \in Seq(Message)
    /\ starts \subseteq Runs /\ ends \subseteq Runs
    /\ down \in Seq(Command)
    /\ online \in BOOLEAN /\ fresh \in BOOLEAN /\ faults \in 0..MaxFaults

Init ==
    /\ StoreInit
    /\ sort = [r \in Runs |-> "unused"]
    /\ watch = [r \in Runs |-> "off"] /\ forcing = {}
    /\ inbox = [r \in Runs |-> "none"] /\ exec = [r \in Runs |-> "none"]
    /\ ledger = [r \in Runs |-> "none"] /\ unsent = {} /\ chain = <<>>
    /\ up = <<>> /\ down = <<>> /\ online = TRUE /\ fresh = FALSE
    /\ starts = {} /\ ends = {}
    /\ faults = 0

-----------------------------------------------------------------------------
Fault == faults < MaxFaults /\ faults' = faults + 1
Watch(r, w) == watch' = [watch EXCEPT ![r] = w]
Inbox(r, s) == inbox' = [inbox EXCEPT ![r] = s]
Exec(r, e) == exec' = [exec EXCEPT ![r] = e]

Msg(r, type) == [run |-> r, type |-> type, named |-> sort[r] # "draft"]
Push(ms) == Len(up) + Len(ms) <= MaxUp /\ up' = up \o ms
(* A control event; without a stream the call fails and sends nothing. *)
Tell(r, type) == IF online THEN Push(<<Msg(r, type)>>) ELSE UNCHANGED up
Lane == <<down, online, fresh, starts, ends>>

(* The ledger's mark_running, touch and mark_terminal: the first terminal   *)
(* state stays.                                                            *)
Ended == {"ended", "old"}
Mark(r, state) == ledger' = [ledger EXCEPT ![r] = IF @ \in Ended THEN @ ELSE state]
(* A terminal state and its control event, unsent if there is no stream. *)
Unsent(r) ==
    unsent' = IF online THEN unsent \ {r}
              ELSE IF ledger[r] \in Ended THEN unsent ELSE unsent \cup {r}
Conclude(r) == Mark(r, "ended") /\ Tell(r, "terminal") /\ Unsent(r)

(* The conversation is running another run in the front end. *)
Busy(r) == \E q \in Runs \ {r} : exec[q] \in {"started", "streaming"}

-----------------------------------------------------------------------------
(* The gateway. *)

(* handleChatCommand, and StartChatCommand: a draft is a new conversation. *)
Submit(r, draft) ==
    /\ sort[r] = "unused" /\ online /\ gw.pending = {}
    /\ draft => \A q \in Runs : sort[q] = "unused"
    /\ sort' = [sort EXCEPT ![r] = IF draft THEN "draft" ELSE "web"]
    /\ gw' = Accept(gw, r, draft) /\ Watch(r, "dispatch")
    /\ UNCHANGED <<forcing, deskVars, netVars, faults>>

Dispatch(r) ==
    /\ watch[r] = "dispatch"
    /\ \/ /\ online /\ down' = Append(down, [run |-> r, cancel |-> FALSE])
          /\ Watch(r, "wait") /\ UNCHANGED gw
       \/ ~online /\ gw' = FailCommand(gw, r) /\ Watch(r, "off") /\ UNCHANGED down
    /\ UNCHANGED <<forcing, deskVars, up, online, fresh, starts, ends, sort, faults>>

(* watchAcceptedChatCommandStartup: the failure follows the check at once, *)
(* or after steps of others (bounded as a fault).                          *)
CheckStartup(r) ==
    /\ watch[r] = "wait"
    /\ \/ Settled(gw, r) /\ Watch(r, "off") /\ UNCHANGED faults
       \/ ~Settled(gw, r) /\ Watch(r, "late") /\ Fault
    /\ UNCHANGED <<gw, forcing, deskVars, netVars, sort>>
FailStartup(r) ==
    /\ watch[r] = "late" \/ (watch[r] = "wait" /\ ~Settled(gw, r))
    /\ Watch(r, "off") /\ gw' = FailCommand(gw, r)
    /\ UNCHANGED <<forcing, deskVars, netVars, sort, faults>>

(* handleChatCancel, and watchChatCancel. *)
Cancel ==
    /\ gw.act.run # None /\ online /\ Fault
    /\ gw' = MarkCancelling(gw) /\ forcing' = forcing \cup {gw.act.run}
    /\ down' = Append(down, [run |-> gw.act.run, cancel |-> TRUE])
    /\ UNCHANGED <<watch, deskVars, up, online, fresh, starts, ends, sort>>
ForceCancel(r) ==
    /\ r \in forcing /\ forcing' = forcing \ {r} /\ gw' = ForceFinish(gw, r)
    /\ UNCHANGED <<watch, deskVars, netVars, sort, faults>>

(* onRuntimeStatus and reap: nothing vouches for the active run.  The       *)
(* startup watchdog is much shorter than the reaper's timeouts.             *)
Unvouched(r) ==
    /\ ~online \/ gw.act.state = "queued" \/ ledger[r] # "running"
    /\ gw.act.state = "queued" => watch[r] = "off"
LoseRun ==
    /\ gw.act.run # None /\ Unvouched(gw.act.run) /\ gw' = Finish(gw, gw.act.run)
    /\ UNCHANGED <<watch, forcing, deskVars, netVars, sort, faults>>

(* ingestChatEvent, ingestChatControl: what names no conversation is        *)
(* ignored, unless the run has one.                                        *)
(* Mutant: the activity is shown before the draft has its conversation.    *)
HandleUnbound(m) ==
    IF ~m.named THEN Queue(gw, m.run)
    ELSE IF m.type \in AgentEvents THEN ChatEvent(gw, m.run, m.type)
    ELSE Control(gw, m.run, m.type)
Handle(m) ==
    IF ~m.named /\ ~gw.rec[m.run].bound THEN gw
    ELSE IF m.type \in AgentEvents THEN ChatEvent(gw, m.run, m.type)
    ELSE Control(gw, m.run, m.type)
Deliver ==
    /\ up # <<>> /\ up' = Tail(up) /\ gw' = Handle(Head(up))
    /\ UNCHANGED <<watch, forcing, deskVars, down, online, fresh, starts, ends, sort, faults>>

Cut ==
    /\ up' = <<>> /\ down' = <<>> /\ online' = FALSE /\ fresh' = FALSE
    /\ starts' = {} /\ ends' = {}
Disconnect == online /\ Fault /\ Cut /\ UNCHANGED <<gateVars, deskVars, sort>>
RestartGateway ==
    /\ Fault /\ Cut /\ gw' = EmptyStore
    /\ watch' = [r \in Runs |-> "off"] /\ forcing' = {}
    /\ UNCHANGED <<deskVars, sort>>

-----------------------------------------------------------------------------
(* The desktop. *)

Reconnect ==
    /\ ~online /\ online' = TRUE /\ fresh' = TRUE
    /\ UNCHANGED <<up, down, starts, ends, gateVars, deskVars, sort, faults>>

Named(r) == sort[r] # "draft"

(* Mutant: only what was never handed to a stream is replayed. *)
EndsUnsent == unsent
EndsToReplay == {r \in Runs : ledger[r] = "ended"}

(* republish_chat_run_states: it reads the ledger, and then sends one       *)
(* event at a time, first the active runs.                                  *)
Reconcile ==
    /\ fresh /\ fresh' = FALSE
    /\ starts' = {r \in Runs : ledger[r] = "running" /\ Named(r)}
    /\ ends' = {r \in EndsToReplay : Named(r)}
    /\ UNCHANGED <<up, down, online, gateVars, deskVars, sort, faults>>
Replay(r) ==
    /\ \/ r \in starts /\ starts' = starts \ {r} /\ Push(<<Msg(r, "started")>>)
          /\ UNCHANGED <<ends, unsent>>
       \/ starts = {} /\ r \in ends /\ ends' = ends \ {r} /\ Push(<<Msg(r, "terminal")>>)
          /\ unsent' = unsent \ {r} /\ UNCHANGED starts
    /\ UNCHANGED <<inbox, exec, ledger, chain, down, online, fresh, gateVars, sort, faults>>

(* flush_unsent_chat_run_terminals: the sweep, of a run that nothing has    *)
(* touched for a while and of ends that are kept no longer, and the events. *)
Sweep(r) ==
    /\ ledger[r] = "running" /\ exec[r] \in {"none", "over"}
    /\ Mark(r, "ended") /\ unsent' = unsent \cup {r}
    /\ UNCHANGED <<inbox, exec, chain, netVars, gateVars, sort, faults>>
(* Newer ends (of any conversation) push one out of the replays, which take *)
(* the newest terminal_cap; and after a while it is dropped, sent or not.   *)
Age(r) ==
    /\ r \in Ageing /\ ledger[r] \in Ended
    /\ \/ ledger[r] = "ended" /\ ledger' = [ledger EXCEPT ![r] = "old"] /\ UNCHANGED unsent
       \/ ledger' = [ledger EXCEPT ![r] = "none"] /\ unsent' = unsent \ {r}
    /\ UNCHANGED <<inbox, exec, chain, netVars, gateVars, sort, faults>>
FlushEnd(r) ==
    /\ online /\ r \in unsent /\ Named(r) /\ Push(<<Msg(r, "terminal")>>)
    /\ unsent' = unsent \ {r}
    /\ UNCHANGED <<inbox, exec, ledger, chain, Lane, gateVars, sort, faults>>

(* enqueue_gateway_chat_request; cancel_remote_chat_request and the abort   *)
(* of the conversation's run.                                               *)
ReceiveCommand(r) ==
    /\ inbox[r] = "none" /\ Inbox(r, "queued") /\ Push(<<Msg(r, "pending")>>)
    /\ UNCHANGED exec
Cancelled(r, q) ==
    q = r \/ inbox[q] \in {"claimed", "running"}
ReceiveCancel(r) ==
    /\ inbox' = [q \in Runs |-> IF Cancelled(r, q) THEN "none" ELSE inbox[q]]
    /\ Push(<<[Msg(r, "terminal") EXCEPT !.named = TRUE]>>)
    /\ UNCHANGED exec
Receive ==
    /\ down # <<>> /\ down' = Tail(down)
    /\ IF Head(down).cancel THEN ReceiveCancel(Head(down).run)
       ELSE ReceiveCommand(Head(down).run)
    /\ UNCHANGED <<ledger, unsent, chain, online, fresh, starts, ends, gateVars, sort, faults>>

-----------------------------------------------------------------------------
(* The front end. *)

(* claim_next_chat_request: if its control event cannot be sent, the call   *)
(* fails and the lease is left to lapse.                                    *)
Claim(r) ==
    /\ inbox[r] = "queued" /\ Inbox(r, "claimed") /\ Tell(r, "pending")
    /\ IF online THEN Exec(r, "owned") ELSE UNCHANGED exec
    /\ UNCHANGED <<ledger, unsent, chain, Lane, gateVars, sort, faults>>

(* release_chat_request_lease: the conversation is busy and the prompt was  *)
(* not parked.                                                             *)
Release(r) ==
    /\ exec[r] = "owned" /\ inbox[r] = "claimed" /\ Busy(r)
    /\ Inbox(r, "queued") /\ Exec(r, "none")
    /\ UNCHANGED <<ledger, unsent, chain, netVars, gateVars, sort, faults>>

(* expire_remote_chat_leases *)
Expire(r) ==
    /\ exec[r] = "none"
    /\ \/ inbox[r] = "claimed" /\ Inbox(r, "queued") /\ UNCHANGED <<ledger, unsent, up>>
       \/ inbox[r] = "running" /\ Inbox(r, "none") /\ Conclude(r)
    /\ UNCHANGED <<exec, chain, Lane, gateVars, sort, faults>>

(* mark_chat_request_queued_in_gui *)
ParkInGUI(r) ==
    /\ exec[r] = "owned" /\ inbox[r] = "claimed" /\ Named(r) /\ online
    /\ Inbox(r, "parked") /\ Exec(r, "none") /\ Tell(r, "queued_in_gui")
    /\ UNCHANGED <<ledger, unsent, chain, Lane, gateVars, sort, faults>>

(* fail_chat_request *)
Reject(r) ==
    /\ exec[r] = "owned" /\ Exec(r, "over") /\ Inbox(r, "none")
    /\ IF inbox[r] = "none" THEN UNCHANGED <<ledger, unsent, up>> ELSE Conclude(r)
    /\ UNCHANGED <<chain, Lane, gateVars, sort, faults>>

(* mark_chat_request_started: a failed call fails the run. *)
MarkStarted(r) ==
    /\ Inbox(r, "running") /\ sort' = [sort EXCEPT ![r] = "web"]
    /\ Push(<<[Msg(r, "started") EXCEPT !.named = TRUE]>>)
    /\ Mark(r, "running") /\ Exec(r, "started") /\ UNCHANGED unsent
StartRun(r) ==
    /\ ~Busy(r)
    /\ (exec[r] = "owned" /\ inbox[r] = "claimed") \/ (exec[r] = "none" /\ inbox[r] = "parked")
    /\ IF online THEN MarkStarted(r)
       ELSE /\ Inbox(r, "none") /\ Exec(r, "over") /\ Conclude(r)
            /\ sort' = [sort EXCEPT ![r] = "web"]
    /\ UNCHANGED <<chain, Lane, gateVars, faults>>

(* cancel_chat_request: the user removes a parked prompt. *)
RemoveParked(r) ==
    /\ exec[r] = "none" /\ inbox[r] = "parked" /\ Inbox(r, "none")
    /\ Conclude(r)
    /\ UNCHANGED <<exec, chain, Lane, gateVars, sort, faults>>

(* mark_local_chat_run_started: its failure is only logged. *)
StartLocal(r) ==
    /\ sort[r] = "unused" /\ ~Busy(r) /\ \A q \in Runs : Named(q)
    /\ sort' = [sort EXCEPT ![r] = "local"]
    /\ Mark(r, "running") /\ Tell(r, "started") /\ Exec(r, "started")
    /\ UNCHANGED <<inbox, unsent, chain, Lane, gateVars, faults>>

(* The chat events of a run: the echo of its message, and its end. *)
Emit(r) ==
    /\ \E step \in {<<"started", "user_message", "streaming">>,
                    <<"streaming", "done", "ended">>} :
        exec[r] = step[1] /\ chain' = Append(chain, Msg(r, step[2])) /\ Exec(r, step[3])
    /\ UNCHANGED <<inbox, ledger, unsent, netVars, gateVars, sort, faults>>

(* send_chat_event: what is not the end touches the run in the ledger. *)
SendEvent ==
    /\ chain # <<>> /\ chain' = Tail(chain)
    /\ LET m == Head(chain) IN
        /\ IF online THEN Push(<<m>>) ELSE UNCHANGED up
        /\ IF m.type = "done"
           THEN Mark(m.run, "ended") /\ Unsent(m.run)
           ELSE Mark(m.run, "running") /\ UNCHANGED unsent
    /\ UNCHANGED <<inbox, exec, Lane, gateVars, sort, faults>>

(* complete_chat_request, as soon as the run's chat events are queued. *)
Complete(r) ==
    /\ exec[r] = "ended" /\ Exec(r, "over")
    /\ IF inbox[r] = "none" THEN UNCHANGED <<inbox, ledger, unsent, up>>
       ELSE Inbox(r, "none") /\ Conclude(r)
    /\ UNCHANGED <<chain, Lane, gateVars, sort, faults>>

(* The front end is gone, with its runs and its queue of events. *)
Reload ==
    /\ Fault /\ chain' = <<>>
    /\ exec' = [r \in Runs |-> IF exec[r] = "over" THEN "over" ELSE "none"]
    /\ UNCHANGED <<inbox, ledger, unsent, netVars, gateVars, sort>>

(* The whole desktop is restarted: its inbox and its ledger are in memory.  *)
RestartDesktop ==
    /\ Fault /\ Cut /\ chain' = <<>> /\ unsent' = {}
    /\ exec' = [r \in Runs |-> IF exec[r] = "over" THEN "over" ELSE "none"]
    /\ inbox' = [r \in Runs |-> "none"] /\ ledger' = [r \in Runs |-> "none"]
    /\ UNCHANGED <<gateVars, sort>>

-----------------------------------------------------------------------------
Next ==
    \/ \E r \in Runs :
        \/ \E draft \in BOOLEAN : Submit(r, draft)
        \/ Dispatch(r) \/ CheckStartup(r) \/ FailStartup(r) \/ ForceCancel(r)
        \/ Replay(r) \/ Sweep(r) \/ Age(r) \/ FlushEnd(r)
        \/ Claim(r) \/ Release(r) \/ Expire(r) \/ ParkInGUI(r) \/ Reject(r) \/ StartRun(r)
        \/ RemoveParked(r) \/ StartLocal(r) \/ Emit(r) \/ Complete(r)
    \/ Cancel \/ LoseRun \/ Deliver \/ Disconnect \/ RestartGateway
    \/ Reconnect \/ Reconcile \/ Receive \/ SendEvent \/ Reload \/ RestartDesktop

Spec == Init /\ [][Next]_vars

(* The streams are reopened and emptied and the reconciliation completes;  *)
(* no timeout of the gateway is relied upon.                               *)
Fairness ==
    /\ WF_vars(Reconnect) /\ WF_vars(Reconcile) /\ WF_vars(Deliver)
    /\ \A r \in Runs : WF_vars(Replay(r)) /\ WF_vars(FlushEnd(r))
LiveSpec == Spec /\ Fairness

-----------------------------------------------------------------------------
(* No viewer ever sees two runs open, and the one it sees is the           *)
(* activity's.                                                             *)
OneOpenRun == \A r \in Runs : Open(gw, r) => gw.act.run = r

Shown(r) ==
    LET Count(kind) ==
            Cardinality({i \in DOMAIN gw.log : gw.log[i] = [kind |-> kind, run |-> r]})
    IN  Count("user_message") - Count("run_queued")
(* "the message appears exactly once": the seed, the deferred seed and the  *)
(* desktop's echo never show a message twice.                               *)
MessageOnce == \A r \in Runs : Shown(r) \in 0..1

(* Run r finished, and the ring has forgotten it since, with its record,    *)
(* which says that its message was shown.                                  *)
PushedOut(g, r) == \E i \in DOMAIN g.fin : g.fin[i] = r /\ Len(g.fin) - i >= Memory
(* Without a fault that is so of every run that is not pushed out: only an  *)
(* echo that comes after its run was pushed out would be shown again.      *)
MessageOnceIfCalm == faults = 0 => \A r \in Runs : PushedOut(gw, r) \/ Shown(r) \in 0..1

(* "Terminal signals must reach the gateway at least once": while the       *)
(* desktop's ledger keeps a run's end to replay it, the run does not stay   *)
(* the conversation's current run, whatever was lost under way.  An end     *)
(* that it has dropped is left to the gateway's timeouts.                   *)
TerminalArrives ==
    \A r \in Runs : ledger[r] = "ended" ~> (ledger[r] = "ended" => gw.act.run # r)

(* The gateway is the one proved about, with this agent and these clients. *)
AnyAgent == StoreSpec
=============================================================================
