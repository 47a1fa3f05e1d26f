------------------------ MODULE RemoteChatInvariants ------------------------
(***************************************************************************)
(* The inductive invariants behind the safety of RemoteChat: Inv of the    *)
(* store, for any agent; ChatInv, with the types of everything else;       *)
(* OpenInv, for no two open runs; CalmInv, for a message that is shown once*)
(* if there is no fault.                                                   *)
(* RemoteChatProofs proves them.                                           *)
(***************************************************************************)
EXTENDS RemoteChat

(* The ring is the end of the history of finished runs. *)
RingIsTail(g) ==
    /\ Len(g.ring) = IF Len(g.fin) < Memory THEN Len(g.fin) ELSE Memory
    /\ \A k \in DOMAIN g.ring : g.ring[k] = g.fin[Len(g.fin) - Len(g.ring) + k]
Once(g) == \A i, j \in DOMAIN g.fin : i < j /\ g.fin[i] = g.fin[j] => j - i > Memory
IdleHasNoRun(g) == (g.act.run = None) <=> (g.act.state = "idle")
RememberedIsClosed(g) ==
    \A r \in Runs : Remembered(g, r) => ~Open(g, r) /\ g.act.run # r
OpenIsCurrent(g) == \A r \in Runs : Open(g, r) => g.act.run = r \/ g.rec[r].parked
QueuedIsParked(g) ==
    g.act.state = "queued" => \A r \in Runs : g.act.run = r /\ Open(g, r) => g.rec[r].parked
Inv(g) ==
    /\ g \in StoreType /\ RingIsTail(g) /\ Once(g) /\ IdleHasNoRun(g)
    /\ RememberedIsClosed(g) /\ OpenIsCurrent(g) /\ QueuedIsParked(g)

-----------------------------------------------------------------------------
(* The variables other than the store. *)
Rest ==
    /\ sort \in [Runs -> {"unused", "web", "draft", "local"}]
    /\ watch \in [Runs -> {"off", "dispatch", "wait", "late"}] /\ forcing \subseteq Runs
    /\ inbox \in [Runs -> {"none", "queued", "claimed", "parked", "running"}]
    /\ exec \in [Runs -> {"none", "owned", "started", "streaming", "ended", "over"}]
    /\ ledger \in [Runs -> {"none", "running", "ended", "old"}] /\ unsent \subseteq Runs
    /\ starts \subseteq Runs /\ ends \subseteq Runs
    /\ online \in BOOLEAN /\ fresh \in BOOLEAN /\ faults \in 0..MaxFaults
Wires == chain \in Seq(Message) /\ up \in Seq(Message) /\ down \in Seq(Command)
ChatInv == Inv(gw) /\ Rest /\ Wires

-----------------------------------------------------------------------------
(* No run is open but the current one, and none that is queued. *)
Sole(g) == \A r \in Runs : Open(g, r) => g.act.run = r /\ g.act.state # "queued"
(* The messages that start a run. *)
Starters == {"started", "user_message", "edit", "token"}

(* Which message comes first.  A run is early until the front end starts it, *)
(* and until then nothing that starts it is under way; so a run is parked   *)
(* before it is started, and never open when that is heard of.             *)
Quiescent(s, r) == \A k \in 1..Len(s) : s[k].run = r => s[k].type \notin Starters
ParkOrder(s) ==
    \A k \in 1..Len(s) : s[k].type = "queued_in_gui" =>
        /\ ~Open(gw, s[k].run)
        /\ \A j \in 1..k - 1 : s[j].run = s[k].run => s[j].type \notin Starters
Coming(s, r) == \E k \in 1..Len(s) : s[k] = [run |-> r, cancel |-> FALSE]
Early(r) ==
    \/ sort[r] = "unused" \/ watch[r] = "dispatch" \/ Coming(down, r)
    \/ inbox[r] \in {"queued", "claimed"}
Silent(r) ==
    /\ ~Open(gw, r) /\ exec[r] \notin {"started", "streaming"} /\ ledger[r] # "running"
    /\ r \notin starts /\ Quiescent(up, r) /\ Quiescent(chain, r)
(* A command is in one place. *)
Token(r) ==
    /\ sort[r] = "unused" => watch[r] = "off" /\ ~Coming(down, r) /\ inbox[r] = "none"
    /\ watch[r] = "dispatch" => ~Coming(down, r) /\ inbox[r] = "none"
    /\ Coming(down, r) => inbox[r] = "none"
    /\ \A j, k \in 1..Len(down) :
          down[j] = [run |-> r, cancel |-> FALSE] /\ down[k] = down[j] => j = k
OnlyEvents == \A k \in 1..Len(chain) : chain[k].type \in AgentEvents
OpenInv ==
    /\ ChatInv /\ Sole(gw) /\ ParkOrder(up) /\ OnlyEvents
    /\ \A r \in Runs : Token(r) /\ (Early(r) => Silent(r))

-----------------------------------------------------------------------------
(* How often a run's message is shown: Net, of any store. *)
Count(g, kind, r) == Cardinality({i \in DOMAIN g.log : g.log[i] = [kind |-> kind, run |-> r]})
Net(g, r) == Count(g, "user_message", r) - Count(g, "run_queued", r)

(* One: a run's message is shown once if it is marked, and not at all while *)
(* it is deferred, or a draft.  Free: it is not shown without a mark.      *)
(* Clear: nothing deferred will follow the echo.  New: of an unused run.   *)
One(g, r) ==
    /\ Net(g, r) \in 0..1
    /\ g.rec[r].seeded => Net(g, r) = 1 /\ ~g.rec[r].deferred
    /\ g.rec[r].deferred => Net(g, r) = 0
    /\ r \in g.pending => Net(g, r) = 0 /\ ~g.rec[r].seeded /\ ~g.rec[r].deferred
    /\ g.act.run = r /\ g.act.state # "queued" => ~g.rec[r].deferred
Free(g, r) == g.rec[r].seeded \/ Net(g, r) = 0
Clear(g, r) == ~g.rec[r].deferred \/ Remembered(g, r)
New(g, r) ==
    /\ Net(g, r) = 0 /\ ~g.rec[r].seeded /\ ~g.rec[r].deferred
    /\ r \notin g.pending /\ g.act.run # r
(* The messages that show the run's message. *)
EchoTypes == {"user_message", "edit"}

(* The echo is said once: it is to be said, in the chain, or on the wire.   *)
(* Before it goes "started", and as long as that has not come the run may   *)
(* have a deferred message.                                                *)
Echo(m, r) == m.run = r /\ m.type \in EchoTypes
StartOf(m, r) == m.run = r /\ m.type = "started" /\ m.named
NoEcho(s, r) == \A k \in 1..Len(s) : ~Echo(s[k], r)
OneEcho(s, r) == \A j, k \in 1..Len(s) : Echo(s[j], r) /\ Echo(s[k], r) => j = k
HasStart(s, r) == \E k \in 1..Len(s) : StartOf(s[k], r)
Led(s, r) == \A k \in 1..Len(s) : Echo(s[k], r) => \E j \in 1..k - 1 : StartOf(s[j], r)

Unsaid(r) == exec[r] \in {"none", "owned", "started"}
EchoInv(r) ==
    /\ Unsaid(r) => NoEcho(chain, r)
    /\ OneEcho(chain, r) /\ OneEcho(up, r)
    /\ NoEcho(up, r) \/ (~Unsaid(r) /\ NoEcho(chain, r))
Owing(r) == Unsaid(r) \/ ~NoEcho(chain, r) \/ ~NoEcho(up, r)
FirstStart(r) ==
    \/ Clear(gw, r)
    \/ Led(up, r) /\ (exec[r] = "started" \/ ~NoEcho(chain, r) => HasStart(up, r))
(* A run is executed once. *)
OnceInv(r) ==
    /\ Early(r) \/ inbox[r] = "parked" => exec[r] \in {"none", "owned"}
    /\ exec[r] = "owned" => inbox[r] = "claimed"
(* Nothing is said of an unused one. *)
NotOf(s, r) == \A k \in 1..Len(s) : s[k].run # r
UnusedInv(r) ==
    sort[r] = "unused" =>
        /\ New(gw, r) /\ exec[r] = "none" /\ ledger[r] = "none" /\ r \notin unsent
        /\ NotOf(up, r) /\ NotOf(chain, r)
(* Without a fault there is one stream, and no cancel. *)
StillInv ==
    /\ online /\ ~fresh /\ starts = {} /\ ends = {} /\ forcing = {}
    /\ \A r \in Runs : watch[r] # "late"
    /\ \A k \in 1..Len(down) : ~down[k].cancel
(* The record, with the mark, outlives what the desktop still sends. *)
ShownInv(r) == One(gw, r) /\ (Owing(r) => Free(gw, r)) /\ FirstStart(r)
RunInv(r) ==
    /\ PushedOut(gw, r) \/ ShownInv(r)
    /\ EchoInv(r) /\ OnceInv(r) /\ UnusedInv(r)
Calm == faults = 0
CalmInv == Calm => StillInv /\ \A r \in Runs : RunInv(r)

=============================================================================
