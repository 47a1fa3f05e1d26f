-------------------------- MODULE StreamInvariants --------------------------
(***************************************************************************)
(* The inductive invariants behind the safety of StreamSubscription:       *)
(* WaitInv, where the request is that the client waits for; StoryInv, on   *)
(* top of it, what the client, the transcript and the messages under way   *)
(* know of the log.                                                        *)
(* RemoteChatProofs proves them.                                           *)
(***************************************************************************)
EXTENDS StreamSubscription

(* The types of StreamTypeOK, by name. *)
SubType == [ch : Seq(Seqs), state : {"open", "over", "cancelled"}]
ClientType == [here : BOOLEAN, seq : Seqs, epoch : Epochs \cup {0}, synced : BOOLEAN,
               syncing : Tickets, queued : BOOLEAN, retry : BOOLEAN,
               pending : Seq(Seqs), from : Seqs]
ViewType == [seq : Seqs, shown : SUBSET (Epochs \X Seqs), logs : SUBSET Epochs]
PassType == [seq : Seqs, view : ViewType, gap : BOOLEAN]
HandlingType == Answer \X {"none", "replace", "answer"}

-----------------------------------------------------------------------------
(* The invariant behind NeverDeadEnd.  Turn: the request the client waits for*)
(* is in one place: the last of the queue, being handled, or the only answer*)
(* to come.  Lone: a client in sync has no other request under way.  AliveInv:*)
(* a client that is connected has a subscription that goes on, or it will ask*)
(* again.                                                                  *)
Waits == client.syncing # 0
Handling == handling[2] # "none"
Live(sub) == sub.state \in {"open", "over"}
SubLive == \E i \in DOMAIN subs : Live(subs[i])

(* Without a connection nothing is under way. *)
IdleInv == ~connected =>
    /\ subs = <<>> /\ ~Handling /\ reqs = <<>> /\ data = <<>> /\ ~ctrl
    /\ ~client.synced /\ client.syncing = 0 /\ ~client.queued /\ ~client.retry
    /\ client.pending = <<>>
(* A client that left keeps nothing. *)
HereInv == ~client.here => client = Nobody
(* While a subscribe is handled its subscription is the newest one. *)
HandlingInv ==
    /\ Handling => subs # <<>> /\ Live(Last(subs)) /\ handling[1].id # 0
    /\ ~Handling => handling[1].id = 0
(* Behind an unsubscribe there is the request of the client that came back. *)
ReqInv ==
    /\ \A k \in DOMAIN reqs : reqs[k] = Unsubscribe \/ reqs[k].id # 0
    /\ client.here /\ reqs # <<>> => Last(reqs).id # 0
Turn(x, rs, h, ds) ==
    \/ /\ rs # <<>> /\ Last(rs).id = x
       /\ \A k \in 1..Len(rs) - 1 : rs[k].id # x
       /\ h[1].id # x /\ \A k \in DOMAIN ds : ds[k].id # x
    \/ /\ rs = <<>> /\ h[2] # "none" /\ h[1].id = x
       /\ \A k \in DOMAIN ds : ds[k].id # x
    \/ /\ rs = <<>> /\ h[2] = "none"
       /\ \E k \in DOMAIN ds :
             /\ ds[k].id = x /\ \A j \in 1..k - 1 : ds[j].id # x
             /\ \A j \in k + 1..Len(ds) : ds[j].id = 0
TurnInv == Waits => Turn(client.syncing, reqs, handling, data)
Lone(x, rs, h, ds) ==
    /\ \A k \in DOMAIN rs : rs[k].id # 0 /\ rs[k].id = x
    /\ h[2] # "none" => h[1].id = x
    /\ \A k \in DOMAIN ds : ds[k].id \in {0, x}
LoneInv == client.synced => client.here /\ Lone(client.syncing, reqs, handling, data)
AliveInv == connected /\ client.here =>
    \/ ctrl \/ SubLive \/ reqs # <<>>
    \/ Waits /\ client.queued
WaitInv == StreamTypeOK /\ IdleInv /\ HereInv /\ HandlingInv /\ ReqInv /\ TurnInv /\ LoneInv /\ AliveInv

-----------------------------------------------------------------------------
(* The invariant behind NothingMissed, of a client c, a transcript v, a log*)
(* l, the answer being handled h, the data queue ds and the subscriptions ss.*)
(*                                                                         *)
(* Cursor: what a client that is in sync knows.                            *)
Cursor(c, v, l) ==
    /\ c.synced => /\ c.pending = <<>> /\ c.epoch = l.epoch /\ c.seq <= l.last
                   /\ l.epoch \in v.logs
    /\ c.epoch <= l.epoch /\ (c.epoch = 0 => c.seq = 0)
    /\ c.seq <= v.seq
    /\ \A k \in 1..Len(c.pending) : c.pending[k] \in 1..l.last
(* Answers and events are of the log that is: a new one empties the queues. *)
Good(a, l) ==
    /\ a.epoch = l.epoch /\ a.from <= a.latest /\ a.latest <= l.last
    /\ a.whole => a.from <= l.evicted
    /\ a.reset => a.whole
Sound(m, l) == IF m.id = 0 THEN m.latest \in 1..l.last ELSE Good(m, l)
AnswersInv ==
    /\ Handling => Good(handling[1], log)
    /\ \A k \in 1..Len(data) : Sound(data[k], log)
(* A channel holds consecutive events, an open one up to the newest. *)
Chain(ch, last) ==
    \A k \in 1..Len(ch) : ch[k] = ch[1] + k - 1 /\ ch[k] \in 1..last
UpTo(sub, last) ==
    /\ Chain(sub.ch, last)
    /\ sub.state = "open" /\ sub.ch # <<>> => sub.ch[Len(sub.ch)] = last
ChanInv == \A i \in 1..Len(subs) : UpTo(subs[i], log.last)
(* The newest request still carries the cursor of the client. *)
RequestInv == client.syncing # 0 /\ reqs # <<>> =>
    Last(reqs).after <= client.seq /\ Last(reqs).epoch = client.epoch
ShownFrom(v, e, f) == \A s \in f + 1..v.seq : <<e, s>> \in v.shown
(* An awaited answer: its replay starts no later than the cursor, and only an*)
(* answer for the whole window moves where the client begins.              *)
Fits(a, c, v, e) ==
    /\ ~a.whole => a.from <= c.seq /\ a.epoch = c.epoch
    /\ a.reset /\ c.synced => a.latest > 0
    /\ v.logs = {e} => ShownFrom(v, e, a.from)
Due(c, v, h, ds, e) == c.syncing # 0 =>
    /\ h[1].id = c.syncing => Fits(h[1], c, v, e)
    /\ \A k \in 1..Len(ds) : ds[k].id = c.syncing => Fits(ds[k], c, v, e)
(* What the transcript has shown. *)
Viewed(v, l, c) ==
    /\ v.logs \subseteq 1..l.epoch /\ (v.logs = {} => v.seq = 0)
    /\ v.logs = {l.epoch} => v.seq <= l.last /\ ShownFrom(v, l.epoch, l.evicted)
    /\ c.epoch # 0 /\ v.logs \subseteq {c.epoch} => ShownFrom(v, c.epoch, c.from)
(* An empty log was, or is being, told to the client: its cursor cannot tell*)
(* a gap then, and only the order of the events keeps it whole.            *)
ZeroDue(c, h, ds) == c.syncing # 0 /\
    \/ h[1].id = c.syncing /\ h[1].latest = 0
    \/ \E k \in 1..Len(ds) : ds[k].id = c.syncing /\ ds[k].latest = 0
Zero(c, h, ds) == ZeroDue(c, h, ds) \/ (c.synced /\ c.seq = 0)
(* Event n was passed on already, or will be with the awaited answer. *)
Come(n, c, v, h, ds) ==
    IF ZeroDue(c, h, ds) THEN IF c.synced THEN n <= c.seq ELSE c.pending # <<>>
    ELSE n <= v.seq
(* n, or an answer that makes up for it, is in the first messages of ds. *)
Ahead(n, upto, c, h, ds) ==
    \E j \in 1..upto : \/ ds[j].id = 0 /\ ds[j].latest = n
                       \/ ds[j].id # 0 /\ ~ZeroDue(c, h, ds)
(* Before an event there was the one before it, in the queue and in what each*)
(* subscription delivers next.                                             *)
DataOrder(c, v, h, ds) == \A k \in 1..Len(ds) : ds[k].id = 0 /\ ds[k].latest >= 2 =>
    Come(ds[k].latest - 1, c, v, h, ds) \/ Ahead(ds[k].latest - 1, k - 1, c, h, ds)
NextOf(sub, last) == IF sub.ch # <<>> THEN sub.ch[1] ELSE last + 1
SubsOrder(c, v, h, ds, ss, last) == \A i \in 1..Len(ss) :
    (ss[i].state = "open" \/ ss[i].ch # <<>>) /\ NextOf(ss[i], last) >= 2 =>
    \/ Come(NextOf(ss[i], last) - 1, c, v, h, ds)
    \/ Ahead(NextOf(ss[i], last) - 1, Len(ds), c, h, ds)
    \/ ~ZeroDue(c, h, ds) /\ h[2] # "none" /\ i = Len(ss)
Order(c, v, h, ds, ss, last) ==
    Zero(c, h, ds) => DataOrder(c, v, h, ds) /\ SubsOrder(c, v, h, ds, ss, last)
(* What waits for the answer of an empty log begins with its first event. *)
First(c, h, ds) == ZeroDue(c, h, ds) /\ ~c.synced /\ c.pending # <<>> => c.pending[1] = 1
Story(c, v, l, h, ds, ss) ==
    /\ Cursor(c, v, l) /\ Viewed(v, l, c) /\ Due(c, v, h, ds, l.epoch)
    /\ Order(c, v, h, ds, ss, l.last) /\ First(c, h, ds)
StoryInv ==
    /\ AnswersInv /\ ChanInv /\ RequestInv
    /\ Story(client, view, log, handling, data, subs)

=============================================================================
