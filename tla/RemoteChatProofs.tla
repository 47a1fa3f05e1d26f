---------------------------- MODULE RemoteChatProofs ----------------------------
(***************************************************************************)
(* Part one: the runs of a conversation, for every agent: types, one       *)
(* run_finished per run within the ring's memory, no two runs open.  The   *)
(* argument is one lemma per operator of the store (ConversationRuns):     *)
(* each preserves Inv.  Most operators are Quiet: they change neither the  *)
(* activity nor the rings and open no run.                                 *)
(*                                                                         *)
(* Part two: RemoteChat keeps its types, and what it does to the gateway   *)
(* are steps of the store with an arbitrary agent; so what part one proves *)
(* of the store holds of the gateway in RemoteChat.                        *)
(*                                                                         *)
(* Part three: the streams of a conversation (StreamSubscription), whose   *)
(* log is the store's, seen by one browser.  WaitInv says where the request *)
(* is that the client waits for; StoryInv, on top of it, what the client,  *)
(* the transcript and the messages under way know of the log.  One lemma   *)
(* per action and invariant.                                               *)
(*                                                                         *)
(* Part four: OneOpenRun, of the composition.  OpenInv says that a run is  *)
(* early until the front end starts it, and that of an early run nothing   *)
(* is under way that starts it, on the wire, in a chain or in the ledger;  *)
(* so it is parked, if it ever is, before it is started.                   *)
(*                                                                         *)
(* Part five: MessageOnceIfCalm.  CalmInv says that without a fault a run  *)
(* that is not pushed out of the ring is shown as its record says, that    *)
(* its echo is said once, and that nothing of it is deferred by then.      *)
(***************************************************************************)
EXTENDS RemoteChatInvariants, StreamInvariants, SequenceTheorems, FiniteSetTheorems,
        WellFoundedInduction, TLAPS

Quiet(g, h) ==
    /\ h \in StoreType /\ h.act = g.act /\ h.ring = g.ring /\ h.fin = g.fin
    /\ \A r \in Runs : (Open(h, r) => Open(g, r)) /\ (g.rec[r].parked => h.rec[r].parked)

LEMMA QuietKeepsInv ==
    ASSUME NEW g, NEW h, Inv(g), Quiet(g, h)
    PROVE  Inv(h)
BY DEF Inv, Quiet, RingIsTail, Once, IdleHasNoRun, RememberedIsClosed, OpenIsCurrent,
       QueuedIsParked, Remembered

LEMMA QuietTrans ==
    ASSUME NEW g, NEW h, NEW k, Quiet(g, h), Quiet(h, k)
    PROVE  Quiet(g, k)
BY DEF Quiet

(* What an event does to the open runs. *)
LEMMA LogType ==
    ASSUME NEW g \in StoreType, NEW kind \in Kinds, NEW r \in Runs
    PROVE  /\ Log(g, kind, r) \in StoreType
           /\ Log(g, kind, r).log = Append(g.log, [kind |-> kind, run |-> r])
           /\ Log(g, kind, r).act = g.act /\ Log(g, kind, r).ring = g.ring
           /\ Log(g, kind, r).fin = g.fin /\ Log(g, kind, r).rec = g.rec
           /\ Log(g, kind, r).pending = g.pending
<1> DEFINE l == Append(g.log, [kind |-> kind, run |-> r])
<1>1. l \in Seq(EventType)  BY DEF StoreType, EventType
<1>2. Log(g, kind, r) = [g EXCEPT !.log = l]  BY DEF Log
<1> HIDE DEF l
<1>3. QED BY <1>1, <1>2 DEF StoreType, l

LEMMA AppendOpen ==
    ASSUME NEW g \in StoreType, NEW h, NEW kind \in Kinds, NEW q \in Runs, NEW r \in Runs,
           h.log = Append(g.log, [kind |-> kind, run |-> q])
    PROVE  /\ kind = "run_finished" /\ q = r => ~Open(h, r)
           /\ ~(kind = "run_started" /\ q = r) /\ Open(h, r) => Open(g, r)
<1> DEFINE e == [kind |-> kind, run |-> q]
           n == Len(g.log) + 1
<1>1. /\ g.log \in Seq(EventType) /\ Len(g.log) \in Nat /\ DOMAIN g.log = 1..Len(g.log)
      /\ DOMAIN h.log = 1..n /\ h.log[n] = e
      /\ \A i \in DOMAIN g.log : h.log[i] = g.log[i]
  BY DEF StoreType, EventType
<1>2. ASSUME kind = "run_finished", q = r PROVE ~Open(h, r)
  BY <1>1, <1>2 DEF Open
<1>3. ASSUME ~(kind = "run_started" /\ q = r), Open(h, r) PROVE Open(g, r)
  <2>1. PICK i \in DOMAIN h.log :
          /\ h.log[i] = [kind |-> "run_started", run |-> r]
          /\ \A j \in DOMAIN h.log : j > i => h.log[j] # [kind |-> "run_finished", run |-> r]
    BY <1>3 DEF Open
  <2>2. i # n  BY <2>1, <1>1, <1>3
  <2>3. i \in DOMAIN g.log  BY <2>2, <1>1
  <2>4. \A j \in DOMAIN g.log : j \in DOMAIN h.log  BY <1>1
  <2> QED BY <2>1, <2>3, <2>4, <1>1 DEF Open
<1> QED BY <1>2, <1>3

LEMMA LogQuiet ==
    ASSUME NEW g \in StoreType, NEW kind \in Kinds \ {"run_started"}, NEW q \in Runs
    PROVE  Quiet(g, Log(g, kind, q))
<1> DEFINE h == Log(g, kind, q)
<1>1. /\ h \in StoreType /\ h.log = Append(g.log, [kind |-> kind, run |-> q])
      /\ h.act = g.act /\ h.ring = g.ring /\ h.fin = g.fin /\ h.rec = g.rec
  BY LogType
<1> HIDE DEF h
<1>2. ASSUME NEW r \in Runs PROVE Open(h, r) => Open(g, r)
  BY <1>1, AppendOpen
<1>3. Quiet(g, h)  BY <1>1, <1>2 DEF Quiet
<1> QED BY <1>3 DEF h

(* The operators that change only records, or the pending drafts. *)
LEMMA SameLogQuiet ==
    ASSUME NEW g \in StoreType, NEW h \in StoreType,
           h.log = g.log, h.act = g.act, h.ring = g.ring, h.fin = g.fin,
           \A r \in Runs : g.rec[r].parked => h.rec[r].parked
    PROVE  Quiet(g, h)
BY DEF Quiet, Open

LEMMA RecType ==
    ASSUME NEW g \in StoreType, NEW c \in [Runs -> RecordType]
    PROVE  LET h == [g EXCEPT !.rec = c]
           IN  /\ h \in StoreType /\ h.log = g.log /\ h.act = g.act /\ h.ring = g.ring
               /\ h.fin = g.fin /\ h.rec = c /\ h.pending = g.pending
BY DEF StoreType

LEMMA BindQuiet ==
    ASSUME NEW g \in StoreType, NEW r \in Runs
    PROVE  Quiet(g, Bind(g, r)) /\ Bind(g, r).rec[r].bound
<1> DEFINE c == [g.rec EXCEPT ![r] = [@ EXCEPT !.bound = TRUE]]
           h == [g EXCEPT !.rec = c]
<1>0. g.rec \in [Runs -> RecordType]  BY DEF StoreType
<1>1. /\ c \in [Runs -> RecordType] /\ c[r].bound
      /\ \A q \in Runs : g.rec[q].parked => c[q].parked
  BY <1>0 DEF RecordType
<1>2. Bind(g, r) = h  BY DEF Bind
<1> HIDE DEF c
<1>3. /\ h \in StoreType /\ h.log = g.log /\ h.act = g.act /\ h.ring = g.ring
      /\ h.fin = g.fin /\ h.rec = c
  BY <1>1, RecType
<1> HIDE DEF h
<1> QED BY <1>1, <1>2, <1>3, SameLogQuiet

LEMMA SeedQuiet ==
    ASSUME NEW g \in StoreType, NEW r \in Runs, NEW kind \in Kinds \ {"run_started"}
    PROVE  Quiet(g, Seed(g, kind, r))
<1> DEFINE k == Log(g, kind, r)
           n == IF k.rec[r].first = 0 THEN Len(g.log) + 1 ELSE k.rec[r].first
           c == [k.rec EXCEPT ![r] = [@ EXCEPT !.first = n]]
           h == [k EXCEPT !.rec = c]
<1>1. Quiet(g, k) /\ k \in StoreType  BY LogQuiet DEF Quiet
<1>2. Seed(g, kind, r) = h  BY DEF Seed
<1> HIDE DEF k
<1>0. k.rec \in [Runs -> RecordType] /\ Len(g.log) \in Nat  BY <1>1 DEF StoreType
<1>3. c \in [Runs -> RecordType] /\ \A q \in Runs : k.rec[q].parked => c[q].parked
  BY <1>0 DEF RecordType
<1> HIDE DEF c
<1>4. Quiet(k, h)
  <2>1. /\ h \in StoreType /\ h.log = k.log /\ h.act = k.act /\ h.ring = k.ring
        /\ h.fin = k.fin /\ h.rec = c
    BY <1>1, <1>3, RecType
  <2> HIDE DEF h
  <2> QED BY <2>1, <1>1, <1>3, SameLogQuiet
<1> HIDE DEF h
<1> QED BY <1>1, <1>2, <1>4, QuietTrans

LEMMA FlushQuiet ==
    ASSUME NEW g \in StoreType, NEW r \in Runs
    PROVE  Quiet(g, Flush(g, r))
<1> DEFINE k == Seed(g, "user_message", r)
           c == [k.rec EXCEPT ![r] = [@ EXCEPT !.deferred = FALSE, !.seeded = TRUE]]
           h == [k EXCEPT !.rec = c]
<1>1. Quiet(g, k) /\ k \in StoreType  BY SeedQuiet DEF Quiet, Kinds
<1>2. CASE ~g.rec[r].deferred
  BY <1>2, SameLogQuiet DEF Flush
<1>3. CASE g.rec[r].deferred
  <2>1. Flush(g, r) = h  BY <1>3 DEF Flush
  <2> HIDE DEF k
  <2>0. k.rec \in [Runs -> RecordType]  BY <1>1 DEF StoreType
  <2>2. c \in [Runs -> RecordType] /\ \A q \in Runs : k.rec[q].parked => c[q].parked
    BY <2>0 DEF RecordType
  <2> HIDE DEF c
  <2>3. /\ h \in StoreType /\ h.log = k.log /\ h.act = k.act /\ h.ring = k.ring
        /\ h.fin = k.fin /\ h.rec = c
    BY <1>1, <2>2, RecType
  <2> HIDE DEF h
  <2>4. Quiet(k, h)  BY <2>3, <1>1, <2>2, SameLogQuiet
  <2> QED BY <1>1, <2>1, <2>4, QuietTrans
<1> QED BY <1>2, <1>3

LEMMA ActType ==
    ASSUME NEW g \in StoreType,
           NEW a \in [run : Runs \cup {None}, state : States, start : Nat]
    PROVE  LET h == [g EXCEPT !.act = a]
           IN  /\ h \in StoreType /\ h.log = g.log /\ h.act = a /\ h.ring = g.ring
               /\ h.fin = g.fin /\ h.rec = g.rec /\ h.pending = g.pending
BY DEF StoreType

(* markRunQueuedLocked: a run that is open and not current is parked. *)
LEMMA QueueKeepsInv ==
    ASSUME NEW g, Inv(g), NEW r \in Runs
    PROVE  Inv(Queue(g, r)) /\ Queue(g, r).rec = g.rec
<1>1. CASE Remembered(g, r) \/ g.act.run # None
  BY <1>1 DEF Queue
<1>2. CASE ~Remembered(g, r) /\ g.act.run = None
  <2> DEFINE a == [run |-> r, state |-> "queued", start |-> Len(g.log) + 1]
             h == [g EXCEPT !.act = a]
  <2>1. Queue(g, r) = h  BY <1>2 DEF Queue
  <2>2. a \in [run : Runs \cup {None}, state : States, start : Nat]
    BY DEF Inv, StoreType, States
  <2>3. a.run = r /\ a.state = "queued"  OBVIOUS
  <2> HIDE DEF a
  <2>4. /\ h \in StoreType /\ h.log = g.log /\ h.act = a /\ h.ring = g.ring
        /\ h.fin = g.fin /\ h.rec = g.rec
    BY <2>2, ActType DEF Inv
  <2> HIDE DEF h
  <2>5. \A q \in Runs : (Open(h, q) <=> Open(g, q)) /\ (Remembered(h, q) <=> Remembered(g, q))
    BY <2>4 DEF Open, Remembered
  <2>6. \A q \in Runs : Open(h, q) => h.rec[q].parked
    BY <1>2, <2>4, <2>5, NoneAssumption DEF Inv, OpenIsCurrent
  <2>7. RememberedIsClosed(h)
    BY <1>2, <2>3, <2>4, <2>5 DEF Inv, RememberedIsClosed
  <2>8. IdleHasNoRun(h)  BY <2>3, <2>4, NoneAssumption DEF IdleHasNoRun
  <2>9. RingIsTail(h) /\ Once(h)  BY <2>4 DEF Inv, RingIsTail, Once
  <2> QED BY <2>1, <2>4, <2>6, <2>7, <2>8, <2>9 DEF Inv, OpenIsCurrent, QueuedIsParked
<1> QED BY <1>1, <1>2

(* Positions in the ring and in the history, before and after one more run. *)
LEMMA RingShift ==
    ASSUME NEW m \in Nat, NEW n \in Nat, NEW f \in Nat,
           m = IF f < Memory THEN f ELSE Memory,
           n = IF m < Memory THEN m + 1 ELSE Memory,
           NEW k \in 1..(n - 1)
    PROVE  /\ m - n + 1 + k \in 1..m
           /\ f - m + (m - n + 1 + k) = f + 1 - n + k
           /\ f + 1 - n + k \in 1..f
BY MemoryAssumption

LEMMA RingLookup ==
    ASSUME NEW m \in Nat, NEW f \in Nat, m = IF f < Memory THEN f ELSE Memory,
           NEW i \in 1..f, f + 1 - i <= Memory
    PROVE  i - f + m \in 1..m /\ f - m + (i - f + m) = i
BY MemoryAssumption

(* The ring after one more run: the last Memory runs. *)
LEMMA RememberRing ==
    ASSUME NEW ring \in Seq(Runs), NEW r \in Runs, Len(ring) <= Memory
    PROVE  /\ Remember(ring, r) \in Seq(Runs)
           /\ Len(Remember(ring, r)) = IF Len(ring) < Memory THEN Len(ring) + 1 ELSE Memory
           /\ Remember(ring, r)[Len(Remember(ring, r))] = r
           /\ \A k \in 1..(Len(Remember(ring, r)) - 1) :
                Remember(ring, r)[k] = ring[Len(ring) - Len(Remember(ring, r)) + 1 + k]
<1> USE MemoryAssumption
<1>1. CASE Len(ring) < Memory
  BY <1>1 DEF Remember
<1>2. CASE Len(ring) = Memory
  <2>1. /\ Tail(ring) \in Seq(Runs) /\ Len(Tail(ring)) = Memory - 1
        /\ \A k \in 1..(Memory - 1) : Tail(ring)[k] = ring[k + 1]
    BY <1>2
  <2>2. Remember(ring, r) = Append(Tail(ring), r)  BY <1>2 DEF Remember
  <2> QED BY <1>2, <2>1, <2>2
<1>3. Len(ring) < Memory \/ Len(ring) = Memory  OBVIOUS
<1> QED BY <1>1, <1>2, <1>3

(* run_finished: the run that leaves the ring, and loses its record, was   *)
(* closed before.                                                          *)
LEMMA CloseKeepsInv ==
    ASSUME NEW g, Inv(g), NEW r \in Runs
    PROVE  /\ Inv(Close(g, r))
           /\ g.act.run = r => Close(g, r).act = Idle
           /\ g.act.run # r => Close(g, r).act = g.act
           /\ \A q \in Runs \ {r} : Remembered(Close(g, r), q) => Remembered(g, q)
<1> USE MemoryAssumption
<1>0. g \in StoreType  BY DEF Inv
<1>1. CASE Remembered(g, r)
  BY <1>1 DEF Close, Inv, RememberedIsClosed
<1>2. CASE ~Remembered(g, r)
  <2> DEFINE ring == Remember(g.ring, r)
             fin == Append(g.fin, r)
             rec == IF Len(g.ring) < Memory THEN g.rec
                    ELSE [g.rec EXCEPT ![Head(g.ring)] = NoRecord]
             act == IF g.act.run = r THEN Idle ELSE g.act
             told == Append(g.log, [kind |-> "run_finished", run |-> r])
             h == Close(g, r)
  <2>1. /\ g.log \in Seq(EventType) /\ g.ring \in Seq(Runs) /\ g.fin \in Seq(Runs)
        /\ g.rec \in [Runs -> RecordType] /\ g.pending \in SUBSET Runs
        /\ g.act \in [run : Runs \cup {None}, state : States, start : Nat]
        /\ Len(g.ring) \in Nat /\ Len(g.fin) \in Nat /\ Len(g.ring) <= Memory
        /\ DOMAIN g.ring = 1..Len(g.ring) /\ DOMAIN g.fin = 1..Len(g.fin)
        /\ Len(g.ring) = IF Len(g.fin) < Memory THEN Len(g.fin) ELSE Memory
    BY <1>0 DEF StoreType, Inv, RingIsTail
  <2>2. /\ h.log = told /\ h.ring = ring /\ h.fin = fin /\ h.rec = rec /\ h.act = act
        /\ h = [log |-> told, act |-> act, ring |-> ring, fin |-> fin, rec |-> rec,
                pending |-> g.pending]
    BY <1>0, <1>2 DEF Close, Log, StoreType
  <2>3. told \in Seq(EventType)  BY <2>1 DEF EventType, Kinds
  <2>4. act \in [run : Runs \cup {None}, state : States, start : Nat]
    BY <2>1 DEF Idle, States
  <2>5. Len(g.ring) >= Memory => Head(g.ring) \in Runs /\ Remembered(g, Head(g.ring))
    <3> HIDE DEF told, act, rec, ring, fin, h
    <3> SUFFICES ASSUME Len(g.ring) >= Memory
                 PROVE  Head(g.ring) \in Runs /\ Remembered(g, Head(g.ring))
      OBVIOUS
    <3>1. g.ring \in Seq(Runs) /\ g.ring # <<>> /\ 1 \in DOMAIN g.ring  BY <2>1
    <3>2. Head(g.ring) = g.ring[1] /\ g.ring[1] \in Runs  BY <3>1
    <3> QED BY <3>1, <3>2 DEF Remembered
  <2>6. rec \in [Runs -> RecordType]
    BY <2>1, <2>5 DEF NoRecord, RecordType
  <2>7. /\ ring \in Seq(Runs) /\ Len(ring) \in Nat /\ DOMAIN ring = 1..Len(ring)
        /\ Len(ring) = IF Len(g.ring) < Memory THEN Len(g.ring) + 1 ELSE Memory
        /\ ring[Len(ring)] = r
        /\ \A k \in 1..(Len(ring) - 1) : ring[k] = g.ring[Len(g.ring) - Len(ring) + 1 + k]
    <3> HIDE DEF told, act, rec, fin, h
    <3>1. g.ring \in Seq(Runs) /\ Len(g.ring) <= Memory  BY <2>1
    <3>2. /\ ring \in Seq(Runs)
          /\ Len(ring) = IF Len(g.ring) < Memory THEN Len(g.ring) + 1 ELSE Memory
          /\ ring[Len(ring)] = r
          /\ \A k \in 1..(Len(ring) - 1) : ring[k] = g.ring[Len(g.ring) - Len(ring) + 1 + k]
      BY <3>1, RememberRing, Zenon
    <3> HIDE DEF ring
    <3>3. Len(ring) \in Nat /\ DOMAIN ring = 1..Len(ring)  BY <3>2
    <3> QED BY <3>2, <3>3, Zenon
  <2>71. /\ Len(g.ring) \in Nat /\ Len(ring) \in Nat /\ Len(g.fin) \in Nat
         /\ Len(g.ring) = IF Len(g.fin) < Memory THEN Len(g.fin) ELSE Memory
         /\ Len(ring) = IF Len(g.ring) < Memory THEN Len(g.ring) + 1 ELSE Memory
    BY <2>1, <2>7
  <2>8. /\ fin \in Seq(Runs) /\ Len(fin) = Len(g.fin) + 1 /\ fin[Len(fin)] = r
        /\ \A k \in 1..Len(g.fin) : fin[k] = g.fin[k]
    BY <2>1
  <2> HIDE DEF told, act, rec, ring, fin, h
  <2>9. h \in StoreType
    BY <2>1, <2>2, <2>3, <2>4, <2>6, <2>7, <2>8 DEF StoreType
  <2>10. ASSUME NEW q \in Runs
         PROVE  /\ Open(h, q) => Open(g, q) /\ q # r
                /\ Remembered(h, q) => Remembered(g, q) \/ q = r
    <3>1. Open(h, q) => Open(g, q) /\ q # r
      BY <1>0, <2>2, AppendOpen DEF told, Kinds
    <3>2. ASSUME Remembered(h, q), q # r PROVE Remembered(g, q)
      <4>1. PICK k \in DOMAIN ring : ring[k] = q  BY <2>2, <3>2 DEF Remembered
      <4>2. k \in 1..(Len(ring) - 1)  BY <2>7, <3>2, <4>1
      <4>3. Len(g.ring) - Len(ring) + 1 + k \in 1..Len(g.ring)
        BY ONLY <2>71, <4>2, RingShift
      <4>4. Len(g.ring) - Len(ring) + 1 + k \in DOMAIN g.ring  BY <2>1, <4>3
      <4> QED BY <2>7, <4>1, <4>2, <4>4 DEF Remembered
    <3> QED BY <3>1, <3>2
  <2>11. RememberedIsClosed(h)
    <3> SUFFICES ASSUME NEW q \in Runs, Remembered(h, q)
                 PROVE  ~Open(h, q) /\ h.act.run # q
      BY DEF RememberedIsClosed
    <3>1. CASE q = r
      BY <2>2, <2>10, <3>1, NoneAssumption DEF act, Idle
    <3>2. CASE Remembered(g, q)
      BY <2>2, <2>10, <3>2, NoneAssumption DEF act, Idle, Inv, RememberedIsClosed
    <3> QED BY <2>10, <3>1, <3>2
  <2>12. OpenIsCurrent(h)
    <3> SUFFICES ASSUME NEW q \in Runs, Open(h, q)
                 PROVE  h.act.run = q \/ h.rec[q].parked
      BY DEF OpenIsCurrent
    <3>1. Open(g, q) /\ q # r /\ ~Remembered(g, q)
      BY <2>10 DEF Inv, RememberedIsClosed
    <3>2. rec[q] = g.rec[q]  BY <2>1, <2>5, <3>1 DEF rec
    <3> QED BY <2>2, <3>1, <3>2 DEF act, Inv, OpenIsCurrent
  <2>13. QueuedIsParked(h)
    <3> SUFFICES ASSUME h.act.state = "queued", NEW q \in Runs, h.act.run = q, Open(h, q)
                 PROVE  h.rec[q].parked
      BY DEF QueuedIsParked
    <3>1. Open(g, q) /\ q # r /\ ~Remembered(g, q)
      BY <2>10 DEF Inv, RememberedIsClosed
    <3>2. rec[q] = g.rec[q]  BY <2>1, <2>5, <3>1 DEF rec
    <3>3. h.act = g.act  BY <2>2 DEF act, Idle
    <3> QED BY <2>2, <3>1, <3>2, <3>3 DEF Inv, QueuedIsParked
  <2>14. IdleHasNoRun(h)
    BY <2>2 DEF act, Idle, Inv, IdleHasNoRun
  <2>15. RingIsTail(h)
    <3>1. Len(h.ring) = IF Len(h.fin) < Memory THEN Len(h.fin) ELSE Memory
      BY <2>1, <2>2, <2>7, <2>8 DEF Inv, RingIsTail
    <3>2. ASSUME NEW k \in DOMAIN h.ring
          PROVE  h.ring[k] = h.fin[Len(h.fin) - Len(h.ring) + k]
      <4>1. k \in 1..Len(ring)  BY <2>2, <2>7
      <4>2. CASE k = Len(ring)  BY <2>2, <2>7, <2>8, <4>2
      <4>3. CASE k # Len(ring)
        <5>1. k \in 1..(Len(ring) - 1)  BY <2>7, <4>1, <4>3
        <5> DEFINE j == Len(g.ring) - Len(ring) + 1 + k
        <5>2. /\ j \in 1..Len(g.ring)
              /\ Len(g.fin) - Len(g.ring) + j = Len(g.fin) + 1 - Len(ring) + k
              /\ Len(g.fin) + 1 - Len(ring) + k \in 1..Len(g.fin)
          BY ONLY <2>71, <5>1, RingShift
        <5>3. ring[k] = g.ring[j]  BY <2>7, <5>1
        <5>4. g.ring[j] = g.fin[Len(g.fin) - Len(g.ring) + j]
          BY <2>1, <5>2 DEF Inv, RingIsTail
        <5>5. Len(h.fin) - Len(h.ring) + k = Len(g.fin) + 1 - Len(ring) + k
          BY <2>2, <2>8
        <5>6. fin[Len(g.fin) + 1 - Len(ring) + k] = g.fin[Len(g.fin) + 1 - Len(ring) + k]
          BY <2>8, <5>2
        <5> QED BY <2>2, <5>2, <5>3, <5>4, <5>5, <5>6
      <4> QED BY <4>2, <4>3
    <3> QED BY <3>1, <3>2 DEF RingIsTail
  <2>16. Once(h)
    <3> SUFFICES ASSUME NEW i \in DOMAIN fin, NEW j \in DOMAIN fin, i < j, fin[i] = fin[j]
                 PROVE  j - i > Memory
      BY <2>2 DEF Once
    <3>1. i \in 1..Len(g.fin) /\ j \in 1..(Len(g.fin) + 1)  BY <2>1, <2>8
    <3>2. CASE j <= Len(g.fin)
      <4>1. i \in DOMAIN g.fin /\ j \in DOMAIN g.fin /\ g.fin[i] = g.fin[j]
        BY <2>1, <2>8, <3>1, <3>2
      <4> QED BY <4>1 DEF Inv, Once
    <3>3. CASE j = Len(g.fin) + 1
      <4> SUFFICES ASSUME j - i <= Memory PROVE FALSE
        BY <3>1, <2>1
      <4> DEFINE k == i - Len(g.fin) + Len(g.ring)
      <4>1. g.fin[i] = r  BY <2>8, <3>1, <3>3
      <4>2. k \in 1..Len(g.ring) /\ Len(g.fin) - Len(g.ring) + k = i
        <5>1. i \in 1..Len(g.fin) /\ Len(g.fin) + 1 - i <= Memory
          BY <2>1, <2>8, <3>1, <3>3
        <5> QED BY ONLY <2>71, <5>1, RingLookup
      <4>3. k \in DOMAIN g.ring /\ g.ring[k] = r  BY <2>1, <4>1, <4>2 DEF Inv, RingIsTail
      <4> QED BY <1>2, <4>3 DEF Remembered
    <3>4. j <= Len(g.fin) \/ j = Len(g.fin) + 1
      BY ONLY <2>71, <3>1
    <3> QED BY <3>2, <3>3, <3>4
  <2>17. Inv(h)
    BY <2>9, <2>11, <2>12, <2>13, <2>14, <2>15, <2>16 DEF Inv
  <2> QED BY <2>2, <2>10, <2>17 DEF h, act
<1> QED BY <1>1, <1>2

(* After supersession nobody runs, and no other run was forgotten. *)
LEMMA SupersedeKeepsInv ==
    ASSUME NEW g, Inv(g), NEW r \in Runs, g.act.run # r, ~Remembered(g, r)
    PROVE  /\ Inv(Supersede(g)) /\ ~Remembered(Supersede(g), r)
           /\ Supersede(g).act.state \notin {"running", "cancelling"}
           /\ Supersede(g).act.run # r
<1>1. CASE g.act.state \in {"running", "cancelling"}
  <2>1. g.act.run \in Runs
    BY <1>1 DEF Inv, StoreType, IdleHasNoRun
  <2>2. Supersede(g) = Close(g, g.act.run)  BY <1>1 DEF Supersede
  <2>3. /\ Inv(Close(g, g.act.run)) /\ Close(g, g.act.run).act = Idle
        /\ ~Remembered(Close(g, g.act.run), r)
    BY <2>1, CloseKeepsInv
  <2> QED BY <2>2, <2>3, NoneAssumption DEF Idle
<1>2. CASE g.act.state \notin {"running", "cancelling"}
  BY <1>2 DEF Supersede
<1> QED BY <1>1, <1>2

(* LogStart is a quiet step and then the run_started event. *)
LEMMA LogStartFacts ==
    ASSUME NEW g, Inv(g), NEW r \in Runs
    PROVE  LET h == LogStart(g, r)
           IN  /\ h \in StoreType /\ h.act = g.act /\ h.ring = g.ring /\ h.fin = g.fin
               /\ \A q \in Runs :
                    /\ g.rec[q].parked => h.rec[q].parked
                    /\ Open(h, q) => Open(g, q) \/ q = r
<1> DEFINE b == Bind(g, r)
           k == Flush(b, r)
           h == LogStart(g, r)
<1>1. Quiet(g, b)  BY BindQuiet DEF Inv
<1>2. Quiet(b, k)  BY <1>1, FlushQuiet DEF Quiet
<1>3. Quiet(g, k) /\ k \in StoreType
  <2> HIDE DEF b, k
  <2> QED BY <1>1, <1>2, QuietTrans DEF Quiet
<1>4. h = Log(k, "run_started", r)  BY DEF LogStart
<1> HIDE DEF b, k, h
<1>5. /\ h \in StoreType /\ h.log = Append(k.log, [kind |-> "run_started", run |-> r])
      /\ h.act = k.act /\ h.ring = k.ring /\ h.fin = k.fin /\ h.rec = k.rec
  BY <1>3, <1>4, LogType DEF Kinds
<1>6. ASSUME NEW q \in Runs, q # r PROVE Open(h, q) => Open(k, q)
  BY <1>3, <1>5, <1>6, AppendOpen DEF Kinds
<1>7. /\ h \in StoreType /\ h.act = g.act /\ h.ring = g.ring /\ h.fin = g.fin
      /\ \A q \in Runs :
            /\ g.rec[q].parked => h.rec[q].parked
            /\ Open(h, q) => Open(g, q) \/ q = r
  BY <1>3, <1>5, <1>6 DEF Quiet
<1> QED BY <1>7 DEF h

(* The activity is set to a run that was just started. *)
LEMMA StartedKeepsInv ==
    ASSUME NEW g, Inv(g), NEW r \in Runs, ~Remembered(g, r),
           g.act.run = r \/ g.act.state \notin {"running", "cancelling"},
           NEW h \in StoreType, h.act.run = r, h.act.state = "running",
           h.ring = g.ring, h.fin = g.fin,
           \A q \in Runs :
              /\ g.rec[q].parked => h.rec[q].parked
              /\ Open(h, q) => Open(g, q) \/ q = r
    PROVE  Inv(h)
<1>1. RingIsTail(h) /\ Once(h)  BY DEF Inv, RingIsTail, Once
<1>2. IdleHasNoRun(h)  BY NoneAssumption DEF IdleHasNoRun
<1>3. \A q \in Runs : Remembered(h, q) <=> Remembered(g, q)  BY DEF Remembered
<1>4. RememberedIsClosed(h)
  BY <1>3 DEF Inv, RememberedIsClosed
<1>5. OpenIsCurrent(h)
  <2> SUFFICES ASSUME NEW q \in Runs, Open(h, q), q # r PROVE h.rec[q].parked
    BY DEF OpenIsCurrent
  <2>1. Open(g, q)  OBVIOUS
  <2>2. g.act.run = q \/ g.rec[q].parked  BY <2>1 DEF Inv, OpenIsCurrent
  <2>3. CASE g.act.run = q
    <3>1. g.act.state = "queued"
      BY <2>3, NoneAssumption DEF Inv, IdleHasNoRun, StoreType, States
    <3> QED BY <2>1, <2>3, <3>1 DEF Inv, QueuedIsParked
  <2> QED BY <2>2, <2>3
<1>6. QueuedIsParked(h)  BY DEF QueuedIsParked
<1> QED BY <1>1, <1>2, <1>4, <1>5, <1>6 DEF Inv

LEMMA StartKeepsInv ==
    ASSUME NEW g, Inv(g), NEW r \in Runs
    PROVE  Inv(Start(g, r)) /\ (~Remembered(g, r) => ~Remembered(Start(g, r), r))
<1>1. CASE Remembered(g, r)
  BY <1>1 DEF Start
<1>2. CASE ~Remembered(g, r) /\ g.act.run # r
  <2> DEFINE u == Supersede(g)
             k == LogStart(u, r)
             a == [run |-> r, state |-> "running",
                   start |-> IF k.rec[r].first \in 1..Len(k.log)
                             THEN k.rec[r].first ELSE Len(k.log)]
             h == [k EXCEPT !.act = a]
  <2>1. /\ Inv(u) /\ ~Remembered(u, r) /\ u.act.run # r
        /\ u.act.state \notin {"running", "cancelling"}
    BY <1>2, SupersedeKeepsInv
  <2>2. Start(g, r) = h  BY <1>2 DEF Start, Activate
  <2> HIDE DEF u
  <2>3. /\ k \in StoreType /\ k.act = u.act /\ k.ring = u.ring /\ k.fin = u.fin
        /\ \A q \in Runs :
              /\ u.rec[q].parked => k.rec[q].parked
              /\ Open(k, q) => Open(u, q) \/ q = r
    BY <2>1, LogStartFacts
  <2> HIDE DEF k
  <2>4. a \in [run : Runs \cup {None}, state : States, start : Nat]
        /\ a.run = r /\ a.state = "running"
    BY <2>3 DEF StoreType, States
  <2> HIDE DEF a
  <2>5. /\ h \in StoreType /\ h.log = k.log /\ h.act = a /\ h.ring = k.ring
        /\ h.fin = k.fin /\ h.rec = k.rec
    BY <2>3, <2>4, ActType
  <2> HIDE DEF h
  <2>6. \A q \in Runs : Open(h, q) <=> Open(k, q)  BY <2>5 DEF Open
  <2>7. Inv(h)  BY <2>1, <2>3, <2>4, <2>5, <2>6, StartedKeepsInv
  <2>8. ~Remembered(h, r)  BY <2>1, <2>3, <2>5 DEF Remembered
  <2> QED BY <2>2, <2>7, <2>8
<1>3. CASE ~Remembered(g, r) /\ g.act.run = r /\ g.act.state = "queued"
  <2> DEFINE k == LogStart(g, r)
             a == [k.act EXCEPT !.state = "running"]
             h == [k EXCEPT !.act = a]
  <2>2. Start(g, r) = h  BY <1>3 DEF Start
  <2>3. /\ k \in StoreType /\ k.act = g.act /\ k.ring = g.ring /\ k.fin = g.fin
        /\ \A q \in Runs :
              /\ g.rec[q].parked => k.rec[q].parked
              /\ Open(k, q) => Open(g, q) \/ q = r
    BY LogStartFacts
  <2> HIDE DEF k
  <2>4. a \in [run : Runs \cup {None}, state : States, start : Nat]
        /\ a.run = r /\ a.state = "running"
    BY <1>3, <2>3 DEF StoreType, States
  <2> HIDE DEF a
  <2>5. /\ h \in StoreType /\ h.log = k.log /\ h.act = a /\ h.ring = k.ring
        /\ h.fin = k.fin /\ h.rec = k.rec
    BY <2>3, <2>4, ActType
  <2> HIDE DEF h
  <2>6. \A q \in Runs : Open(h, q) <=> Open(k, q)  BY <2>5 DEF Open
  <2>7. Inv(h)  BY <1>3, <2>3, <2>4, <2>5, <2>6, StartedKeepsInv
  <2>8. ~Remembered(h, r)  BY <1>3, <2>3, <2>5 DEF Remembered
  <2> QED BY <2>2, <2>7, <2>8
<1>4. CASE ~Remembered(g, r) /\ g.act.run = r /\ g.act.state # "queued"
  BY <1>4 DEF Start
<1> QED BY <1>1, <1>2, <1>3, <1>4

LEMMA FinishKeepsInv ==
    ASSUME NEW g, Inv(g), NEW r \in Runs
    PROVE  Inv(Finish(g, r))
BY StartKeepsInv, CloseKeepsInv DEF Finish

(* A new record of one run, which is not less parked: quiet. *)
LEMMA RecordQuiet ==
    ASSUME NEW g \in StoreType, NEW r \in Runs, NEW d \in RecordType,
           g.rec[r].parked => d.parked
    PROVE  LET h == [g EXCEPT !.rec[r] = d]
           IN  Quiet(g, h) /\ h.act = g.act /\ h.rec[r] = d
<1> DEFINE c == [g.rec EXCEPT ![r] = d]
           h == [g EXCEPT !.rec[r] = d]
           n == [g EXCEPT !.rec = c]
<1>1. c \in [Runs -> RecordType] /\ c[r] = d /\ \A q \in Runs : g.rec[q].parked => c[q].parked
  BY DEF StoreType
<1>2. h = n  OBVIOUS
<1> HIDE DEF c
<1>3. /\ n \in StoreType /\ n.log = g.log /\ n.act = g.act /\ n.ring = g.ring
      /\ n.fin = g.fin /\ n.rec = c
  BY <1>1, RecType
<1> HIDE DEF n
<1>4. Quiet(g, n) /\ n.act = g.act /\ n.rec[r] = d  BY <1>1, <1>3, SameLogQuiet
<1> HIDE DEF h
<1>5. Quiet(g, h) /\ h.act = g.act /\ h.rec[r] = d  BY <1>2, <1>4
<1> QED BY <1>5 DEF h

(* markRunQueuedInGUILocked: an open run that is parked is not current. *)
LEMMA ParkKeepsInv ==
    ASSUME NEW g, Inv(g), NEW r \in Runs
    PROVE  Inv(Park(g, r))
<1> DEFINE d == [g.rec[r] EXCEPT !.bound = TRUE, !.parked = TRUE,
                                 !.deferred = FALSE, !.seeded = FALSE]
           h == [g EXCEPT !.rec[r] = d]
           k == IF g.rec[r].seeded THEN Log(h, "run_queued", r) ELSE h
<1>1. CASE Remembered(g, r)
  BY <1>1 DEF Park
<1>2. CASE ~Remembered(g, r)
  <2>1. Park(g, r) = IF g.act.run = r THEN [k EXCEPT !.act = Idle] ELSE k
    BY <1>2 DEF Park
  <2>2. d \in RecordType /\ d.parked  BY DEF Inv, StoreType, RecordType
  <2> HIDE DEF d
  <2>3. Quiet(g, h) /\ h.act = g.act /\ h.rec[r] = d  BY <2>2, RecordQuiet DEF Inv
  <2> HIDE DEF h
  <2>4. h \in StoreType /\ Inv(h)  BY <2>3, QuietKeepsInv DEF Quiet
  <2>5. Quiet(h, k) /\ k.act = g.act /\ k.rec[r].parked
    <3>1. CASE g.rec[r].seeded
      <4> DEFINE m == Log(h, "run_queued", r)
      <4>1. Quiet(h, m)  BY <2>4, LogQuiet DEF Kinds
      <4>2. m.act = h.act /\ m.rec = h.rec  BY <2>4, LogType DEF Kinds
      <4> HIDE DEF m
      <4>3. Quiet(h, m) /\ m.act = g.act /\ m.rec[r].parked
        BY <2>2, <2>3, <4>1, <4>2
      <4> QED BY <3>1, <4>3 DEF m
    <3>2. CASE ~g.rec[r].seeded
      <4>1. Quiet(h, h)  BY <2>4, SameLogQuiet
      <4> QED BY <2>2, <2>3, <3>2, <4>1
    <3> QED BY <3>1, <3>2
  <2>6. Inv(k) /\ k \in StoreType  BY <2>4, <2>5, QuietKeepsInv DEF Inv
  <2> HIDE DEF k
  <2>7. CASE g.act.run = r
    <3> DEFINE n == [k EXCEPT !.act = Idle]
    <3>1. Idle \in [run : Runs \cup {None}, state : States, start : Nat]
      BY DEF Idle, States
    <3>2. /\ n \in StoreType /\ n.log = k.log /\ n.act = Idle /\ n.ring = k.ring
          /\ n.fin = k.fin /\ n.rec = k.rec
      BY <2>6, <3>1, ActType
    <3> HIDE DEF n
    <3>3. \A q \in Runs : (Open(n, q) <=> Open(k, q)) /\ (Remembered(n, q) <=> Remembered(k, q))
      BY <3>2 DEF Open, Remembered
    <3>4. RingIsTail(n) /\ Once(n)  BY <2>6, <3>2 DEF Inv, RingIsTail, Once
    <3>5. IdleHasNoRun(n) /\ QueuedIsParked(n)  BY <3>2 DEF Idle, IdleHasNoRun, QueuedIsParked
    <3>6. RememberedIsClosed(n)
      BY <2>6, <3>2, <3>3, NoneAssumption DEF Idle, Inv, RememberedIsClosed
    <3>7. OpenIsCurrent(n)
      BY <2>5, <2>6, <2>7, <3>2, <3>3 DEF Inv, OpenIsCurrent
    <3>8. Inv(n)  BY <3>2, <3>4, <3>5, <3>6, <3>7 DEF Inv
    <3> QED BY <2>1, <2>7, <3>8 DEF n
  <2> QED BY <2>1, <2>6, <2>7
<1> QED BY <1>1, <1>2

LEMMA SeedNowKeepsInv ==
    ASSUME NEW g, Inv(g), NEW r \in Runs
    PROVE  Inv(SeedNow(g, r))
<1> DEFINE b == Bind(g, r)
           q == Queue(b, r)
           k == Seed(q, "user_message", r)
           d == [k.rec[r] EXCEPT !.seeded = TRUE]
<1>1. Inv(b)  BY BindQuiet, QuietKeepsInv DEF Inv
<1> HIDE DEF b
<1>2. Inv(q)  BY <1>1, QueueKeepsInv
<1> HIDE DEF q
<1>3. Inv(k) /\ k \in StoreType  BY <1>2, SeedQuiet, QuietKeepsInv DEF Inv, Kinds
<1>4. SeedNow(g, r) = [k EXCEPT !.rec[r] = d]  BY DEF SeedNow, b, q
<1> HIDE DEF k
<1>5. d \in RecordType /\ (k.rec[r].parked => d.parked)  BY <1>3 DEF StoreType, RecordType
<1> HIDE DEF d
<1> QED BY <1>3, <1>4, <1>5, RecordQuiet, QuietKeepsInv

LEMMA SeedLaterKeepsInv ==
    ASSUME NEW g, Inv(g), NEW r \in Runs
    PROVE  Inv(SeedLater(g, r))
<1> DEFINE k == Bind(g, r)
           d == [k.rec[r] EXCEPT !.deferred = TRUE]
<1>1. Inv(k) /\ k \in StoreType  BY BindQuiet, QuietKeepsInv DEF Inv
<1>2. SeedLater(g, r) = [k EXCEPT !.rec[r] = d]  BY DEF SeedLater
<1> HIDE DEF k
<1>3. d \in RecordType /\ (k.rec[r].parked => d.parked)  BY <1>1 DEF StoreType, RecordType
<1> HIDE DEF d
<1> QED BY <1>1, <1>2, <1>3, RecordQuiet, QuietKeepsInv

LEMMA PendingKeepsInv ==
    ASSUME NEW g, Inv(g), NEW p \in SUBSET Runs
    PROVE  Inv([g EXCEPT !.pending = p])
<1> DEFINE h == [g EXCEPT !.pending = p]
<1>1. /\ h \in StoreType /\ h.log = g.log /\ h.act = g.act /\ h.ring = g.ring
      /\ h.fin = g.fin /\ h.rec = g.rec
  BY DEF Inv, StoreType
<1> HIDE DEF h
<1>2. Inv(h)  BY <1>1, SameLogQuiet, QuietKeepsInv DEF Inv
<1> QED BY <1>2 DEF h

LEMMA ResolveKeepsInv ==
    ASSUME NEW g, Inv(g), NEW r \in Runs
    PROVE  Inv(Resolve(g, r))
<1>1. Inv(Bind(g, r))  BY BindQuiet, QuietKeepsInv DEF Inv
<1>2. Inv([g EXCEPT !.pending = @ \ {r}])
  <2>1. g.pending \ {r} \in SUBSET Runs  BY DEF Inv, StoreType
  <2> QED BY <2>1, PendingKeepsInv
<1> QED BY <1>1, <1>2, SeedNowKeepsInv DEF Resolve

LEMMA AcceptKeepsInv ==
    ASSUME NEW g, Inv(g), NEW r \in Runs, NEW draft \in BOOLEAN
    PROVE  Inv(Accept(g, r, draft))
<1>1. Inv([g EXCEPT !.pending = @ \cup {r}])
  <2>1. g.pending \cup {r} \in SUBSET Runs  BY DEF Inv, StoreType
  <2> QED BY <2>1, PendingKeepsInv
<1> QED BY <1>1, SeedNowKeepsInv, SeedLaterKeepsInv DEF Accept

LEMMA FailCommandKeepsInv ==
    ASSUME NEW g, Inv(g), NEW r \in Runs
    PROVE  Inv(FailCommand(g, r))
<1>1. Inv([g EXCEPT !.pending = @ \ {r}])
  <2>1. g.pending \ {r} \in SUBSET Runs  BY DEF Inv, StoreType
  <2> QED BY <2>1, PendingKeepsInv
<1>2. Inv(Flush(g, r))  BY FlushQuiet, QuietKeepsInv DEF Inv
<1> QED BY <1>1, <1>2, FinishKeepsInv DEF FailCommand

LEMMA ControlKeepsInv ==
    ASSUME NEW g, Inv(g), NEW r \in Runs, NEW type \in Controls
    PROVE  Inv(Control(g, r, type))
<1> DEFINE h == Resolve(g, r)
<1>1. Inv(h)  BY ResolveKeepsInv
<1> HIDE DEF h
<1>2. Inv(Start(h, r)) /\ Inv(Finish(h, r)) /\ Inv(Park(h, r)) /\ Inv(Queue(h, r))
  BY <1>1, StartKeepsInv, FinishKeepsInv, ParkKeepsInv, QueueKeepsInv
<1>3. Control(g, r, type) \in {Start(h, r), Finish(h, r), Park(h, r), Queue(h, r)}
  BY DEF Control, Controls, h
<1> QED BY <1>2, <1>3

LEMMA RebaseKeepsInv ==
    ASSUME NEW g, Inv(g), NEW r \in Runs
    PROVE  Inv(Rebase(g, r))
<1> DEFINE d == [g.rec[r] EXCEPT !.rebased = TRUE]
           k == [g EXCEPT !.rec[r] = d]
<1>1. d \in RecordType /\ (g.rec[r].parked => d.parked)  BY DEF Inv, StoreType, RecordType
<1>2. Rebase(g, r) = IF g.rec[r].rebased THEN g ELSE Seed(k, "rebased", r)  BY DEF Rebase
<1> HIDE DEF d
<1>3. Inv(k)  BY <1>1, RecordQuiet, QuietKeepsInv DEF Inv
<1> HIDE DEF k
<1>4. Inv(Seed(k, "rebased", r))  BY <1>3, SeedQuiet, QuietKeepsInv DEF Inv, Kinds
<1> QED BY <1>2, <1>4

LEMMA StreamKeepsInv ==
    ASSUME NEW g, Inv(g), NEW r \in Runs, NEW kind \in {"user_message", "token"}
    PROVE  Inv(Stream(g, r, kind))
BY LogQuiet, QuietKeepsInv DEF Stream, Inv, Kinds

LEMMA ChatEventKeepsInv ==
    ASSUME NEW g, Inv(g), NEW r \in Runs, NEW type \in AgentEvents
    PROVE  Inv(ChatEvent(g, r, type))
<1> DEFINE h == Resolve(g, r)
           kind == IF type \in {"user_message", "edit"} THEN "user_message" ELSE "token"
           e == IF type = "edit" THEN Rebase(h, r) ELSE h
<1>1. Inv(h)  BY ResolveKeepsInv
<1>2. ChatEvent(g, r, type) \in {Finish(h, r), h, Stream(Start(e, r), r, kind)}
  BY DEF ChatEvent
<1> HIDE DEF h
<1>3. Inv(e)  BY <1>1, RebaseKeepsInv
<1> HIDE DEF e
<1>4. Inv(Stream(Start(e, r), r, kind))  BY <1>3, StartKeepsInv, StreamKeepsInv
<1> QED BY <1>1, <1>2, <1>4, FinishKeepsInv

LEMMA EmptyKeepsInv == Inv(EmptyStore)
<1>1. EmptyStore \in StoreType
  BY DEF EmptyStore, StoreType, Idle, NoRecord, RecordType, States
<1>2. /\ EmptyStore.log = <<>> /\ EmptyStore.ring = <<>> /\ EmptyStore.fin = <<>>
      /\ EmptyStore.act = Idle
  BY DEF EmptyStore
<1> QED BY <1>1, <1>2, MemoryAssumption, NoneAssumption
    DEF Inv, RingIsTail, Once, IdleHasNoRun, RememberedIsClosed, OpenIsCurrent,
        QueuedIsParked, Remembered, Open, Idle

LEMMA ForgetKeepsInv ==
    ASSUME NEW g, Inv(g), g.act.run = None
    PROVE  Inv(Forget(g))
<1> DEFINE h == Forget(g)
           c == [r \in Runs |-> IF Remembered(g, r) THEN NoRecord ELSE g.rec[r]]
<1>1. h \in StoreType
  <2>1. c \in [Runs -> RecordType]
    <3>1. NoRecord \in RecordType  BY DEF NoRecord, RecordType
    <3>2. g.rec \in [Runs -> RecordType]  BY DEF Inv, StoreType
    <3> QED BY <3>1, <3>2
  <2>2. <<>> \in Seq(EventType) /\ <<>> \in Seq(Runs)  OBVIOUS
  <2>3. h = [g EXCEPT !.log = <<>>, !.ring = <<>>, !.fin = <<>>, !.rec = c]
    BY DEF Forget
  <2> HIDE DEF h, c
  <2> QED BY <2>1, <2>2, <2>3 DEF Inv, StoreType
<1>0. h = [g EXCEPT !.log = <<>>, !.ring = <<>>, !.fin = <<>>, !.rec = c]
  BY DEF Forget
<1>2. h.log = <<>> /\ h.ring = <<>> /\ h.fin = <<>> /\ h.act = g.act
  <2> HIDE DEF h, c
  <2> QED BY <1>0 DEF Inv, StoreType
<1> HIDE DEF h
<1>3. IdleHasNoRun(h)  BY <1>2 DEF Inv, IdleHasNoRun
<1>4. Inv(h)
  BY <1>1, <1>2, <1>3, MemoryAssumption
  DEF Inv, RingIsTail, Once, RememberedIsClosed, OpenIsCurrent, QueuedIsParked,
      Remembered, Open
<1> QED BY <1>4 DEF h

LEMMA MarkCancellingKeepsInv ==
    ASSUME NEW g, Inv(g), g.act.run # None
    PROVE  Inv(MarkCancelling(g))
<1> DEFINE a == [g.act EXCEPT !.state = "cancelling"]
           h == [g EXCEPT !.act = a]
<1>1. MarkCancelling(g) = h  BY DEF MarkCancelling
<1>2. /\ a \in [run : Runs \cup {None}, state : States, start : Nat]
      /\ a.run = g.act.run /\ a.state = "cancelling"
  BY DEF Inv, StoreType, States
<1> HIDE DEF a
<1>3. /\ h \in StoreType /\ h.log = g.log /\ h.act = a /\ h.ring = g.ring
      /\ h.fin = g.fin /\ h.rec = g.rec
  BY <1>2, ActType DEF Inv
<1> HIDE DEF h
<1>4. \A q \in Runs : (Open(h, q) <=> Open(g, q)) /\ (Remembered(h, q) <=> Remembered(g, q))
  BY <1>3 DEF Open, Remembered
<1>5. RingIsTail(h) /\ Once(h)  BY <1>3 DEF Inv, RingIsTail, Once
<1>6. IdleHasNoRun(h) /\ QueuedIsParked(h)
  BY <1>2, <1>3 DEF IdleHasNoRun, QueuedIsParked
<1>7. RememberedIsClosed(h) /\ OpenIsCurrent(h)
  BY <1>2, <1>3, <1>4 DEF Inv, RememberedIsClosed, OpenIsCurrent
<1> QED BY <1>1, <1>3, <1>5, <1>6, <1>7 DEF Inv

-----------------------------------------------------------------------------
LEMMA StoreStep ==
    ASSUME Inv(gw), StoreNext
    PROVE  Inv(gw')
<1>1. ASSUME NEW r \in Runs, NEW draft \in BOOLEAN, gw' = Accept(gw, r, draft) PROVE Inv(gw')
  BY <1>1, AcceptKeepsInv
<1>2. ASSUME NEW r \in Runs, gw' = FailCommand(gw, r) PROVE Inv(gw')
  BY <1>2, FailCommandKeepsInv
<1>3. ASSUME NEW r \in Runs, gw' = ForceFinish(gw, r) PROVE Inv(gw')
  BY <1>3, FinishKeepsInv DEF ForceFinish
<1>4. ASSUME NEW r \in Runs, NEW type \in Controls, gw' = Control(gw, r, type) PROVE Inv(gw')
  BY <1>4, ControlKeepsInv
<1>5. ASSUME NEW r \in Runs, NEW type \in AgentEvents, gw' = ChatEvent(gw, r, type)
      PROVE  Inv(gw')
  BY <1>5, ChatEventKeepsInv
<1>6. CASE gw.act.run # None /\ gw' = MarkCancelling(gw)
  BY <1>6, MarkCancellingKeepsInv
<1>7. CASE gw.act.run # None /\ gw' = Finish(gw, gw.act.run)
  <2>1. gw.act.run \in Runs  BY <1>7 DEF Inv, StoreType
  <2> QED BY <1>7, <2>1, FinishKeepsInv
<1>8. CASE gw.act.run = None /\ gw' = Forget(gw)
  BY <1>8, ForgetKeepsInv
<1>9. CASE gw' = EmptyStore
  BY <1>9, EmptyKeepsInv
<1> QED BY <1>1, <1>2, <1>3, <1>4, <1>5, <1>6, <1>7, <1>8, <1>9 DEF StoreNext

LEMMA StoreInvariant == StoreSpec => []Inv(gw)
<1>1. StoreInit => Inv(gw)  BY EmptyKeepsInv DEF StoreInit
<1>2. Inv(gw) /\ [StoreNext]_gw => Inv(gw)'
  <2> SUFFICES ASSUME Inv(gw), [StoreNext]_gw PROVE Inv(gw')
    OBVIOUS
  <2>1. CASE StoreNext  BY <2>1, StoreStep
  <2>2. CASE UNCHANGED gw  BY <2>2
  <2> QED BY <2>1, <2>2
<1> QED BY <1>1, <1>2, PTL DEF StoreSpec

(* Whatever the agent and the clients send, the store keeps its type. *)
THEOREM StoreTypeCorrect == StoreSpec => [](gw \in StoreType)
<1>1. Inv(gw) => gw \in StoreType  BY DEF Inv
<1> QED BY <1>1, StoreInvariant, PTL

(* "run_finished is emitted exactly once per run", within the ring's memory, *)
(* for every agent, number of runs and Memory.                               *)
THEOREM FinishedOnceThm == StoreSpec => []FinishedOnce
<1>1. Inv(gw) => FinishedOnce  BY DEF Inv, Once, FinishedOnce
<1> QED BY <1>1, StoreInvariant, PTL

(* "Run handoff is supersession", for every agent. *)
THEOREM OpenIsActiveThm == StoreSpec => []OpenIsActive
<1>1. Inv(gw) => OpenIsActive  BY DEF Inv, OpenIsCurrent, OpenIsActive
<1> QED BY <1>1, StoreInvariant, PTL

-----------------------------------------------------------------------------

LEMMA ChatInvIsTyped == ChatInv => TypeOK
BY DEF ChatInv, Inv, Rest, Wires, TypeOK

LEMMA FaultType == Rest /\ Fault => faults' \in 0..MaxFaults
<1> SUFFICES ASSUME faults \in 0..MaxFaults, faults < MaxFaults, faults' = faults + 1
             PROVE  faults' \in 0..MaxFaults
  BY DEF Rest, Fault
<1> QED BY BoundsAssumption

(* What the two sides put on the wires. *)
LEMMA MsgType ==
    ASSUME NEW r \in Runs, NEW type \in AgentEvents \cup Controls
    PROVE  Msg(r, type) \in Message /\ [Msg(r, type) EXCEPT !.named = TRUE] \in Message
BY DEF Msg, Message

LEMMA PushType ==
    ASSUME Wires, NEW m \in Message, Push(<<m>>)
    PROVE  up' \in Seq(Message)
BY DEF Push, Wires

LEMMA TellType ==
    ASSUME Wires, NEW r \in Runs, NEW type \in AgentEvents \cup Controls, Tell(r, type)
    PROVE  up' \in Seq(Message)
BY MsgType, PushType DEF Tell, Wires

LEMMA ConcludeType ==
    ASSUME Wires, Rest, NEW r \in Runs, Conclude(r)
    PROVE  /\ up' \in Seq(Message) /\ unsent' \subseteq Runs
           /\ ledger' \in [Runs -> {"none", "running", "ended", "old"}]
<1>1. "terminal" \in AgentEvents \cup Controls  BY DEF Controls
<1>2. up' \in Seq(Message)  BY <1>1, TellType DEF Conclude
<1>3. unsent' \subseteq Runs  BY DEF Conclude, Unsent, Rest
<1>4. ledger' \in [Runs -> {"none", "running", "ended", "old"}]  BY DEF Conclude, Mark, Rest
<1> QED BY <1>2, <1>3, <1>4

-----------------------------------------------------------------------------
(* The steps that leave the store alone. *)
Quietly == UNCHANGED gw /\ Rest' /\ Wires'

LEMMA WatchSteps ==
    ASSUME ChatInv, NEW r \in Runs, CheckStartup(r)
    PROVE  Quietly
<1>1. faults' \in 0..MaxFaults  BY FaultType DEF ChatInv, Rest, CheckStartup
<1> QED BY <1>1 DEF ChatInv, Rest, Wires, CheckStartup, Watch, Quietly, deskVars, netVars

LEMMA NetSteps ==
    ASSUME ChatInv, Disconnect \/ RestartDesktop \/ Reconnect \/ Reconcile
    PROVE  Quietly
<1>1. CASE Disconnect
  <2>1. <<>> \in Seq(Message) /\ <<>> \in Seq(Command)  OBVIOUS
  <2>2. faults' \in 0..MaxFaults  BY <1>1, FaultType DEF ChatInv, Disconnect
  <2> QED BY <1>1, <2>1, <2>2
          DEF ChatInv, Rest, Wires, Disconnect, Cut, Quietly, gateVars, deskVars
<1>0. CASE RestartDesktop
  <2>1. <<>> \in Seq(Message) /\ <<>> \in Seq(Command)  OBVIOUS
  <2>2. faults' \in 0..MaxFaults  BY <1>0, FaultType DEF ChatInv, RestartDesktop
  <2> QED BY <1>0, <2>1, <2>2
          DEF ChatInv, Rest, Wires, RestartDesktop, Cut, Quietly, gateVars
<1>2. CASE Reconnect
  BY <1>2 DEF ChatInv, Rest, Wires, Reconnect, Quietly, gateVars, deskVars
<1>3. CASE Reconcile
  BY <1>3 DEF ChatInv, Rest, Wires, Reconcile, EndsToReplay, Quietly, gateVars, deskVars
<1> QED BY <1>0, <1>1, <1>2, <1>3

LEMMA DeskSteps ==
    ASSUME ChatInv, NEW r \in Runs, Replay(r) \/ Sweep(r) \/ Age(r) \/ FlushEnd(r)
    PROVE  Quietly
<1>1. /\ "started" \in AgentEvents \cup Controls /\ "terminal" \in AgentEvents \cup Controls
  BY DEF Controls
<1>2. CASE Replay(r)
  <2>1. up' \in Seq(Message)  BY <1>1, <1>2, MsgType, PushType DEF Replay, ChatInv
  <2> QED BY <1>2, <2>1 DEF ChatInv, Rest, Wires, Replay, Quietly, gateVars
<1>3. CASE Sweep(r)
  BY <1>3 DEF ChatInv, Rest, Wires, Sweep, Mark, Quietly, netVars, gateVars
<1>4. CASE FlushEnd(r)
  <2>1. up' \in Seq(Message)  BY <1>1, <1>4, MsgType, PushType DEF FlushEnd, ChatInv
  <2> QED BY <1>4, <2>1 DEF ChatInv, Rest, Wires, FlushEnd, Quietly, Lane, gateVars
<1>5. CASE Age(r)
  BY <1>5 DEF ChatInv, Rest, Wires, Age, Quietly, netVars, gateVars
<1> QED BY <1>2, <1>3, <1>4, <1>5

LEMMA ReceiveStep ==
    ASSUME ChatInv, Receive
    PROVE  Quietly
<1> DEFINE c == Head(down)
<1>1. c \in Command /\ down' \in Seq(Command)  BY DEF ChatInv, Wires, Receive
<1>2. c.run \in Runs  BY <1>1 DEF Command
<1>3. /\ "pending" \in AgentEvents \cup Controls /\ "terminal" \in AgentEvents \cup Controls
  BY DEF Controls
<1>4. ReceiveCancel(c.run) \/ ReceiveCommand(c.run)  BY DEF Receive
<1>5. UNCHANGED <<ledger, unsent, chain, online, fresh, starts, ends, gateVars, sort, faults>>
  BY DEF Receive
<1> HIDE DEF c
<1>6. up' \in Seq(Message)
  BY <1>2, <1>3, <1>4, MsgType, PushType DEF ChatInv, ReceiveCancel, ReceiveCommand
<1>7. inbox' \in [Runs -> {"none", "queued", "claimed", "parked", "running"}] /\ exec' = exec
  BY <1>4 DEF ChatInv, Rest, ReceiveCancel, ReceiveCommand, Inbox
<1> QED BY <1>1, <1>5, <1>6, <1>7 DEF ChatInv, Rest, Wires, Quietly, gateVars

LEMMA InboxSteps ==
    ASSUME ChatInv, NEW r \in Runs,
           Claim(r) \/ Release(r) \/ Expire(r) \/ ParkInGUI(r) \/ Reject(r) \/ RemoveParked(r)
           \/ Complete(r)
    PROVE  Quietly
<1>1. \A type \in {"pending", "queued_in_gui"} : Tell(r, type) => up' \in Seq(Message)
  BY TellType DEF ChatInv, Controls
<1>2. Conclude(r) => /\ up' \in Seq(Message) /\ unsent' \subseteq Runs
                     /\ ledger' \in [Runs -> {"none", "running", "ended", "old"}]
  BY ConcludeType DEF ChatInv
<1>3. CASE Claim(r)
  BY <1>1, <1>3 DEF ChatInv, Rest, Wires, Claim, Inbox, Exec, Lane, Quietly, gateVars
<1>4. CASE Release(r)
  BY <1>4 DEF ChatInv, Rest, Wires, Release, Inbox, Exec, netVars, Quietly, gateVars
<1>5. CASE Expire(r)
  BY <1>2, <1>5 DEF ChatInv, Rest, Wires, Expire, Inbox, Lane, Quietly, gateVars
<1>6. CASE ParkInGUI(r)
  BY <1>1, <1>6 DEF ChatInv, Rest, Wires, ParkInGUI, Inbox, Exec, Lane, Quietly, gateVars
<1>7. CASE Reject(r)
  BY <1>2, <1>7 DEF ChatInv, Rest, Wires, Reject, Inbox, Exec, Lane, Quietly, gateVars
<1>8. CASE RemoveParked(r)
  BY <1>2, <1>8 DEF ChatInv, Rest, Wires, RemoveParked, Inbox, Lane, Quietly, gateVars
<1>9. CASE Complete(r)
  BY <1>2, <1>9 DEF ChatInv, Rest, Wires, Complete, Inbox, Exec, Lane, Quietly, gateVars
<1> QED BY <1>3, <1>4, <1>5, <1>6, <1>7, <1>8, <1>9

LEMMA RunSteps ==
    ASSUME ChatInv, NEW r \in Runs, StartRun(r) \/ StartLocal(r) \/ Emit(r)
    PROVE  Quietly
<1>1. "started" \in AgentEvents \cup Controls  BY DEF Controls
<1>2. Conclude(r) => /\ up' \in Seq(Message) /\ unsent' \subseteq Runs
                     /\ ledger' \in [Runs -> {"none", "running", "ended", "old"}]
  BY ConcludeType DEF ChatInv
<1>3. CASE StartRun(r)
  <2>1. MarkStarted(r) => up' \in Seq(Message)
    BY <1>1, MsgType, PushType DEF ChatInv, MarkStarted
  <2>2. CASE online
    <3>1. MarkStarted(r) /\ UNCHANGED <<chain, Lane, gateVars, faults>>
      BY <1>3, <2>2 DEF StartRun
    <3>2. sort' \in [Runs -> {"unused", "web", "draft", "local"}]
      BY <3>1 DEF ChatInv, Rest, MarkStarted
    <3>3. ledger' \in [Runs -> {"none", "running", "ended", "old"}]
      BY <3>1 DEF ChatInv, Rest, MarkStarted, Mark
    <3> QED BY <2>1, <3>1, <3>2, <3>3
            DEF ChatInv, Rest, Wires, MarkStarted, Inbox, Exec, Lane, Quietly, gateVars
  <2>3. CASE ~online
    <3>1. /\ Inbox(r, "none") /\ Exec(r, "over") /\ Conclude(r)
          /\ sort' = [sort EXCEPT ![r] = "web"] /\ UNCHANGED <<chain, Lane, gateVars, faults>>
      BY <1>3, <2>3 DEF StartRun
    <3> QED BY <1>2, <3>1 DEF ChatInv, Rest, Wires, Inbox, Exec, Lane, Quietly, gateVars
  <2> QED BY <2>2, <2>3
<1>4. CASE StartLocal(r)
  <2>1. up' \in Seq(Message)  BY <1>1, <1>4, TellType DEF ChatInv, StartLocal
  <2> QED BY <1>4, <2>1
          DEF ChatInv, Rest, Wires, StartLocal, Mark, Exec, Lane, Quietly, gateVars
<1>5. CASE Emit(r)
  <2>1. Msg(r, "user_message") \in Message /\ Msg(r, "done") \in Message
    BY MsgType DEF AgentEvents
  <2>2. chain' \in Seq(Message)  BY <1>5, <2>1 DEF ChatInv, Wires, Emit
  <2> QED BY <1>5, <2>2
          DEF ChatInv, Rest, Wires, Emit, Exec, netVars, Quietly, gateVars
<1> QED BY <1>3, <1>4, <1>5

LEMMA FrontSteps ==
    ASSUME ChatInv, SendEvent \/ Reload
    PROVE  Quietly
<1>1. CASE SendEvent
  <2> DEFINE m == Head(chain)
  <2>1. m \in Message /\ chain' \in Seq(Message)  BY <1>1 DEF ChatInv, Wires, SendEvent
  <2>2. m.run \in Runs  BY <2>1 DEF Message
  <2>3. IF online THEN Push(<<m>>) ELSE UNCHANGED up  BY <1>1 DEF SendEvent
  <2>4. IF m.type = "done" THEN Mark(m.run, "ended") /\ Unsent(m.run)
                           ELSE Mark(m.run, "running") /\ UNCHANGED unsent
    BY <1>1 DEF SendEvent
  <2> HIDE DEF m
  <2>5. up' \in Seq(Message)  BY <2>1, <2>3, PushType DEF ChatInv, Wires
  <2>6. unsent' \subseteq Runs /\ ledger' \in [Runs -> {"none", "running", "ended", "old"}]
    BY <2>2, <2>4 DEF ChatInv, Rest, Mark, Unsent
  <2> QED BY <1>1, <2>1, <2>5, <2>6
          DEF ChatInv, Rest, Wires, SendEvent, Lane, Quietly, gateVars
<1>2. CASE Reload
  <2>1. chain' = <<>> /\ <<>> \in Seq(Message)  BY <1>2 DEF Reload
  <2>2. faults' \in 0..MaxFaults
    BY <1>2, FaultType DEF ChatInv, Reload
  <2> QED BY <1>2, <2>1, <2>2 DEF ChatInv, Rest, Wires, Reload, netVars, Quietly, gateVars
<1> QED BY <1>1, <1>2

-----------------------------------------------------------------------------
(* The steps of the gateway are steps of the store. *)
Stored == (StoreNext \/ UNCHANGED gw) /\ Rest' /\ Wires'

LEMMA CommandSteps ==
    ASSUME ChatInv, NEW r \in Runs,
           (\E draft \in BOOLEAN : Submit(r, draft)) \/ Dispatch(r) \/ FailStartup(r)
           \/ ForceCancel(r)
    PROVE  Stored
<1>1. CASE \E draft \in BOOLEAN : Submit(r, draft)
  <2>1. PICK draft \in BOOLEAN : Submit(r, draft)  BY <1>1
  <2>2. StoreNext  BY <2>1 DEF Submit, StoreNext
  <2> QED BY <2>1, <2>2 DEF ChatInv, Rest, Wires, Submit, Watch, Stored, deskVars, netVars
<1>2. CASE Dispatch(r)
  <2>1. [run |-> r, cancel |-> FALSE] \in Command  BY DEF Command
  <2>2. down' \in Seq(Command) /\ watch' \in [Runs -> {"off", "dispatch", "wait", "late"}]
    <3>1. down' \in {down, Append(down, [run |-> r, cancel |-> FALSE])}
      BY <1>2 DEF Dispatch
    <3>2. down' \in Seq(Command)  BY <2>1, <3>1 DEF ChatInv, Wires
    <3>3. watch' \in [Runs -> {"off", "dispatch", "wait", "late"}]
      BY <1>2 DEF ChatInv, Rest, Dispatch, Watch
    <3> QED BY <3>2, <3>3
  <2>3. StoreNext \/ UNCHANGED gw  BY <1>2 DEF Dispatch, StoreNext
  <2> QED BY <1>2, <2>2, <2>3 DEF ChatInv, Rest, Wires, Dispatch, Stored, deskVars
<1>3. CASE FailStartup(r)
  <2>1. StoreNext  BY <1>3 DEF FailStartup, StoreNext
  <2> QED BY <1>3, <2>1
          DEF ChatInv, Rest, Wires, FailStartup, Watch, Stored, deskVars, netVars
<1>4. CASE ForceCancel(r)
  <2>1. StoreNext  BY <1>4 DEF ForceCancel, StoreNext
  <2> QED BY <1>4, <2>1 DEF ChatInv, Rest, Wires, ForceCancel, Stored, deskVars, netVars
<1> QED BY <1>1, <1>2, <1>3, <1>4

LEMMA GatewaySteps ==
    ASSUME ChatInv, Cancel \/ LoseRun \/ Deliver \/ RestartGateway
    PROVE  Stored
<1>1. CASE Cancel
  <2>1. gw.act.run \in Runs  BY <1>1 DEF ChatInv, Inv, StoreType, Cancel
  <2>2. [run |-> gw.act.run, cancel |-> TRUE] \in Command  BY <2>1 DEF Command
  <2>3. down' \in Seq(Command)  BY <1>1, <2>2 DEF ChatInv, Wires, Cancel
  <2>4. StoreNext  BY <1>1 DEF Cancel, StoreNext
  <2>5. faults' \in 0..MaxFaults
    BY <1>1, FaultType DEF ChatInv, Cancel
  <2> QED BY <1>1, <2>1, <2>3, <2>4, <2>5 DEF ChatInv, Rest, Wires, Cancel, Stored, deskVars
<1>2. CASE LoseRun
  <2>1. StoreNext  BY <1>2 DEF LoseRun, StoreNext
  <2> QED BY <1>2, <2>1 DEF ChatInv, Rest, Wires, LoseRun, Stored, deskVars, netVars
<1>3. CASE Deliver
  <2> DEFINE m == Head(up)
  <2>1. m \in Message /\ up' \in Seq(Message)  BY <1>3 DEF ChatInv, Wires, Deliver
  <2>2. gw' = Handle(m)  BY <1>3 DEF Deliver
  <2> HIDE DEF m
  <2>3. m.run \in Runs /\ m.type \in AgentEvents \cup Controls  BY <2>1 DEF Message
  <2>4. StoreNext \/ UNCHANGED gw  BY <2>2, <2>3 DEF Handle, StoreNext
  <2> QED BY <1>3, <2>1, <2>4 DEF ChatInv, Rest, Wires, Deliver, Stored, deskVars
<1>4. CASE RestartGateway
  <2>1. StoreNext  BY <1>4 DEF RestartGateway, StoreNext
  <2>2. <<>> \in Seq(Message) /\ <<>> \in Seq(Command)  OBVIOUS
  <2>3. faults' \in 0..MaxFaults
    BY <1>4, FaultType DEF ChatInv, RestartGateway
  <2> QED BY <1>4, <2>1, <2>2, <2>3
          DEF ChatInv, Rest, Wires, RestartGateway, Cut, Stored, deskVars
<1> QED BY <1>1, <1>2, <1>3, <1>4

-----------------------------------------------------------------------------
LEMMA ChatInit == Init => ChatInv /\ StoreInit
<1> SUFFICES ASSUME Init PROVE ChatInv /\ StoreInit
  OBVIOUS
<1>1. Inv(gw)  BY EmptyKeepsInv DEF Init, StoreInit
<1>2. Rest
  <2>1. 0 \in 0..MaxFaults  BY BoundsAssumption
  <2> QED BY <2>1 DEF Init, Rest
<1>3. Wires  BY DEF Init, Wires
<1> QED BY <1>1, <1>2, <1>3 DEF Init, ChatInv

LEMMA ChatStep == ChatInv /\ [Next]_vars => ChatInv' /\ [StoreNext]_gw
<1> SUFFICES ASSUME ChatInv, [Next]_vars PROVE ChatInv' /\ [StoreNext]_gw
  OBVIOUS
<1>1. Stored => ChatInv' /\ [StoreNext]_gw
  BY StoreStep DEF ChatInv, Stored
<1>2. Quietly => Stored  BY DEF Quietly, Stored
<1>3. ASSUME NEW r \in Runs,
             CheckStartup(r) \/ Replay(r) \/ Sweep(r) \/ Age(r) \/ FlushEnd(r) \/ Claim(r)
             \/ Release(r) \/ Expire(r) \/ ParkInGUI(r) \/ Reject(r) \/ RemoveParked(r) \/ Complete(r)
             \/ StartRun(r) \/ StartLocal(r) \/ Emit(r)
      PROVE  Quietly
  BY <1>3, WatchSteps, DeskSteps, InboxSteps, RunSteps
<1>4. Disconnect \/ RestartDesktop \/ Reconnect \/ Reconcile \/ Receive \/ SendEvent \/ Reload
      => Quietly
  BY NetSteps, ReceiveStep, FrontSteps
<1>5. ASSUME NEW r \in Runs,
             (\E draft \in BOOLEAN : Submit(r, draft)) \/ Dispatch(r) \/ FailStartup(r)
             \/ ForceCancel(r)
      PROVE  Stored
  BY <1>5, CommandSteps
<1>6. Cancel \/ LoseRun \/ Deliver \/ RestartGateway => Stored  BY GatewaySteps
<1>7. UNCHANGED vars => Quietly
  BY DEF vars, gateVars, deskVars, netVars, ChatInv, Rest, Wires, Quietly
<1>8. Next => Stored  BY <1>2, <1>3, <1>4, <1>5, <1>6 DEF Next
<1> QED BY <1>1, <1>2, <1>7, <1>8

(* Every variable keeps its type, for any runs, memory and bounds. *)
THEOREM ChatTypeCorrect == Spec => []TypeOK
<1> QED BY ChatInit, ChatStep, ChatInvIsTyped, PTL DEF Spec

(* The gateway of RemoteChat takes only steps of the arbitrary-agent store. *)
THEOREM AnyAgentThm == Spec => AnyAgent
<1> QED BY ChatInit, ChatStep, PTL DEF Spec, AnyAgent, StoreSpec

(* So each run finishes once there too, and an open run is the activity's   *)
(* or was parked.                                                          *)
THEOREM ChatFinishedOnce == Spec => []FinishedOnce /\ []OpenIsActive
<1> QED BY AnyAgentThm, FinishedOnceThm, OpenIsActiveThm, PTL DEF AnyAgent

-----------------------------------------------------------------------------
(* What the operators on sequences return. *)
LEMMA AppendFacts ==
    ASSUME NEW S, NEW s \in Seq(S), NEW e \in S
    PROVE  /\ Append(s, e) \in Seq(S) /\ Append(s, e) # <<>> /\ Len(Append(s, e)) = Len(s) + 1
           /\ DOMAIN Append(s, e) = 1..Len(s) + 1 /\ DOMAIN s = 1..Len(s) /\ Len(s) \in Nat
           /\ \A k \in 1..Len(s) : Append(s, e)[k] = s[k]
           /\ Append(s, e)[Len(s) + 1] = e
           /\ Last(Append(s, e)) = e
BY AppendProperties, LenProperties DEF Last

LEMMA TailFacts ==
    ASSUME NEW S, NEW s \in Seq(S), s # <<>>
    PROVE  /\ Len(s) \in Nat \ {0} /\ DOMAIN s = 1..Len(s) /\ Head(s) = s[1] /\ Head(s) \in S
           /\ Tail(s) \in Seq(S) /\ Len(Tail(s)) = Len(s) - 1
           /\ DOMAIN Tail(s) = 1..Len(s) - 1
           /\ \A k \in 1..Len(s) - 1 : Tail(s)[k] = s[k + 1]
           /\ Tail(s) # <<>> => Len(s) > 1 /\ Last(Tail(s)) = Last(s)
           /\ Tail(s) = <<>> => Len(s) = 1 /\ Last(s) = Head(s)
<1>1. Len(s) \in Nat \ {0} /\ DOMAIN s = 1..Len(s)  BY EmptySeq, LenProperties
<1>2. Head(s) = s[1]  OBVIOUS
<1>3. /\ Tail(s) \in Seq(S) /\ Len(Tail(s)) = Len(s) - 1 /\ Head(s) \in S
      /\ \A k \in 1..Len(Tail(s)) : Tail(s)[k] = s[k + 1]
  BY HeadTailProperties
<1>4. DOMAIN Tail(s) = 1..Len(s) - 1  BY <1>3, LenProperties
<1>5. Tail(s) # <<>> => Len(Tail(s)) \in Nat \ {0}  BY <1>3, EmptySeq
<1>6. Tail(s) = <<>> => Len(Tail(s)) = 0  BY EmptySeq
<1> QED BY <1>1, <1>2, <1>3, <1>4, <1>5, <1>6 DEF Last

LEMMA TailPart ==
    ASSUME NEW S, NEW s \in Seq(S), s # <<>>
    PROVE  /\ Tail(s) \in Seq(S) /\ DOMAIN Tail(s) = 1..Len(Tail(s))
           /\ Len(Tail(s)) <= Len(s) /\ Len(Tail(s)) \in Nat /\ Len(s) \in Nat
           /\ DOMAIN s = 1..Len(s)
           /\ \A k \in DOMAIN Tail(s) : \E j \in DOMAIN s : Tail(s)[k] = s[j]
<1>1. /\ Len(s) \in Nat \ {0} /\ DOMAIN s = 1..Len(s) /\ Tail(s) \in Seq(S)
      /\ Len(Tail(s)) = Len(s) - 1 /\ DOMAIN Tail(s) = 1..Len(s) - 1
      /\ \A k \in 1..Len(s) - 1 : Tail(s)[k] = s[k + 1]
  BY TailFacts
<1>2. ASSUME NEW k \in DOMAIN Tail(s) PROVE \E j \in DOMAIN s : Tail(s)[k] = s[j]
  <2>1. k \in 1..Len(s) - 1 /\ k + 1 \in 1..Len(s)  BY <1>1
  <2> QED BY <1>1, <2>1
<1> QED BY <1>1, <1>2

LEMMA SeqFacts ==
    ASSUME NEW S, NEW s \in Seq(S)
    PROVE  /\ Len(s) \in Nat /\ DOMAIN s = 1..Len(s) /\ \A k \in 1..Len(s) : s[k] \in S
           /\ s # <<>> <=> Len(s) # 0
           /\ s # <<>> => Len(s) \in 1..Len(s) /\ Last(s) = s[Len(s)] /\ Head(s) = s[1]
BY LenProperties, EmptySeq DEF Last

LEMMA MapFacts ==
    ASSUME NEW S, NEW n \in Nat, NEW f \in [1..n -> S]
    PROVE  f \in Seq(S) /\ Len(f) = n /\ DOMAIN f = 1..n /\ (f # <<>> <=> n # 0)
<1>1. f \in Seq(S)  OBVIOUS
<1>2. Len(f) = n  BY <1>1, LenProperties
<1> QED BY <1>1, <1>2, SeqFacts

LEMMA FrontFacts ==
    ASSUME NEW S, NEW s \in Seq(S), s # <<>>
    PROVE  /\ Front(s) \in Seq(S) /\ Len(Front(s)) = Len(s) - 1
           /\ \A k \in 1..Len(s) - 1 : Front(s)[k] = s[k]
<1>1. Len(s) \in Nat \ {0} /\ DOMAIN s = 1..Len(s) /\ \A k \in 1..Len(s) : s[k] \in S  BY EmptySeq, LenProperties
<1> DEFINE n == Len(s) - 1
<1>2. n \in Nat /\ n \in Int /\ 1 \in Int /\ \A i \in 1..n : s[i] \in S  BY <1>1
<1> HIDE DEF n
<1>3. /\ SubSeq(s, 1, n) \in Seq(S) /\ Len(SubSeq(s, 1, n)) = IF 1 <= n THEN n - 1 + 1 ELSE 0
      /\ \A i \in 1..n - 1 + 1 : SubSeq(s, 1, n)[i] = s[1 + i - 1]
  BY <1>2, SubSeqProperties
<1>4. Front(s) = SubSeq(s, 1, n)  BY DEF Front, n
<1> QED BY <1>1, <1>2, <1>3, <1>4 DEF n

LEMMA RemoveFacts ==
    ASSUME NEW S, NEW s \in Seq(S), NEW i \in 1..Len(s)
    PROVE  /\ RemoveAt(s, i) \in Seq(S) /\ Len(RemoveAt(s, i)) = Len(s) - 1
           /\ \A k \in 1..Len(s) - 1 : RemoveAt(s, i)[k] = IF k < i THEN s[k] ELSE s[k + 1]
<1>1. Len(s) \in Nat /\ i \in Nat /\ 1 <= i /\ i <= Len(s) /\ \A k \in 1..Len(s) : s[k] \in S  BY LenProperties
<1> DEFINE a == SubSeq(s, 1, i - 1)
           b == SubSeq(s, i + 1, Len(s))
<1>2. /\ a \in Seq(S) /\ Len(a) = i - 1
      /\ \A k \in 1..i - 1 : a[k] = s[k]
  <2>1. \A k \in 1..i - 1 : s[k] \in S  BY <1>1
  <2>2. /\ a \in Seq(S) /\ Len(a) = IF 1 <= i - 1 THEN i - 1 - 1 + 1 ELSE 0
        /\ \A k \in 1..i - 1 - 1 + 1 : a[k] = s[1 + k - 1]
    BY <2>1, <1>1, SubSeqProperties
  <2> QED BY <1>1, <2>2
<1>3. /\ b \in Seq(S) /\ Len(b) = Len(s) - i
      /\ \A k \in 1..Len(s) - i : b[k] = s[k + i]
  <2>1. \A k \in i + 1..Len(s) : s[k] \in S  BY <1>1
  <2>2. /\ b \in Seq(S) /\ Len(b) = IF i + 1 <= Len(s) THEN Len(s) - (i + 1) + 1 ELSE 0
        /\ \A k \in 1..Len(s) - (i + 1) + 1 : b[k] = s[i + 1 + k - 1]
    BY <2>1, <1>1, SubSeqProperties
  <2> QED BY <1>1, <2>2
<1> DEFINE r == a \o b
<1> HIDE DEF a, b
<1>4. /\ r \in Seq(S) /\ Len(r) = Len(a) + Len(b)
      /\ \A k \in 1..Len(a) + Len(b) : r[k] = IF k <= Len(a) THEN a[k] ELSE b[k - Len(a)]
  BY <1>2, <1>3, ConcatProperties
<1>5. RemoveAt(s, i) = r  BY DEF RemoveAt, a, b
<1> HIDE DEF r
<1>6. \A k \in 1..Len(s) - 1 : r[k] = IF k < i THEN s[k] ELSE s[k + 1]
  <2> TAKE k \in 1..Len(s) - 1
  <2>0. k \in 1..Len(a) + Len(b)  BY <1>1, <1>2, <1>3
  <2>1. CASE k < i
    <3>1. k <= Len(a) /\ k \in 1..i - 1  BY <2>1, <1>1, <1>2
    <3> QED BY <3>1, <2>0, <2>1, <1>2, <1>4
  <2>2. CASE ~(k < i)
    <3>1. /\ ~(k <= Len(a)) /\ k - Len(a) \in 1..Len(s) - i /\ k - Len(a) + i = k + 1
      BY <2>2, <1>1, <1>2
    <3>2. r[k] = b[k - Len(a)]  BY <3>1, <2>0, <1>4
    <3>3. b[k - Len(a)] = s[k + 1]  BY <3>1, <1>3
    <3> QED BY <2>2, <3>2, <3>3
  <2> QED BY <2>1, <2>2
<1>7. Len(r) = Len(s) - 1  BY <1>1, <1>2, <1>3, <1>4
<1> QED BY <1>4, <1>5, <1>6, <1>7, Zenon

(* Induction over the numbers, from the well-founded order on finite sets. *)
LEMMA NatMin == ASSUME NEW T \in SUBSET Nat, T # {} PROVE \E x \in T : \A y \in T : x <= y
<1>1. PICK t \in T : TRUE OBVIOUS
<1> DEFINE S == 0..t
           U == {A \in SUBSET S : \E x \in T : x <= t /\ A = 0..x}
<1>2. IsFiniteSet(S) BY <1>1, FS_Interval
<1>3. IsWellFoundedOn(StrictSubsetOrdering(S), SUBSET S)
  BY <1>2, FS_StrictSubsetOrderingWellFounded, FS_FiniteSubsetsOfFinite
<1>4. 0..t \in U BY <1>1
<1>5. U \subseteq SUBSET S /\ U # {} BY <1>4
<1> HIDE DEF U
<1>6. PICK A \in U : \A B \in U : ~ (<<B, A>> \in StrictSubsetOrdering(S))
  BY <1>3, <1>5, WFMin
<1>7. PICK x \in T : x <= t /\ A = 0..x BY <1>6 DEF U
<1>8. ASSUME NEW y \in T, y < x PROVE FALSE
  <2>1. 0..y \in U BY <1>7, <1>8 DEF U
  <2>2. <<0..y, A>> \in StrictSubsetOrdering(S)
    <3>1. 0..y \subseteq A /\ A \subseteq S /\ x \in A /\ x \notin 0..y BY <1>7, <1>8
    <3> QED BY <3>1 DEF StrictSubsetOrdering
  <2> QED BY <2>1, <2>2, <1>6
<1> QED BY <1>8

LEMMA NatInduct ==
    ASSUME NEW M, 0 \in M, \A n \in Nat : n \in M => n + 1 \in M
    PROVE  \A n \in Nat : n \in M
<1> SUFFICES ASSUME Nat \ M # {} PROVE FALSE  OBVIOUS
<1>1. PICK x \in Nat \ M : \A y \in Nat \ M : x <= y  BY NatMin
<1>2. x # 0 /\ x - 1 \in Nat /\ x - 1 + 1 = x  BY <1>1
<1>3. x - 1 \in M  BY <1>1, <1>2
<1> QED BY <1>1, <1>2, <1>3

(* Induction along the events that waited: what holds of the start, and    *)
(* what each deliver keeps, holds of the result.                           *)
LEMMA DrainedRule ==
    ASSUME NEW d, NEW events, Len(events) \in Nat, NEW I, <<0, d>> \in I,
           \A n \in 0..Len(events) - 1 : \A e :
                <<n, e>> \in I => <<n + 1, DeliverEvent(e, events[n + 1])>> \in I
    PROVE  <<Len(events), Drained(d, events)>> \in I
<1> DEFINE D(f, m) == f = [n \in 0..m |-> IF n = 0 THEN d ELSE DeliverEvent(f[n - 1], events[n])]
           M == {m \in Nat : \E f : D(f, m)}
<1>1. 0 \in M
  <2> DEFINE f == [n \in 0..0 |-> d]
  <2>1. D(f, 0)  OBVIOUS
  <2> QED BY <2>1
<1>2. ASSUME NEW m \in Nat, m \in M PROVE m + 1 \in M
  <2>1. PICK f : D(f, m)  BY <1>2
  <2> DEFINE e == DeliverEvent(f[m], events[m + 1])
             g == [n \in 0..m + 1 |-> IF n = m + 1 THEN e ELSE f[n]]
             h == [n \in 0..m + 1 |-> IF n = 0 THEN d ELSE DeliverEvent(g[n - 1], events[n])]
  <2>2. ASSUME NEW n \in 0..m + 1 PROVE g[n] = h[n]
    <3>1. CASE n = 0
      <4>1. f[0] = d  BY <2>1
      <4>2. g[n] = f[0]  BY <3>1
      <4>3. h[n] = d  BY <3>1
      <4> QED BY <4>1, <4>2, <4>3
    <3>2. CASE n # 0
      <4>1. n - 1 \in 0..m /\ n - 1 \in 0..m + 1 /\ n - 1 # m + 1  BY <3>2
      <4> HIDE DEF e
      <4>2. g[n - 1] = f[n - 1]  BY <4>1
      <4>3. h[n] = DeliverEvent(f[n - 1], events[n])
        <5> HIDE DEF g
        <5>1. h[n] = DeliverEvent(g[n - 1], events[n])  BY <3>2
        <5> HIDE DEF h
        <5> QED BY <5>1, <4>2
      <4>4. CASE n = m + 1
        <5>1. g[n] = e  BY <4>4
        <5>2. n - 1 = m  BY <4>4
        <5> HIDE DEF g, h
        <5> QED BY <4>3, <4>4, <5>1, <5>2 DEF e
      <4>5. CASE n # m + 1
        <5>1. n \in 0..m  BY <4>5
        <5>2. g[n] = f[n]  BY <4>5
        <5>3. f[n] = DeliverEvent(f[n - 1], events[n])  BY <2>1, <3>2, <5>1
        <5> HIDE DEF g, h
        <5> QED BY <4>3, <5>2, <5>3
      <4> QED BY <4>4, <4>5
    <3> QED BY <3>1, <3>2
  <2>3. g = h
    <3> HIDE DEF e
    <3>1. g = [n \in 0..m + 1 |-> g[n]] /\ h = [n \in 0..m + 1 |-> h[n]]  OBVIOUS
    <3> HIDE DEF g, h
    <3> QED BY <2>2, <3>1
  <2>4. D(g, m + 1)
    <3>1. g = h  BY <2>3
    <3> HIDE DEF g
    <3> QED BY <3>1
  <2> HIDE DEF D
  <2>5. \E x : D(x, m + 1)
    <3> HIDE DEF g
    <3> QED BY <2>4
  <2> QED BY <2>5
<1> DEFINE L == Len(events)
           a == CHOOSE f : D(f, L)
<1>3. D(a, L)
  <2>1. \A n \in Nat : n \in M
    <3> HIDE DEF M
    <3> QED BY <1>1, <1>2, NatInduct
  <2>2. \E f : D(f, L)
    <3> HIDE DEF D
    <3> QED BY <2>1
  <2> HIDE DEF D
  <2> QED BY <2>2
<1>4. Drained(d, events) = a[L]  BY DEF Drained
<1> DEFINE K == {n \in Nat : n <= L => <<n, a[n]>> \in I}
<1> HIDE DEF a
<1>5. a[0] = d /\ \A n \in 1..L : a[n] = DeliverEvent(a[n - 1], events[n])  BY <1>3
<1> HIDE DEF D
<1>6. 0 \in K  BY <1>5
<1>7. ASSUME NEW n \in Nat, n \in K PROVE n + 1 \in K
  <2> SUFFICES ASSUME n + 1 <= L PROVE <<n + 1, a[n + 1]>> \in I  OBVIOUS
  <2>1. n \in 0..L - 1 /\ n + 1 \in 1..L /\ n + 1 - 1 = n  OBVIOUS
  <2>2. <<n, a[n]>> \in I  BY <1>7
  <2>3. <<n + 1, DeliverEvent(a[n], events[n + 1])>> \in I  BY <2>1, <2>2
  <2>4. a[n + 1] = DeliverEvent(a[n], events[n + 1])  BY <1>5, <2>1
  <2> QED BY <2>3, <2>4
<1>8. L \in K
  <2> HIDE DEF K
  <2> QED BY <1>6, <1>7, NatInduct
<1> QED BY <1>4, <1>8
-----------------------------------------------------------------------------
-----------------------------------------------------------------------------
LEMMA Bounds ==
    /\ Buffer \in Nat /\ Outbox \in Nat /\ Pending \in Nat /\ MaxSeq \in Nat
    /\ MaxEpochs \in Nat /\ MaxSubs \in Nat /\ MaxBreaks \in Nat
    /\ Buffer > 0 /\ Outbox > 0 /\ Pending > 0 /\ MaxEpochs > 0
    /\ 0 \in Seqs /\ 0 \in Tickets /\ Seqs \subseteq Nat /\ Epochs \subseteq Nat /\ Tickets \subseteq Nat
BY StreamAssumption DEF Seqs, Epochs, Tickets

LEMMA TypeFacts ==
    ASSUME StreamTypeOK
    PROVE  /\ log \in [epoch : Epochs, last : Seqs, evicted : Seqs]
           /\ log.epoch \in Epochs /\ log.last \in Seqs /\ log.evicted \in Seqs
           /\ subs \in Seq(SubType) /\ handling \in HandlingType
           /\ handling[1] \in Answer /\ handling[2] \in {"none", "replace", "answer"}
           /\ handling = <<handling[1], handling[2]>>
           /\ reqs \in Seq(Request) /\ data \in Seq(Answer)
           /\ client \in ClientType /\ view \in ViewType
           /\ breaks \in 0..MaxBreaks
BY DEF StreamTypeOK, SubType, HandlingType, ClientType, ViewType

LEMMA Literals ==
    ASSUME log \in [epoch : Epochs, last : Seqs, evicted : Seqs]
    PROVE  /\ Unsubscribe \in Request /\ NoAnswer \in Answer /\ NoAnswer.id = 0
           /\ Nobody \in ClientType /\ Newcomer \in ClientType /\ NewView \in ViewType
           /\ \A s \in Seqs : Event(s) \in Answer /\ IsEvent(Event(s))
           /\ <<NoAnswer, "none">> \in HandlingType
<1>1. 1 \in Epochs /\ log.epoch \in Epochs  BY Bounds DEF Epochs
<1>2. \A s \in Seqs : Event(s) \in Answer /\ IsEvent(Event(s))
  BY <1>1, Bounds DEF Event, Answer, IsEvent
<1>3. NoAnswer \in Answer /\ NoAnswer.id = 0
  BY <1>1, Bounds DEF NoAnswer, Event, Answer
<1>4. Unsubscribe \in Request  BY Bounds DEF Unsubscribe, Request
<1>5. Nobody \in ClientType  BY Bounds DEF Nobody, ClientType
<1>6. Newcomer \in ClientType  BY <1>5 DEF Newcomer, ClientType
<1>7. NewView \in ViewType  BY Bounds DEF NewView, ViewType
<1> QED BY <1>2, <1>3, <1>4, <1>5, <1>6, <1>7 DEF HandlingType

(* Sync *)
LEMMA SyncFacts ==
    ASSUME NEW c \in ClientType, reqs \in Seq(Request), Sync(c)
    PROVE  /\ client' \in ClientType /\ reqs' \in Seq(Request)
           /\ client'.here = c.here /\ client'.seq = c.seq /\ client'.epoch = c.epoch
           /\ client'.synced = c.synced /\ client'.pending = c.pending /\ client'.from = c.from
           /\ client'.syncing # 0
           /\ \/ /\ c.syncing # 0 /\ client'.syncing = c.syncing
                 /\ client'.queued /\ reqs' = reqs
              \/ /\ c.syncing = 0 /\ client'.syncing \notin Used
                 /\ ~client'.queued /\ ~client'.retry
                 /\ reqs' = Append(reqs, [id |-> client'.syncing, after |-> c.seq, epoch |-> c.epoch])
                 /\ [id |-> client'.syncing, after |-> c.seq, epoch |-> c.epoch] \in Request
<1>1. CASE c.syncing # 0
  <2>1. client' = [c EXCEPT !.queued = TRUE] /\ reqs' = reqs  BY <1>1 DEF Sync, QueueSync
  <2> QED BY <1>1, <2>1 DEF ClientType
<1>2. CASE c.syncing = 0
  <2>1. PICK t \in Fresh :
          /\ client' = [c EXCEPT !.syncing = t, !.retry = FALSE, !.queued = FALSE]
          /\ reqs' = Append(reqs, [id |-> t, after |-> c.seq, epoch |-> c.epoch])
    BY <1>2 DEF Sync
  <2>2. t \in Tickets /\ t \notin Used /\ t # 0  BY DEF Fresh, Used
  <2>3. /\ client'.here = c.here /\ client'.seq = c.seq /\ client'.epoch = c.epoch
        /\ client'.synced = c.synced /\ client'.pending = c.pending /\ client'.from = c.from
        /\ client'.syncing = t /\ ~client'.queued /\ ~client'.retry /\ client' \in ClientType
    BY <2>1, <2>2 DEF ClientType
  <2>4. [id |-> t, after |-> c.seq, epoch |-> c.epoch] \in Request
    BY <2>2 DEF ClientType, Request
  <2>5. reqs' \in Seq(Request)  BY <2>1, <2>4, AppendFacts
  <2> QED BY <1>2, <2>1, <2>2, <2>3, <2>4, <2>5
<1> QED BY <1>1, <1>2

(* deliver keeps its type. *)
LEMMA ShowType ==
    ASSUME log \in [epoch : Epochs, last : Seqs, evicted : Seqs], NEW v \in ViewType, NEW s \in Seqs
    PROVE  Show(v, s) \in ViewType
<1>1. log.epoch \in Epochs  OBVIOUS
<1>2. CASE s <= v.seq  BY <1>2 DEF Show
<1>3. CASE ~(s <= v.seq)
  <2>1. v.shown \cup {<<log.epoch, s>>} \in SUBSET (Epochs \X Seqs)  BY <1>1 DEF ViewType
  <2>2. Show(v, s) = [v EXCEPT !.seq = s, !.shown = v.shown \cup {<<log.epoch, s>>}]  BY <1>3 DEF Show
  <2> QED BY <2>1, <2>2 DEF ViewType
<1> QED BY <1>2, <1>3

LEMMA DeliverType ==
    ASSUME log \in [epoch : Epochs, last : Seqs, evicted : Seqs], NEW d \in PassType, NEW s \in Seqs
    PROVE  DeliverEvent(d, s) \in PassType
<1>1. Show(d.view, s) \in ViewType  BY ShowType DEF PassType
<1> QED BY <1>1 DEF DeliverEvent, PassType

LEMMA DrainedType ==
    ASSUME log \in [epoch : Epochs, last : Seqs, evicted : Seqs], NEW d \in PassType,
           NEW events \in Seq(Seqs)
    PROVE  Drained(d, events) \in PassType
<1> DEFINE I == Nat \X PassType
<1>1. Len(events) \in Nat /\ \A n \in 1..Len(events) : events[n] \in Seqs  BY SeqFacts
<1>2. <<0, d>> \in I  OBVIOUS
<1>3. ASSUME NEW n \in 0..Len(events) - 1, NEW e, <<n, e>> \in I
      PROVE <<n + 1, DeliverEvent(e, events[n + 1])>> \in I
  <2>1. n + 1 \in 1..Len(events) /\ n + 1 \in Nat /\ e \in PassType  BY <1>1, <1>3
  <2>2. DeliverEvent(e, events[n + 1]) \in PassType  BY <1>1, <2>1, DeliverType
  <2> QED BY <2>1, <2>2
<1>4. <<Len(events), Drained(d, events)>> \in I
  <2> HIDE DEF I
  <2> QED BY <1>1, <1>2, <1>3, DrainedRule
<1> QED BY <1>4

LEMMA ApplyType ==
    ASSUME NEW a \in Answer, view \in ViewType
    PROVE  ApplySync(a) \in ViewType
<1> DEFINE base == IF a.reset \/ view.seq = 0 THEN NewView ELSE view
           more == {<<a.epoch, s>> : s \in Larger(base.seq, a.from) + 1..a.latest}
<1>1. a.epoch \in Epochs /\ a.from \in Seqs /\ a.latest \in Seqs  BY DEF Answer
<1>2. base \in ViewType  BY Bounds DEF NewView, ViewType
<1> HIDE DEF base
<1>3. base.seq \in Seqs /\ base.shown \subseteq Epochs \X Seqs /\ base.logs \subseteq Epochs
  BY <1>2 DEF ViewType
<1>4. Larger(base.seq, a.latest) \in Seqs  BY <1>1, <1>3 DEF Larger
<1>5. more \subseteq Epochs \X Seqs
  <2>1. Larger(base.seq, a.from) \in Nat  BY <1>1, <1>3, Bounds DEF Larger
  <2>2. \A s \in Larger(base.seq, a.from) + 1..a.latest : s \in Seqs
    BY <1>1, <2>1, Bounds DEF Seqs
  <2> QED BY <1>1, <2>2
<1> HIDE DEF more
<1>6. ApplySync(a) = [logs |-> base.logs \cup {a.epoch}, seq |-> Larger(base.seq, a.latest),
                      shown |-> base.shown \cup more]
  BY DEF ApplySync, base, more
<1> QED BY <1>1, <1>3, <1>4, <1>5, <1>6 DEF ViewType

-----------------------------------------------------------------------------
(* The store publishes, evicts and reaps. *)
LEMMA LiveFrame ==
    ASSUME subs \in Seq(SubType), subs' \in Seq(SubType), Len(subs') = Len(subs),
           \A i \in 1..Len(subs) : Live(subs[i]) => Live(subs'[i])
    PROVE  /\ SubLive => SubLive'
           /\ (subs' = <<>>) <=> (subs = <<>>)
           /\ subs # <<>> /\ Live(Last(subs)) => Live(Last(subs'))
<1>1. DOMAIN subs = 1..Len(subs) /\ DOMAIN subs' = 1..Len(subs)  BY LenProperties
<1>2. (subs = <<>> <=> Len(subs) = 0) /\ (subs' = <<>> <=> Len(subs) = 0) /\ Len(subs) \in Nat
  BY SeqFacts
<1>3. SubLive => SubLive'  BY <1>1 DEF SubLive, Live
<1> QED BY <1>1, <1>2, <1>3 DEF Last

LEMMA FrameStep ==
    ASSUME WaitInv, StreamTypeOK', UNCHANGED <<handling, reqs, data, ctrl, connected, client>>,
           Len(subs') = Len(subs), \A i \in 1..Len(subs) : Live(subs[i]) => Live(subs'[i])
    PROVE  WaitInv'
<1>1. subs \in Seq(SubType) /\ subs' \in Seq(SubType)  BY DEF WaitInv, StreamTypeOK, SubType
<1>2. /\ SubLive => SubLive'
      /\ (subs' = <<>>) <=> (subs = <<>>)
      /\ subs # <<>> /\ Live(Last(subs)) => Live(Last(subs'))
  BY <1>1, LiveFrame
<1>3. IdleInv'  BY <1>2 DEF WaitInv, IdleInv, Handling
<1>4. HandlingInv'  BY <1>2 DEF WaitInv, HandlingInv, Handling
<1>5. AliveInv'  BY <1>2 DEF WaitInv, AliveInv, Waits
<1>6. HereInv' /\ ReqInv' /\ TurnInv' /\ LoneInv'
  BY DEF WaitInv, HereInv, ReqInv, TurnInv, LoneInv, Waits
<1> QED BY <1>3, <1>4, <1>5, <1>6 DEF WaitInv

LEMMA PublishFacts ==
    ASSUME StreamTypeOK, Publish
    PROVE  /\ subs' \in Seq(SubType) /\ Len(subs') = Len(subs) /\ DOMAIN subs' = 1..Len(subs)
           /\ \A i \in 1..Len(subs) : /\ subs'[i] = Offer(subs[i], log.last + 1)
                                      /\ Live(subs[i]) <=> Live(subs'[i])
                                      /\ Len(subs'[i].ch) <= Buffer
           /\ log.last + 1 \in Seqs /\ log' \in [epoch : Epochs, last : Seqs, evicted : Seqs]
           /\ log'.last = log.last + 1 /\ log'.epoch = log.epoch /\ log'.evicted = log.evicted
<1> USE TypeFacts
<1>1. log.last + 1 \in Seqs  BY Bounds DEF Publish, Seqs
<1>2. /\ log' \in [epoch : Epochs, last : Seqs, evicted : Seqs]
      /\ log'.last = log.last + 1 /\ log'.epoch = log.epoch /\ log'.evicted = log.evicted
  BY <1>1 DEF Publish
<1>3. DOMAIN subs = 1..Len(subs) /\ Len(subs) \in Nat  BY SeqFacts
<1>4. ASSUME NEW sub \in SubType, Len(sub.ch) <= Buffer
      PROVE  /\ Offer(sub, log.last + 1) \in SubType
             /\ Live(sub) <=> Live(Offer(sub, log.last + 1))
             /\ Len(Offer(sub, log.last + 1).ch) <= Buffer
  <2>1. /\ Append(sub.ch, log.last + 1) \in Seq(Seqs)
        /\ Len(Append(sub.ch, log.last + 1)) = Len(sub.ch) + 1 /\ Len(sub.ch) \in Nat
    BY <1>1, AppendFacts DEF SubType
  <2>2. CASE sub.state # "open"
    <3>1. Offer(sub, log.last + 1) = sub  BY <2>2 DEF Offer
    <3> QED BY <1>4, <3>1
  <2>3. CASE sub.state = "open" /\ Len(sub.ch) < Buffer
    <3>1. Offer(sub, log.last + 1) = [sub EXCEPT !.ch = Append(sub.ch, log.last + 1)]
      BY <2>3 DEF Offer
    <3>2. /\ Offer(sub, log.last + 1) \in SubType
          /\ Offer(sub, log.last + 1).ch = Append(sub.ch, log.last + 1)
          /\ Offer(sub, log.last + 1).state = sub.state
      BY <2>1, <3>1 DEF SubType
    <3>3. Len(Offer(sub, log.last + 1).ch) = Len(sub.ch) + 1  BY <2>1, <3>2
    <3>4. Len(Offer(sub, log.last + 1).ch) <= Buffer
      <4>1. \A m, n \in Nat : m < n => m + 1 <= n  OBVIOUS
      <4>2. Len(sub.ch) \in Nat /\ Buffer \in Nat /\ Len(sub.ch) < Buffer  BY <2>1, <2>3, Bounds
      <4> QED BY <3>3, <4>1, <4>2
    <3>5. Live(sub) <=> Live(Offer(sub, log.last + 1))  BY <3>2 DEF Live
    <3> QED BY <3>2, <3>4, <3>5
  <2>4. CASE sub.state = "open" /\ ~(Len(sub.ch) < Buffer)
    <3>1. Offer(sub, log.last + 1) = [sub EXCEPT !.state = "over"]
      BY <2>4 DEF Offer
    <3>2. /\ Offer(sub, log.last + 1) \in SubType
          /\ Offer(sub, log.last + 1).ch = sub.ch
          /\ Offer(sub, log.last + 1).state = "over"
      BY <3>1 DEF SubType
    <3> QED BY <1>4, <2>4, <3>2 DEF Live
  <2> QED BY <2>2, <2>3, <2>4
<1>5. /\ subs' = [i \in 1..Len(subs) |-> Offer(subs[i], log.last + 1)]
      /\ \A i \in 1..Len(subs) : subs[i] \in SubType /\ Len(subs[i].ch) <= Buffer
  BY <1>3, SeqFacts DEF Publish, StreamTypeOK
<1>6. \A i \in 1..Len(subs) : /\ subs'[i] = Offer(subs[i], log.last + 1)
                              /\ Live(subs[i]) <=> Live(subs'[i])
                              /\ Len(subs'[i].ch) <= Buffer /\ subs'[i] \in SubType
  BY <1>4, <1>5
<1>7. subs' \in [1..Len(subs) -> SubType]  BY <1>5, <1>6
<1>8. subs' \in Seq(SubType) /\ Len(subs') = Len(subs) /\ DOMAIN subs' = 1..Len(subs)
  BY <1>3, <1>7, MapFacts
<1> QED BY <1>1, <1>2, <1>6, <1>8

LEMMA PublishWait == ASSUME WaitInv, Publish PROVE WaitInv'
<1>1. StreamTypeOK  BY DEF WaitInv
<1>2. /\ subs' \in Seq(SubType) /\ Len(subs') = Len(subs) /\ DOMAIN subs' = 1..Len(subs)
      /\ \A i \in 1..Len(subs) : (Live(subs[i]) <=> Live(subs'[i])) /\ Len(subs'[i].ch) <= Buffer
      /\ log.last + 1 \in Seqs /\ log' \in [epoch : Epochs, last : Seqs, evicted : Seqs]
      /\ log'.last = log.last + 1 /\ log'.epoch = log.epoch /\ log'.evicted = log.evicted
  BY <1>1, PublishFacts
<1>3. log'.evicted <= log'.last
  <2>1. log.evicted <= log.last /\ log.evicted \in Nat /\ log.last \in Nat
    BY <1>1, TypeFacts, Bounds DEF StreamTypeOK
  <2> QED BY <1>2, <2>1
<1>4. StreamTypeOK'  BY <1>1, <1>2, <1>3 DEF StreamTypeOK, Publish, SubType
<1> QED BY <1>2, <1>4, FrameStep DEF Publish

LEMMA NewLogType == ASSUME StreamTypeOK, NewLog
                    PROVE  /\ log' \in [epoch : Epochs, last : Seqs, evicted : Seqs]
                           /\ log'.epoch = log.epoch + 1 /\ log'.last = 0 /\ log'.evicted = 0
BY TypeFacts, Bounds DEF NewLog, Epochs

LEMMA EvictType == ASSUME StreamTypeOK, Evict
                   PROVE  /\ log' \in [epoch : Epochs, last : Seqs, evicted : Seqs]
                          /\ log'.epoch = log.epoch /\ log'.last = log.last
                          /\ log'.evicted \in log.evicted..log.last
<1>1. PICK s \in log.evicted + 1..log.last : log' = [log EXCEPT !.evicted = s]  BY DEF Evict
<1>2. /\ log \in [epoch : Epochs, last : Seqs, evicted : Seqs]
      /\ log.evicted \in Nat /\ log.last \in 0..MaxSeq
  BY TypeFacts, Bounds DEF Seqs
<1>3. s \in Seqs /\ s \in log.evicted..log.last  BY <1>1, <1>2, Bounds DEF Seqs
<1> QED BY <1>1, <1>2, <1>3

LEMMA LogWait == ASSUME WaitInv, Evict \/ Reap PROVE WaitInv'
<1>1. StreamTypeOK  BY DEF WaitInv
<1>2. /\ log' \in [epoch : Epochs, last : Seqs, evicted : Seqs] /\ log'.evicted <= log'.last
  BY <1>1, NewLogType, EvictType, TypeFacts, Bounds DEF Reap
<1>3. StreamTypeOK'  BY <1>1, <1>2 DEF StreamTypeOK, Evict, Reap
<1> QED BY <1>3, FrameStep DEF Evict, Reap

LEMMA ClientEqual ==
    ASSUME NEW c \in ClientType, NEW d \in ClientType,
           c.here = d.here, c.seq = d.seq, c.epoch = d.epoch, c.synced = d.synced,
           c.syncing = d.syncing, c.queued = d.queued, c.retry = d.retry,
           c.pending = d.pending, c.from = d.from
    PROVE  c = d
BY DEF ClientType

LEMMA LoseFacts ==
    ASSUME StreamTypeOK, LoseConnection
    PROVE  /\ subs' = <<>> /\ handling' = <<NoAnswer, "none">> /\ reqs' = <<>> /\ data' = <<>>
           /\ ~ctrl' /\ ~connected' /\ ctrl' \in BOOLEAN /\ connected' \in BOOLEAN
           /\ view' = view
           /\ client' \in ClientType /\ client'.here = client.here /\ client'.seq = client.seq
           /\ client'.epoch = client.epoch /\ client'.from = client.from
           /\ ~client'.synced /\ client'.syncing = 0 /\ ~client'.queued /\ ~client'.retry
           /\ client'.pending = <<>>
           /\ client = Nobody => client' = Nobody
<1>1. client' = [client EXCEPT !.synced = FALSE, !.syncing = 0, !.queued = FALSE,
                               !.retry = FALSE, !.pending = <<>>]
  BY DEF LoseConnection
<1>2. /\ client' \in ClientType /\ client'.here = client.here /\ client'.seq = client.seq
      /\ client'.epoch = client.epoch /\ client'.from = client.from
      /\ ~client'.synced /\ client'.syncing = 0 /\ ~client'.queued /\ ~client'.retry
      /\ client'.pending = <<>>
  <2>1. client \in ClientType /\ <<>> \in Seq(Seqs) /\ 0 \in Tickets  BY TypeFacts, Bounds, EmptySeq
  <2> QED BY <1>1, <2>1 DEF ClientType
<1>3. client = Nobody => client' = Nobody
  <2>1. Nobody \in ClientType  BY Literals, TypeFacts
  <2>2. /\ ~Nobody.synced /\ Nobody.syncing = 0 /\ ~Nobody.queued /\ ~Nobody.retry
        /\ Nobody.pending = <<>>
        /\ Nobody.synced \in BOOLEAN /\ Nobody.queued \in BOOLEAN /\ Nobody.retry \in BOOLEAN
    BY DEF Nobody
  <2>3. client'.synced \in BOOLEAN /\ client'.queued \in BOOLEAN /\ client'.retry \in BOOLEAN
    BY <1>2 DEF ClientType
  <2>4. ASSUME client = Nobody PROVE client' = Nobody
    <3>1. client'.here = Nobody.here /\ client'.seq = Nobody.seq /\ client'.epoch = Nobody.epoch
          /\ client'.from = Nobody.from
      BY <1>2, <2>4
    <3>2. client'.synced = Nobody.synced /\ client'.queued = Nobody.queued
          /\ client'.retry = Nobody.retry
      BY <1>2, <2>2, <2>3
    <3> QED BY <1>2, <2>1, <2>2, <3>1, <3>2, ClientEqual
  <2> QED BY <2>4
<1> QED BY <1>2, <1>3 DEF LoseConnection

LEMMA LoseWait ==
    ASSUME WaitInv, LoseConnection, log' \in [epoch : Epochs, last : Seqs, evicted : Seqs],
           log'.evicted <= log'.last, breaks' \in 0..MaxBreaks
    PROVE  WaitInv'
<1>1. StreamTypeOK  BY DEF WaitInv
<1> USE <1>1, LoseFacts
<1>2. handling' \in HandlingType /\ handling'[1].id = 0 /\ handling'[2] = "none"
  BY Literals, TypeFacts
<1>3. <<>> \in Seq(SubType) /\ <<>> \in Seq(Request) /\ <<>> \in Seq(Answer) /\ Len(<<>>) = 0
      /\ DOMAIN <<>> = {}
  BY EmptySeq
<1>4. view' \in ViewType  BY TypeFacts
<1>5. StreamTypeOK'
  BY <1>2, <1>3, <1>4, Bounds DEF StreamTypeOK, SubType, HandlingType, ClientType, ViewType
<1>6. IdleInv' /\ HandlingInv' /\ ReqInv' /\ TurnInv' /\ LoneInv' /\ AliveInv'
  BY <1>2, <1>3 DEF IdleInv, HandlingInv, ReqInv, TurnInv, LoneInv, AliveInv, Handling, Waits
<1>7. HereInv'  BY DEF HereInv, WaitInv
<1> QED BY <1>5, <1>6, <1>7 DEF WaitInv

LEMMA BreakType == ASSUME StreamTypeOK, Break PROVE breaks' \in 0..MaxBreaks
BY Bounds DEF StreamTypeOK, Break

LEMMA ConnectionWait == ASSUME WaitInv, ConnectionLost \/ RestartStore PROVE WaitInv'
<1>1. StreamTypeOK  BY DEF WaitInv
<1>2. /\ log' \in [epoch : Epochs, last : Seqs, evicted : Seqs] /\ log'.evicted <= log'.last
  BY <1>1, NewLogType DEF ConnectionLost, RestartStore, StreamTypeOK
<1>3. breaks' \in 0..MaxBreaks
  BY <1>1, BreakType, TypeFacts DEF ConnectionLost, RestartStore
<1> QED BY <1>2, <1>3, LoseWait DEF ConnectionLost, RestartStore

-----------------------------------------------------------------------------
(* Where the awaited request is after each move of the queues. *)
LEMMA TurnPop ==
    ASSUME NEW rs \in Seq(Request), NEW ds \in Seq(Answer), NEW h, NEW g, NEW x,
           rs # <<>>, h[2] = "none", x # 0, Turn(x, rs, h, ds),
           g[1].id = Head(rs).id, g[2] # "none"
    PROVE  Turn(x, Tail(rs), g, ds)
<1>1. /\ Last(rs).id = x /\ \A k \in 1..Len(rs) - 1 : rs[k].id # x
      /\ \A k \in DOMAIN ds : ds[k].id # x
  BY DEF Turn
<1>2. CASE Tail(rs) = <<>>
  <2>1. g[1].id = x  BY <1>1, <1>2, TailFacts
  <2> QED BY <1>1, <1>2, <2>1 DEF Turn
<1>3. CASE Tail(rs) # <<>>
  <2>1. /\ Len(rs) \in Nat /\ Len(rs) > 1 /\ Last(Tail(rs)) = Last(rs) /\ Len(Tail(rs)) = Len(rs) - 1
        /\ \A k \in 1..Len(rs) - 1 : Tail(rs)[k] = rs[k + 1]
        /\ Head(rs) = rs[1]
    BY <1>3, TailFacts
  <2>2. g[1].id # x  BY <1>1, <2>1
  <2>3. \A k \in 1..Len(Tail(rs)) - 1 : Tail(rs)[k].id # x  BY <1>1, <2>1
  <2> QED BY <1>1, <1>3, <2>1, <2>2, <2>3 DEF Turn
<1> QED BY <1>2, <1>3

LEMMA TurnSkip ==
    ASSUME NEW rs \in Seq(Request), NEW ds \in Seq(Answer), NEW h, NEW x,
           rs # <<>>, h[2] = "none", x # 0, Turn(x, rs, h, ds), Head(rs).id = 0
    PROVE  Turn(x, Tail(rs), h, ds)
<1>1. /\ Last(rs).id = x /\ \A k \in 1..Len(rs) - 1 : rs[k].id # x
      /\ h[1].id # x /\ \A k \in DOMAIN ds : ds[k].id # x
  BY DEF Turn
<1>2. Tail(rs) # <<>>  BY <1>1, TailFacts
<1>3. /\ Len(rs) \in Nat /\ Len(rs) > 1 /\ Last(Tail(rs)) = Last(rs) /\ Len(Tail(rs)) = Len(rs) - 1
      /\ \A k \in 1..Len(rs) - 1 : Tail(rs)[k] = rs[k + 1]
  BY <1>2, TailFacts
<1>4. \A k \in 1..Len(Tail(rs)) - 1 : Tail(rs)[k].id # x  BY <1>1, <1>3
<1> QED BY <1>1, <1>2, <1>3, <1>4 DEF Turn

LEMMA TurnTail ==
    ASSUME NEW rs, NEW ds \in Seq(Answer), NEW h, NEW x,
           ds # <<>>, Turn(x, rs, h, ds), Head(ds).id # x
    PROVE  Turn(x, rs, h, Tail(ds))
<1>1. /\ Len(ds) \in Nat \ {0} /\ DOMAIN ds = 1..Len(ds) /\ Head(ds) = ds[1]
      /\ Len(Tail(ds)) = Len(ds) - 1 /\ DOMAIN Tail(ds) = 1..Len(ds) - 1
      /\ \A k \in 1..Len(ds) - 1 : Tail(ds)[k] = ds[k + 1]
  BY TailFacts
<1>2. CASE \A k \in DOMAIN ds : ds[k].id # x
  <2>1. \A k \in DOMAIN Tail(ds) : Tail(ds)[k].id # x  BY <1>1, <1>2
  <2>2. \A k \in DOMAIN ds : ~(ds[k].id = x)  BY <1>2
  <2> QED BY <2>1, <2>2 DEF Turn
<1>3. CASE /\ rs = <<>> /\ h[2] = "none"
           /\ \E k \in DOMAIN ds :
                 /\ ds[k].id = x /\ \A j \in 1..k - 1 : ds[j].id # x
                 /\ \A j \in k + 1..Len(ds) : ds[j].id = 0
  <2>1. PICK k \in DOMAIN ds : /\ ds[k].id = x /\ \A j \in 1..k - 1 : ds[j].id # x
                              /\ \A j \in k + 1..Len(ds) : ds[j].id = 0
    BY <1>3
  <2>2. k \in 2..Len(ds) /\ k - 1 \in 1..Len(ds) - 1  BY <1>1, <2>1
  <2>3. Tail(ds)[k - 1].id = x  BY <1>1, <2>1, <2>2
  <2>4. \A j \in 1..k - 1 - 1 : Tail(ds)[j].id # x  BY <1>1, <2>1, <2>2
  <2>5. \A j \in k - 1 + 1..Len(Tail(ds)) : Tail(ds)[j].id = 0  BY <1>1, <2>1, <2>2
  <2> QED BY <1>1, <1>3, <2>2, <2>3, <2>4, <2>5 DEF Turn
<1> QED BY <1>2, <1>3 DEF Turn

LEMMA TurnEvent ==
    ASSUME NEW rs, NEW ds \in Seq(Answer), NEW h, NEW x, NEW e \in Answer,
           x # 0, Turn(x, rs, h, ds), e.id = 0
    PROVE  Turn(x, rs, h, Append(ds, e))
<1>1. /\ DOMAIN Append(ds, e) = 1..Len(ds) + 1 /\ DOMAIN ds = 1..Len(ds) /\ Len(ds) \in Nat
      /\ Len(Append(ds, e)) = Len(ds) + 1
      /\ \A k \in 1..Len(ds) : Append(ds, e)[k] = ds[k]
      /\ Append(ds, e)[Len(ds) + 1] = e
  BY AppendFacts
<1>2. CASE \A k \in DOMAIN ds : ds[k].id # x
  <2>1. \A k \in DOMAIN Append(ds, e) : Append(ds, e)[k].id # x  BY <1>1, <1>2
  <2>2. \A k \in DOMAIN ds : ~(ds[k].id = x)  BY <1>2
  <2> QED BY <2>1, <2>2 DEF Turn
<1>3. CASE /\ rs = <<>> /\ h[2] = "none"
           /\ \E k \in DOMAIN ds :
                 /\ ds[k].id = x /\ \A j \in 1..k - 1 : ds[j].id # x
                 /\ \A j \in k + 1..Len(ds) : ds[j].id = 0
  <2>1. PICK k \in DOMAIN ds : /\ ds[k].id = x /\ \A j \in 1..k - 1 : ds[j].id # x
                              /\ \A j \in k + 1..Len(ds) : ds[j].id = 0
    BY <1>3
  <2>2. Append(ds, e)[k].id = x /\ k \in DOMAIN Append(ds, e)  BY <1>1, <2>1
  <2>3. \A j \in 1..k - 1 : Append(ds, e)[j].id # x  BY <1>1, <2>1
  <2>4. \A j \in k + 1..Len(Append(ds, e)) : Append(ds, e)[j].id = 0  BY <1>1, <2>1
  <2> QED BY <1>3, <2>2, <2>3, <2>4 DEF Turn
<1> QED BY <1>2, <1>3 DEF Turn

LEMMA TurnRespond ==
    ASSUME NEW rs, NEW ds \in Seq(Answer), NEW h, NEW g, NEW x,
           h[1] \in Answer, h[2] # "none", g[1].id = 0, g[2] = "none",
           x # 0, Turn(x, rs, h, ds)
    PROVE  Turn(x, rs, g, Append(ds, h[1]))
<1>1. /\ DOMAIN Append(ds, h[1]) = 1..Len(ds) + 1 /\ DOMAIN ds = 1..Len(ds) /\ Len(ds) \in Nat
      /\ Len(Append(ds, h[1])) = Len(ds) + 1
      /\ \A k \in 1..Len(ds) : Append(ds, h[1])[k] = ds[k]
      /\ Append(ds, h[1])[Len(ds) + 1] = h[1]
  BY AppendFacts
<1>2. \A k \in DOMAIN ds : ds[k].id # x  BY DEF Turn
<1>3. CASE h[1].id = x
  <2>1. rs = <<>>  BY <1>3 DEF Turn
  <2>2. \A j \in 1..Len(ds) + 1 - 1 : Append(ds, h[1])[j].id # x  BY <1>1, <1>2
  <2>3. Append(ds, h[1])[Len(ds) + 1].id = x /\ Len(ds) + 1 \in DOMAIN Append(ds, h[1])
    BY <1>1, <1>3
  <2>4. \A j \in Len(ds) + 1 + 1..Len(Append(ds, h[1])) : Append(ds, h[1])[j].id = 0  BY <1>1
  <2> QED BY <2>1, <2>2, <2>3, <2>4 DEF Turn
<1>4. CASE h[1].id # x
  <2>1. \A k \in DOMAIN Append(ds, h[1]) : Append(ds, h[1])[k].id # x  BY <1>1, <1>2, <1>4
  <2>2. rs # <<>> /\ Last(rs).id = x /\ \A k \in 1..Len(rs) - 1 : rs[k].id # x  BY <1>4 DEF Turn
  <2> QED BY <2>1, <2>2 DEF Turn
<1> QED BY <1>3, <1>4

LEMMA TurnPush ==
    ASSUME NEW rs \in Seq(Request), NEW ds, NEW h, NEW r \in Request,
           \A k \in DOMAIN rs : rs[k].id # r.id, h[1].id # r.id,
           \A k \in DOMAIN ds : ds[k].id # r.id
    PROVE  Turn(r.id, Append(rs, r), h, ds)
<1>1. /\ Append(rs, r) # <<>> /\ Len(Append(rs, r)) = Len(rs) + 1 /\ Len(rs) \in Nat
      /\ \A k \in 1..Len(rs) : Append(rs, r)[k] = rs[k] /\ DOMAIN rs = 1..Len(rs)
      /\ Last(Append(rs, r)) = r
  BY AppendFacts
<1>2. \A k \in 1..Len(Append(rs, r)) - 1 : Append(rs, r)[k].id # r.id  BY <1>1
<1> QED BY <1>1, <1>2 DEF Turn

(* A step that syncs. *)
LEMMA SyncStep ==
    ASSUME WaitInv, NEW c \in ClientType, Sync(c), c.here,
           UNCHANGED <<log, subs, handling>>, connected', connected' \in BOOLEAN,
           ctrl' \in BOOLEAN, view' \in ViewType, breaks' \in 0..MaxBreaks, Len(c.pending) <= Pending,
           data' = data \/ (data # <<>> /\ data' = Tail(data)),
           c.syncing # 0 => /\ client.here /\ c.syncing = client.syncing
                            /\ Turn(client.syncing, reqs, handling, data'),
           c.synced => Lone(c.syncing, reqs, handling, data')
    PROVE  WaitInv'
<1>1. StreamTypeOK /\ reqs \in Seq(Request) /\ data \in Seq(Answer)  BY TypeFacts DEF WaitInv
<1> DEFINE r == [id |-> client'.syncing, after |-> c.seq, epoch |-> c.epoch]
<1>2. /\ client' \in ClientType /\ reqs' \in Seq(Request)
      /\ client'.here = c.here /\ client'.synced = c.synced /\ client'.pending = c.pending
      /\ client'.syncing # 0
      /\ \/ /\ c.syncing # 0 /\ client'.syncing = c.syncing /\ client'.queued /\ reqs' = reqs
         \/ /\ c.syncing = 0 /\ client'.syncing \notin Used
            /\ reqs' = Append(reqs, r) /\ r \in Request
  BY <1>1, SyncFacts
<1>3. /\ data' \in Seq(Answer) /\ DOMAIN data' = 1..Len(data') /\ Len(data') <= Outbox
      /\ DOMAIN data = 1..Len(data)
      /\ \A k \in DOMAIN data' : \E j \in DOMAIN data : data'[k] = data[j]
  <2>0. Len(data) <= Outbox  BY <1>1 DEF StreamTypeOK
  <2>1. CASE data' = data
    <3>1. DOMAIN data = 1..Len(data)  BY <1>1, SeqFacts
    <3> QED BY <1>1, <2>0, <2>1, <3>1
  <2>2. CASE data # <<>> /\ data' = Tail(data)
    <3>1. /\ Tail(data) \in Seq(Answer) /\ DOMAIN Tail(data) = 1..Len(Tail(data))
          /\ Len(Tail(data)) <= Len(data) /\ Len(Tail(data)) \in Nat /\ Len(data) \in Nat
          /\ DOMAIN data = 1..Len(data)
          /\ \A k \in DOMAIN Tail(data) : \E j \in DOMAIN data : Tail(data)[k] = data[j]
      BY <1>1, <2>2, TailPart
    <3>2. \A a, b, o \in Nat : a <= b /\ b <= o => a <= o  OBVIOUS
    <3>3. Len(Tail(data)) \in Nat /\ Len(data) \in Nat /\ Outbox \in Nat  BY <3>1, Bounds
    <3>4. Len(Tail(data)) <= Outbox  BY <2>0, <3>1, <3>2, <3>3, Zenon
    <3> QED BY <2>2, <3>1, <3>4
  <2> QED BY <2>1, <2>2
<1>4. StreamTypeOK'
  <2>1. client' \in [here : BOOLEAN, seq : Seqs, epoch : Epochs \cup {0}, synced : BOOLEAN,
                     syncing : Tickets, queued : BOOLEAN, retry : BOOLEAN,
                     pending : Seq(Seqs), from : Seqs]
    BY <1>2 DEF ClientType
  <2> QED BY <1>1, <1>2, <1>3, <2>1 DEF StreamTypeOK, ViewType
<1>5. IdleInv' /\ HereInv'  BY <1>2 DEF IdleInv, HereInv
<1>6. HandlingInv'  BY DEF WaitInv, HandlingInv, Handling
<1>7. CASE c.syncing # 0
  <2>1. client'.syncing = client.syncing /\ client'.queued /\ reqs' = reqs /\ client.here  BY <1>2, <1>7
  <2>2. ReqInv'  BY <2>1 DEF WaitInv, ReqInv
  <2>3. TurnInv'  BY <1>7, <2>1 DEF TurnInv
  <2>4. LoneInv'  BY <1>2, <1>7, <2>1 DEF LoneInv
  <2>5. AliveInv'  BY <1>2, <2>1 DEF AliveInv, Waits
  <2> QED BY <1>4, <1>5, <1>6, <2>2, <2>3, <2>4, <2>5 DEF WaitInv
<1>8. CASE c.syncing = 0
  <2>1. reqs' = Append(reqs, r) /\ r \in Request /\ client'.syncing \notin Used /\ r.id = client'.syncing
    BY <1>2, <1>8
  <2> HIDE DEF r
  <2>2. /\ reqs' # <<>> /\ Len(reqs) \in Nat
        /\ DOMAIN reqs' = 1..Len(reqs) + 1 /\ DOMAIN reqs = 1..Len(reqs)
        /\ \A k \in 1..Len(reqs) : reqs'[k] = reqs[k]
        /\ reqs'[Len(reqs) + 1] = r /\ Last(reqs') = r
    BY <1>1, <2>1, AppendFacts
  <2>3. /\ \A k \in DOMAIN reqs : reqs[k].id # r.id
        /\ handling[1].id # r.id /\ \A k \in DOMAIN data : data[k].id # r.id
    BY <2>1 DEF Used
  <2>4. ReqInv'
    <3>1. \A k \in DOMAIN reqs : reqs[k] = Unsubscribe \/ reqs[k].id # 0  BY DEF WaitInv, ReqInv
    <3>2. ASSUME NEW k \in DOMAIN reqs' PROVE reqs'[k] = Unsubscribe \/ reqs'[k].id # 0
      <4>1. CASE k = Len(reqs) + 1  BY <1>2, <2>1, <2>2, <4>1
      <4>2. CASE k # Len(reqs) + 1
        <5>1. k \in 1..Len(reqs) /\ k \in DOMAIN reqs  BY <2>2, <4>2
        <5> QED BY <2>2, <3>1, <5>1
      <4> QED BY <4>1, <4>2
    <3> QED BY <1>2, <2>1, <2>2, <3>2 DEF ReqInv
  <2>5. TurnInv'
    <3>1. \A k \in DOMAIN data' : data'[k].id # r.id  BY <1>3, <2>3
    <3>2. Turn(r.id, Append(reqs, r), handling, data')  BY <1>1, <2>1, <2>3, <3>1, TurnPush
    <3>3. Turn(client'.syncing, reqs', handling', data')  BY <2>1, <3>2
    <3> QED BY <3>3 DEF TurnInv
  <2>6. LoneInv'
    <3> SUFFICES ASSUME c.synced PROVE Lone(client'.syncing, reqs', handling', data') /\ client'.here
      BY <1>2 DEF LoneInv
    <3>1. Lone(0, reqs, handling, data')  BY <1>8
    <3>2. /\ \A k \in DOMAIN reqs : FALSE
          /\ handling[2] = "none" /\ \A k \in DOMAIN data' : data'[k].id = 0
      BY <3>1 DEF Lone, WaitInv, HandlingInv, Handling
    <3>3. \A k \in DOMAIN reqs' : reqs'[k] = r  BY <2>2, <3>2
    <3> QED BY <1>2, <2>1, <3>2, <3>3 DEF Lone
  <2>7. AliveInv'  BY <2>2 DEF AliveInv
  <2> QED BY <1>4, <1>5, <1>6, <2>4, <2>5, <2>6, <2>7 DEF WaitInv
<1> QED BY <1>7, <1>8

-----------------------------------------------------------------------------
LEMMA SubsFacts ==
    ASSUME StreamTypeOK
    PROVE  /\ subs \in Seq(SubType) /\ Len(subs) \in Nat /\ DOMAIN subs = 1..Len(subs)
           /\ \A i \in 1..Len(subs) : /\ subs[i] \in SubType /\ subs[i].ch \in Seq(Seqs)
                                      /\ Len(subs[i].ch) <= Buffer
<1>1. subs \in Seq(SubType)  BY TypeFacts
<1>2. \A i \in DOMAIN subs : Len(subs[i].ch) <= Buffer  BY DEF StreamTypeOK
<1>3. /\ Len(subs) \in Nat /\ DOMAIN subs = 1..Len(subs)
      /\ \A i \in 1..Len(subs) : subs[i] \in SubType
  BY <1>1, SeqFacts
<1>4. \A i \in 1..Len(subs) : subs[i].ch \in Seq(Seqs)  BY <1>3 DEF SubType
<1> QED BY <1>1, <1>2, <1>3, <1>4

LEMMA SubscribeFacts ==
    ASSUME StreamTypeOK, Subscribe
    PROVE  /\ reqs # <<>> /\ Head(reqs) \in Request /\ Head(reqs) # Unsubscribe /\ handling[2] = "none"
           /\ subs' \in Seq(SubType) /\ Len(subs') = Len(subs) + 1 /\ subs' # <<>>
           /\ DOMAIN subs' = 1..Len(subs) + 1 /\ Len(subs) \in Nat
           /\ \A i \in 1..Len(subs) : subs'[i] = subs[i]
           /\ subs'[Len(subs) + 1] = [ch |-> <<>>, state |-> "open"]
           /\ Last(subs') = [ch |-> <<>>, state |-> "open"]
           /\ handling' \in HandlingType /\ handling'[2] = "replace"
           /\ LET after == IF Reset(Head(reqs)) THEN 0 ELSE Head(reqs).after IN
              handling'[1] = [id |-> Head(reqs).id, epoch |-> log.epoch, reset |-> Reset(Head(reqs)),
                              whole |-> after = 0, from |-> Larger(after, log.evicted), latest |-> log.last]
           /\ reqs' = Tail(reqs) /\ reqs' \in Seq(Request)
<1> USE TypeFacts
<1>1. reqs # <<>> /\ Head(reqs) \in Request /\ Tail(reqs) \in Seq(Request)  BY TailFacts DEF Subscribe
<1>2. [ch |-> <<>>, state |-> "open"] \in SubType  BY EmptySeq DEF SubType
<1>3. /\ subs' \in Seq(SubType) /\ Len(subs') = Len(subs) + 1 /\ subs' # <<>>
      /\ DOMAIN subs' = 1..Len(subs) + 1 /\ Len(subs) \in Nat
      /\ \A i \in 1..Len(subs) : subs'[i] = subs[i]
      /\ subs'[Len(subs) + 1] = [ch |-> <<>>, state |-> "open"]
      /\ Last(subs') = [ch |-> <<>>, state |-> "open"]
  BY <1>2, AppendFacts DEF Subscribe
<1> DEFINE req == Head(reqs)
           after == IF Reset(req) THEN 0 ELSE req.after
           a == [id |-> req.id, epoch |-> log.epoch, reset |-> Reset(req),
                 whole |-> after = 0, from |-> Larger(after, log.evicted), latest |-> log.last]
<1>4. handling' = <<a, "replace">>  BY DEF Subscribe
<1>5. a \in Answer
  <2>1. Reset(req) \in BOOLEAN  BY DEF Reset
  <2>2. req.id \in Tickets /\ req.after \in Seqs  BY <1>1 DEF Request
  <2>3. after \in Seqs  BY <2>2, Bounds
  <2>4. Larger(after, log.evicted) \in Seqs
    <3> HIDE DEF after
    <3> QED BY <2>3 DEF Larger
  <2>5. (after = 0) \in BOOLEAN  OBVIOUS
  <2> HIDE DEF after, req
  <2> QED BY <2>1, <2>2, <2>4, <2>5 DEF Answer
<1>6. handling' \in HandlingType /\ handling'[2] = "replace" /\ handling'[1] = a
  <2> HIDE DEF a
  <2> QED BY <1>4, <1>5 DEF HandlingType
<1> QED BY <1>1, <1>3, <1>6 DEF Subscribe

LEMMA SubscribeWait == ASSUME WaitInv, Subscribe PROVE WaitInv'
<1>1. StreamTypeOK  BY DEF WaitInv
<1>2. /\ reqs # <<>> /\ Head(reqs) \in Request /\ Head(reqs) # Unsubscribe /\ handling[2] = "none"
      /\ subs' \in Seq(SubType) /\ Len(subs') = Len(subs) + 1 /\ subs' # <<>>
      /\ DOMAIN subs' = 1..Len(subs) + 1 /\ Len(subs) \in Nat
      /\ \A i \in 1..Len(subs) : subs'[i] = subs[i]
      /\ subs'[Len(subs) + 1] = [ch |-> <<>>, state |-> "open"]
      /\ Last(subs') = [ch |-> <<>>, state |-> "open"]
      /\ handling' \in HandlingType /\ handling'[2] = "replace"
      /\ handling'[1].id = Head(reqs).id
      /\ reqs' = Tail(reqs) /\ reqs' \in Seq(Request)
  BY <1>1, SubscribeFacts
<1>3. UNCHANGED <<log, data, ctrl, connected, client, view, breaks>>  BY DEF Subscribe
<1>4. Len(<<>>) = 0  BY EmptySeq
<1>5. \A i \in DOMAIN subs' : Len(subs'[i].ch) <= Buffer
  <2>1. ASSUME NEW i \in DOMAIN subs' PROVE Len(subs'[i].ch) <= Buffer
    <3>1. CASE i = Len(subs) + 1  BY <1>2, <1>4, <3>1, Bounds
    <3>2. CASE i # Len(subs) + 1
      <4>1. i \in 1..Len(subs)  BY <1>2, <3>2
      <4> QED BY <1>1, <1>2, <4>1, SubsFacts
    <3> QED BY <3>1, <3>2
  <2> QED BY <2>1
<1>6. StreamTypeOK'
  BY <1>1, <1>2, <1>3, <1>5 DEF StreamTypeOK, HandlingType, SubType
<1>7. /\ \A k \in DOMAIN reqs' : \E j \in DOMAIN reqs : reqs'[k] = reqs[j]
      /\ DOMAIN reqs = 1..Len(reqs) /\ Head(reqs) = reqs[1] /\ 1 \in DOMAIN reqs
      /\ reqs' # <<>> => Last(reqs') = Last(reqs)
  BY <1>1, <1>2, TypeFacts, TailPart, TailFacts
<1>8. Head(reqs).id # 0  BY <1>2, <1>7 DEF WaitInv, ReqInv
<1>9. connected  BY <1>2 DEF WaitInv, IdleInv
<1>10. IdleInv' /\ HereInv'  BY <1>3, <1>9 DEF WaitInv, IdleInv, HereInv
<1>11. HandlingInv'  BY <1>2, <1>8 DEF HandlingInv, Handling, Live
<1>12. ReqInv'  BY <1>2, <1>3, <1>7 DEF WaitInv, ReqInv
<1>13. TurnInv'
  <2> SUFFICES ASSUME client.syncing # 0
               PROVE  Turn(client.syncing, Tail(reqs), handling', data)
    BY <1>2, <1>3 DEF TurnInv, Waits
  <2>1. Turn(client.syncing, reqs, handling, data)  BY DEF WaitInv, TurnInv, Waits
  <2>2. handling'[2] # "none"  BY <1>2
  <2> QED BY <1>1, <1>2, <2>1, <2>2, TypeFacts, TurnPop
<1>14. LoneInv'
  <2> SUFFICES ASSUME client.synced
               PROVE  client.here /\ Lone(client.syncing, reqs', handling', data)
    BY <1>3 DEF LoneInv
  <2>1. client.here /\ Lone(client.syncing, reqs, handling, data)  BY DEF WaitInv, LoneInv
  <2>2. Head(reqs).id = client.syncing  BY <1>7, <2>1 DEF Lone
  <2> QED BY <1>2, <1>7, <2>1, <2>2 DEF Lone
<1>15. AliveInv'
  <2>1. SubLive'  BY <1>2 DEF SubLive, Live
  <2> QED BY <2>1 DEF AliveInv
<1> QED BY <1>6, <1>10, <1>11, <1>12, <1>13, <1>14, <1>15 DEF WaitInv

LEMMA CancelFacts ==
    ASSUME NEW s \in Seq(SubType)
    PROVE  /\ CancelOpen(s) \in Seq(SubType) /\ Len(CancelOpen(s)) = Len(s) /\ Len(s) \in Nat
           /\ \A i \in 1..Len(s) : /\ CancelOpen(s)[i].ch = s[i].ch
                                   /\ CancelOpen(s)[i].state = IF s[i].state = "open" THEN "cancelled" ELSE s[i].state
<1> DEFINE c == [i \in 1..Len(s) |-> IF s[i].state = "open" THEN [s[i] EXCEPT !.state = "cancelled"] ELSE s[i]]
<1>1. DOMAIN s = 1..Len(s) /\ Len(s) \in Nat /\ \A i \in 1..Len(s) : s[i] \in SubType  BY SeqFacts
<1>2. CancelOpen(s) = c  BY <1>1 DEF CancelOpen
<1>3. ASSUME NEW i \in 1..Len(s)
      PROVE  /\ c[i] \in SubType /\ c[i].ch = s[i].ch
             /\ c[i].state = IF s[i].state = "open" THEN "cancelled" ELSE s[i].state
  <2>1. s[i] \in SubType  BY <1>1
  <2> QED BY <2>1 DEF SubType
<1>4. c \in [1..Len(s) -> SubType]  BY <1>3
<1> HIDE DEF c
<1>5. c \in Seq(SubType) /\ Len(c) = Len(s)  BY <1>1, <1>4, MapFacts
<1> QED BY <1>1, <1>2, <1>3, <1>5

LEMMA ReplaceFacts ==
    ASSUME StreamTypeOK, HandlingInv, Replace
    PROVE  /\ subs # <<>> /\ subs' \in Seq(SubType) /\ Len(subs') = Len(subs) /\ Len(subs) \in Nat \ {0}
           /\ subs'[Len(subs)] = subs[Len(subs)]
           /\ \A i \in 1..Len(subs) : /\ subs'[i].ch = subs[i].ch
                                      /\ subs'[i].state = "open" => i = Len(subs) /\ subs[i].state = "open"
           /\ handling'[1] = handling[1] /\ handling'[2] = "answer" /\ handling' \in HandlingType
           /\ handling[2] = "replace"
<1> USE TypeFacts
<1>1. /\ handling'[1] = handling[1] /\ handling'[2] = "answer" /\ handling' \in HandlingType
      /\ handling[2] = "replace"
  BY DEF Replace, HandlingType
<1>2. subs # <<>> /\ Len(subs) \in Nat \ {0}  BY <1>1, EmptySeq DEF HandlingInv, Handling
<1>3. /\ Front(subs) \in Seq(SubType) /\ Len(Front(subs)) = Len(subs) - 1
      /\ \A k \in 1..Len(subs) - 1 : Front(subs)[k] = subs[k]
  BY <1>2, FrontFacts
<1> DEFINE c == CancelOpen(Front(subs))
<1>4. /\ c \in Seq(SubType) /\ Len(c) = Len(subs) - 1
      /\ \A i \in 1..Len(subs) - 1 : /\ c[i].ch = subs[i].ch /\ c[i].state # "open"
  <2>1. /\ c \in Seq(SubType) /\ Len(c) = Len(Front(subs))
        /\ \A i \in 1..Len(Front(subs)) :
              /\ c[i].ch = Front(subs)[i].ch
              /\ c[i].state = IF Front(subs)[i].state = "open" THEN "cancelled" ELSE Front(subs)[i].state
    BY <1>3, CancelFacts
  <2> QED BY <1>3, <2>1
<1> HIDE DEF c
<1>5. Last(subs) = subs[Len(subs)] /\ Last(subs) \in SubType  BY <1>2, SeqFacts
<1>6. /\ Append(c, Last(subs)) \in Seq(SubType) /\ Len(Append(c, Last(subs))) = Len(c) + 1
      /\ \A k \in 1..Len(c) : Append(c, Last(subs))[k] = c[k]
      /\ Append(c, Last(subs))[Len(c) + 1] = Last(subs)
  BY <1>4, <1>5, AppendFacts
<1>7. subs' = Append(c, Last(subs))  BY DEF Replace, c
<1>8. /\ subs' \in Seq(SubType) /\ Len(subs') = Len(subs)
      /\ \A k \in 1..Len(subs) - 1 : subs'[k] = c[k]
      /\ subs'[Len(subs)] = subs[Len(subs)]
  BY <1>2, <1>4, <1>5, <1>6, <1>7
<1>9. ASSUME NEW i \in 1..Len(subs)
      PROVE  /\ subs'[i].ch = subs[i].ch
             /\ subs'[i].state = "open" => i = Len(subs) /\ subs[i].state = "open"
  <2>1. CASE i = Len(subs)  BY <1>8, <2>1
  <2>2. CASE i # Len(subs)
    <3>1. i \in 1..Len(subs) - 1  BY <1>2, <2>2
    <3> QED BY <1>4, <1>8, <3>1
  <2> QED BY <2>1, <2>2
<1> QED BY <1>1, <1>2, <1>8, <1>9

LEMMA ReplaceWait == ASSUME WaitInv, Replace PROVE WaitInv'
<1>1. StreamTypeOK /\ HandlingInv  BY DEF WaitInv
<1>2. /\ subs # <<>> /\ subs' \in Seq(SubType) /\ Len(subs') = Len(subs) /\ Len(subs) \in Nat \ {0}
      /\ subs'[Len(subs)] = subs[Len(subs)]
      /\ \A i \in 1..Len(subs) : subs'[i].ch = subs[i].ch
      /\ handling'[1] = handling[1] /\ handling'[2] = "answer" /\ handling' \in HandlingType
      /\ handling[2] = "replace"
  BY <1>1, ReplaceFacts
<1>3. UNCHANGED <<log, reqs, data, ctrl, connected, client, view, breaks>>  BY DEF Replace
<1>4. DOMAIN subs' = 1..Len(subs) /\ subs' # <<>>  BY <1>2, SeqFacts
<1>5. \A i \in DOMAIN subs' : Len(subs'[i].ch) <= Buffer  BY <1>1, <1>2, <1>4, SubsFacts
<1>6. StreamTypeOK'  BY <1>1, <1>2, <1>3, <1>5 DEF StreamTypeOK, HandlingType, SubType
<1>7. Live(Last(subs')) /\ SubLive'
  <2>1. Live(Last(subs))  BY <1>2 DEF HandlingInv, Handling, WaitInv
  <2>2. Last(subs') = Last(subs)  BY <1>2 DEF Last
  <2>3. Live(subs'[Len(subs)]) /\ Len(subs) \in DOMAIN subs'  BY <1>2, <1>4, <2>1 DEF Last
  <2> QED BY <2>1, <2>2, <2>3 DEF SubLive
<1>8. HandlingInv'  BY <1>1, <1>2, <1>4, <1>7 DEF HandlingInv, Handling
<1>9. IdleInv' /\ HereInv' /\ ReqInv' /\ AliveInv'
  BY <1>2, <1>3, <1>7 DEF WaitInv, IdleInv, HereInv, ReqInv, AliveInv, Handling
<1>10. TurnInv'
  <2>1. \A x : Turn(x, reqs, handling, data) => Turn(x, reqs, handling', data)
    BY <1>2 DEF Turn
  <2> QED BY <1>3, <2>1 DEF WaitInv, TurnInv, Waits
<1>11. LoneInv'
  <2>1. \A x : Lone(x, reqs, handling, data) => Lone(x, reqs, handling', data)
    BY <1>2 DEF Lone
  <2> QED BY <1>3, <2>1 DEF WaitInv, LoneInv
<1> QED BY <1>6, <1>8, <1>9, <1>10, <1>11 DEF WaitInv

LEMMA RespondFacts ==
    ASSUME StreamTypeOK, handling[2] = "answer", Len(data) < Outbox, data' = Append(data, handling[1])
    PROVE  /\ data' \in Seq(Answer) /\ Len(data') = Len(data) + 1 /\ Len(data) \in Nat
           /\ DOMAIN data' = 1..Len(data) + 1 /\ DOMAIN data = 1..Len(data)
           /\ \A k \in 1..Len(data) : data'[k] = data[k]
           /\ data'[Len(data) + 1] = handling[1] /\ Len(data') <= Outbox
<1>1. data \in Seq(Answer) /\ handling[1] \in Answer  BY TypeFacts
<1>2. /\ data' \in Seq(Answer) /\ Len(data') = Len(data) + 1 /\ Len(data) \in Nat
      /\ DOMAIN data' = 1..Len(data) + 1 /\ DOMAIN data = 1..Len(data)
      /\ \A k \in 1..Len(data) : data'[k] = data[k]
      /\ data'[Len(data) + 1] = handling[1]
  BY <1>1, AppendFacts
<1> QED BY <1>2, Bounds

LEMMA RespondWait == ASSUME WaitInv, Respond PROVE WaitInv'
<1>1. StreamTypeOK  BY DEF WaitInv
<1>2. handling[2] = "answer" /\ UNCHANGED <<log, breaks>>  BY DEF Respond
<1>3. CASE Len(data) < Outbox
  <2>1. /\ data' = Append(data, handling[1]) /\ handling' = <<NoAnswer, "none">>
        /\ UNCHANGED <<subs, reqs, ctrl, connected, client, view>>
    BY <1>3 DEF Respond
  <2>2. /\ data' \in Seq(Answer) /\ Len(data') = Len(data) + 1 /\ Len(data) \in Nat
        /\ DOMAIN data' = 1..Len(data) + 1 /\ DOMAIN data = 1..Len(data)
        /\ \A k \in 1..Len(data) : data'[k] = data[k]
        /\ data'[Len(data) + 1] = handling[1] /\ Len(data') <= Outbox
    BY <1>1, <1>2, <1>3, <2>1, RespondFacts
  <2>3. handling' \in HandlingType /\ handling'[1].id = 0 /\ handling'[2] = "none"
    BY <1>1, <2>1, TypeFacts, Literals
  <2>4. StreamTypeOK'  BY <1>1, <1>2, <2>1, <2>2, <2>3 DEF StreamTypeOK, HandlingType
  <2>5. connected  BY <1>2 DEF WaitInv, IdleInv, Handling
  <2>6. IdleInv' /\ HereInv' /\ ReqInv' /\ AliveInv'
    BY <2>1, <2>5 DEF WaitInv, IdleInv, HereInv, ReqInv, AliveInv, SubLive, Waits
  <2>7. HandlingInv'  BY <2>3 DEF HandlingInv, Handling
  <2>8. TurnInv'
    <3> SUFFICES ASSUME client.syncing # 0
                 PROVE  Turn(client.syncing, reqs, handling', Append(data, handling[1]))
      BY <2>1 DEF TurnInv, Waits
    <3>1. Turn(client.syncing, reqs, handling, data)  BY DEF WaitInv, TurnInv, Waits
    <3>2. handling[1] \in Answer /\ data \in Seq(Answer) /\ handling[2] # "none"
      BY <1>1, <1>2, TypeFacts
    <3> QED BY <2>3, <3>1, <3>2, TurnRespond
  <2>9. LoneInv'
    <3> SUFFICES ASSUME client.synced
                 PROVE  client.here /\ Lone(client.syncing, reqs, handling', data')
      BY <2>1 DEF LoneInv
    <3>1. client.here /\ Lone(client.syncing, reqs, handling, data)  BY DEF WaitInv, LoneInv
    <3>2. handling[1].id = client.syncing  BY <1>2, <3>1 DEF Lone
    <3>3. ASSUME NEW k \in DOMAIN data' PROVE data'[k].id \in {0, client.syncing}
      <4>1. CASE k = Len(data) + 1  BY <2>2, <3>2, <4>1
      <4>2. CASE k # Len(data) + 1
        <5>1. k \in 1..Len(data)  BY <2>2, <4>2
        <5> QED BY <2>2, <3>1, <5>1 DEF Lone
      <4> QED BY <4>1, <4>2
    <3> QED BY <2>3, <3>1, <3>3 DEF Lone
  <2> QED BY <2>4, <2>6, <2>7, <2>8, <2>9 DEF WaitInv
<1>4. CASE ~(Len(data) < Outbox)
  <2>1. LoseConnection  BY <1>4 DEF Respond
  <2>2. log' \in [epoch : Epochs, last : Seqs, evicted : Seqs] /\ log'.evicted <= log'.last
        /\ breaks' \in 0..MaxBreaks
    BY <1>1, <1>2 DEF StreamTypeOK
  <2> QED BY <2>1, <2>2, LoseWait
<1> QED BY <1>3, <1>4

LEMMA UnsubscribeFacts ==
    ASSUME StreamTypeOK, HandleUnsubscribe
    PROVE  /\ reqs # <<>> /\ Head(reqs) = Unsubscribe /\ handling[2] = "none"
           /\ reqs' = Tail(reqs) /\ reqs' \in Seq(Request)
           /\ subs' \in Seq(SubType) /\ Len(subs') = Len(subs) /\ DOMAIN subs' = 1..Len(subs)
           /\ \A i \in 1..Len(subs) : /\ subs'[i].ch = subs[i].ch
                                      /\ subs'[i].state # "open" /\ Len(subs'[i].ch) <= Buffer
<1> USE TypeFacts
<1>1. reqs # <<>> /\ Tail(reqs) \in Seq(Request)  BY TailFacts DEF HandleUnsubscribe
<1>2. subs' = CancelOpen(subs)  BY DEF HandleUnsubscribe
<1>3. /\ subs' \in Seq(SubType) /\ Len(subs') = Len(subs)
      /\ \A i \in 1..Len(subs) : /\ subs'[i].ch = subs[i].ch
                                 /\ subs'[i].state = IF subs[i].state = "open" THEN "cancelled" ELSE subs[i].state
  BY <1>2, CancelFacts
<1>4. DOMAIN subs' = 1..Len(subs)  BY <1>3, SeqFacts
<1>5. \A i \in 1..Len(subs) : Len(subs[i].ch) <= Buffer  BY SubsFacts
<1> QED BY <1>1, <1>3, <1>4, <1>5 DEF HandleUnsubscribe

LEMMA UnsubscribeWait == ASSUME WaitInv, HandleUnsubscribe PROVE WaitInv'
<1>1. StreamTypeOK  BY DEF WaitInv
<1>2. /\ reqs # <<>> /\ Head(reqs) = Unsubscribe /\ handling[2] = "none"
      /\ reqs' = Tail(reqs) /\ reqs' \in Seq(Request)
      /\ subs' \in Seq(SubType) /\ Len(subs') = Len(subs) /\ DOMAIN subs' = 1..Len(subs)
      /\ \A i \in 1..Len(subs) : Len(subs'[i].ch) <= Buffer
  BY <1>1, UnsubscribeFacts
<1>3. UNCHANGED <<log, handling, data, ctrl, connected, client, view, breaks>>  BY DEF HandleUnsubscribe
<1>4. StreamTypeOK'  BY <1>1, <1>2, <1>3 DEF StreamTypeOK, SubType
<1>5. /\ \A k \in DOMAIN reqs' : \E j \in DOMAIN reqs : reqs'[k] = reqs[j]
      /\ DOMAIN reqs = 1..Len(reqs) /\ Head(reqs) = reqs[1] /\ 1 \in DOMAIN reqs
      /\ reqs' # <<>> => Last(reqs') = Last(reqs)
      /\ reqs' = <<>> => Last(reqs) = Head(reqs)
  BY <1>1, <1>2, TypeFacts, TailPart, TailFacts
<1>6. Head(reqs).id = 0  BY <1>2 DEF Unsubscribe
<1>7. connected  BY <1>2 DEF WaitInv, IdleInv
<1>8. IdleInv' /\ HereInv' /\ HandlingInv'
  BY <1>2, <1>3, <1>7 DEF WaitInv, IdleInv, HereInv, HandlingInv, Handling
<1>9. ReqInv'  BY <1>2, <1>3, <1>5 DEF WaitInv, ReqInv
<1>10. TurnInv'
  <2> SUFFICES ASSUME client.syncing # 0
               PROVE  Turn(client.syncing, Tail(reqs), handling, data)
    BY <1>2, <1>3 DEF TurnInv, Waits
  <2>1. Turn(client.syncing, reqs, handling, data)  BY DEF WaitInv, TurnInv, Waits
  <2> QED BY <1>1, <1>2, <1>6, <2>1, TypeFacts, TurnSkip
<1>11. LoneInv'
  <2>1. ~client.synced
    <3> SUFFICES ASSUME client.synced PROVE FALSE  OBVIOUS
    <3>1. Lone(client.syncing, reqs, handling, data)  BY DEF WaitInv, LoneInv
    <3> QED BY <1>5, <1>6, <3>1 DEF Lone
  <2> QED BY <1>3, <2>1 DEF LoneInv
<1>12. AliveInv'
  <2> SUFFICES ASSUME client.here PROVE reqs' # <<>>  BY <1>3 DEF AliveInv
  <2>1. Last(reqs).id # 0  BY <1>2 DEF WaitInv, ReqInv
  <2> QED BY <1>5, <1>6, <2>1
<1> QED BY <1>4, <1>8, <1>9, <1>10, <1>11, <1>12 DEF WaitInv

LEMMA ForwardFacts ==
    ASSUME StreamTypeOK, NEW i, Forward(i)
    PROVE  /\ i \in 1..Len(subs) /\ Len(subs) \in Nat /\ Running(i) /\ subs[i].ch # <<>>
           /\ Head(subs[i].ch) \in Seqs /\ Head(subs[i].ch) = subs[i].ch[1]
           /\ Event(Head(subs[i].ch)) \in Answer /\ IsEvent(Event(Head(subs[i].ch)))
           /\ data' \in Seq(Answer) /\ Len(data') = Len(data) + 1 /\ Len(data) \in Nat
           /\ DOMAIN data' = 1..Len(data) + 1 /\ DOMAIN data = 1..Len(data)
           /\ \A k \in 1..Len(data) : data'[k] = data[k]
           /\ data' = Append(data, Event(Head(subs[i].ch)))
           /\ data'[Len(data) + 1] = Event(Head(subs[i].ch)) /\ Len(data') <= Outbox
           /\ subs' \in Seq(SubType) /\ Len(subs') = Len(subs) /\ DOMAIN subs' = 1..Len(subs)
           /\ \A j \in 1..Len(subs) :
                 /\ subs'[j].state = subs[j].state
                 /\ subs'[j].ch = IF j = i THEN Tail(subs[i].ch) ELSE subs[j].ch
                 /\ Len(subs'[j].ch) <= Buffer
<1> USE TypeFacts
<1>1. /\ i \in 1..Len(subs) /\ Running(i) /\ subs[i].ch # <<>> /\ Len(data) < Outbox
      /\ data' = Append(data, Event(Head(subs[i].ch)))
      /\ subs' = [subs EXCEPT ![i].ch = Tail(@)]
      /\ Len(subs) \in Nat /\ subs[i] \in SubType /\ subs[i].ch \in Seq(Seqs)
      /\ \A j \in 1..Len(subs) : subs[j] \in SubType /\ Len(subs[j].ch) <= Buffer
      /\ DOMAIN subs = 1..Len(subs)
  BY SubsFacts DEF Forward
<1>2. /\ Head(subs[i].ch) \in Seqs /\ Head(subs[i].ch) = subs[i].ch[1] /\ Tail(subs[i].ch) \in Seq(Seqs)
      /\ Len(Tail(subs[i].ch)) = Len(subs[i].ch) - 1 /\ Len(subs[i].ch) \in Nat
  BY <1>1, TailFacts
<1>3. Event(Head(subs[i].ch)) \in Answer /\ IsEvent(Event(Head(subs[i].ch)))  BY <1>2, Literals
<1>4. /\ data' \in Seq(Answer) /\ Len(data') = Len(data) + 1 /\ Len(data) \in Nat
      /\ DOMAIN data' = 1..Len(data) + 1 /\ DOMAIN data = 1..Len(data)
      /\ \A k \in 1..Len(data) : data'[k] = data[k]
      /\ data'[Len(data) + 1] = Event(Head(subs[i].ch))
  BY <1>1, <1>3, AppendFacts
<1>5. Len(data') <= Outbox  BY <1>1, <1>4, Bounds
<1> DEFINE e == [subs[i] EXCEPT !.ch = Tail(subs[i].ch)]
<1>6. e \in SubType /\ e.ch = Tail(subs[i].ch) /\ e.state = subs[i].state
  BY <1>1, <1>2 DEF SubType
<1>7. subs' = [subs EXCEPT ![i] = e]  BY <1>1
<1> HIDE DEF e
<1>8. /\ subs' \in Seq(SubType) /\ Len(subs') = Len(subs)
      /\ \A j \in 1..Len(subs) : subs'[j] = IF j = i THEN e ELSE subs[j]
  <2> DEFINE t == [subs EXCEPT ![i] = e]
  <2>1. subs \in Seq(SubType) /\ i \in 1..Len(subs)  BY <1>1
  <2>2. /\ t \in Seq(SubType) /\ Len(t) = Len(subs)
        /\ \A j \in 1..Len(subs) : t[j] = IF j = i THEN e ELSE subs[j]
    BY <1>6, <2>1, ExceptSeq
  <2> QED BY <1>7, <2>2
<1>9. DOMAIN subs' = 1..Len(subs)  BY <1>8, SeqFacts
<1>10. Len(subs[i].ch) <= Buffer /\ Len(e.ch) <= Buffer
  <2>1. Len(subs[i].ch) <= Buffer /\ Len(subs[i].ch) \in Nat  BY <1>1, <1>2
  <2>2. Len(e.ch) = Len(subs[i].ch) - 1  BY <1>2, <1>6
  <2>3. Buffer \in Nat  BY Bounds
  <2> QED BY ONLY <2>1, <2>2, <2>3
<1>11. ASSUME NEW j \in 1..Len(subs)
       PROVE /\ subs'[j].state = subs[j].state
             /\ subs'[j].ch = IF j = i THEN Tail(subs[i].ch) ELSE subs[j].ch
             /\ Len(subs'[j].ch) <= Buffer
  <2>1. CASE j = i  BY <1>6, <1>8, <1>10, <2>1
  <2>2. CASE j # i  BY <1>1, <1>8, <2>2
  <2> QED BY <2>1, <2>2
<1> QED BY <1>1, <1>2, <1>3, <1>4, <1>5, <1>8, <1>9, <1>11

LEMMA ForwardWait == ASSUME WaitInv, NEW i, Forward(i) PROVE WaitInv'
<1>1. StreamTypeOK  BY DEF WaitInv
<1> DEFINE e == Event(Head(subs[i].ch))
<1>2. /\ i \in 1..Len(subs) /\ Len(subs) \in Nat /\ e \in Answer /\ IsEvent(e)
      /\ data' \in Seq(Answer) /\ Len(data') = Len(data) + 1 /\ Len(data) \in Nat
      /\ DOMAIN data' = 1..Len(data) + 1 /\ DOMAIN data = 1..Len(data)
      /\ \A k \in 1..Len(data) : data'[k] = data[k]
      /\ data' = Append(data, e)
      /\ data'[Len(data) + 1] = e /\ Len(data') <= Outbox
      /\ subs' \in Seq(SubType) /\ Len(subs') = Len(subs) /\ DOMAIN subs' = 1..Len(subs)
      /\ \A j \in 1..Len(subs) : subs'[j].state = subs[j].state /\ Len(subs'[j].ch) <= Buffer
  BY <1>1, ForwardFacts
<1> HIDE DEF e
<1>3. UNCHANGED <<log, handling, reqs, ctrl, connected, client, view, breaks>>  BY DEF Forward
<1>4. StreamTypeOK'  BY <1>1, <1>2, <1>3 DEF StreamTypeOK, SubType
<1>5. subs # <<>>  BY <1>1, <1>2, SubsFacts, EmptySeq
<1>6. connected  BY <1>5 DEF WaitInv, IdleInv
<1>7. /\ SubLive => SubLive'
      /\ (subs' = <<>>) <=> (subs = <<>>)
      /\ subs # <<>> /\ Live(Last(subs)) => Live(Last(subs'))
  <2>1. subs \in Seq(SubType)  BY <1>1, TypeFacts
  <2>2. \A j \in 1..Len(subs) : Live(subs[j]) => Live(subs'[j])  BY <1>2 DEF Live
  <2> QED BY <1>2, <2>1, <2>2, LiveFrame
<1>8. IdleInv' /\ HereInv' /\ ReqInv' /\ AliveInv' /\ HandlingInv'
  BY <1>3, <1>6, <1>7 DEF WaitInv, IdleInv, HereInv, ReqInv, AliveInv, HandlingInv, Handling, Waits
<1>9. TurnInv'
  <2> SUFFICES ASSUME client.syncing # 0
               PROVE  Turn(client.syncing, reqs, handling, Append(data, e))
    BY <1>2, <1>3 DEF TurnInv, Waits
  <2>1. Turn(client.syncing, reqs, handling, data)  BY DEF WaitInv, TurnInv, Waits
  <2>2. e.id = 0 /\ data \in Seq(Answer)  BY <1>1, <1>2, TypeFacts DEF IsEvent
  <2> QED BY <1>2, <2>1, <2>2, TurnEvent
<1>10. LoneInv'
  <2> SUFFICES ASSUME client.synced
               PROVE  client.here /\ Lone(client.syncing, reqs, handling, data')
    BY <1>3 DEF LoneInv
  <2>1. client.here /\ Lone(client.syncing, reqs, handling, data)  BY DEF WaitInv, LoneInv
  <2>2. ASSUME NEW k \in DOMAIN data' PROVE data'[k].id \in {0, client.syncing}
    <3>1. CASE k = Len(data) + 1  BY <1>2, <3>1 DEF IsEvent
    <3>2. CASE k # Len(data) + 1
      <4>1. k \in 1..Len(data)  BY <1>2, <3>2
      <4> QED BY <1>2, <2>1, <4>1 DEF Lone
    <3> QED BY <3>1, <3>2
  <2> QED BY <2>1, <2>2 DEF Lone
<1> QED BY <1>4, <1>8, <1>9, <1>10 DEF WaitInv

LEMMA EndFacts ==
    ASSUME StreamTypeOK, NEW i, End(i)
    PROVE  /\ i \in 1..Len(subs) /\ Len(subs) \in Nat /\ Running(i)
           /\ subs' \in Seq(SubType) /\ Len(subs') = Len(subs) - 1 /\ DOMAIN subs' = 1..Len(subs) - 1
           /\ \A j \in 1..Len(subs) - 1 : /\ subs'[j] = IF j < i THEN subs[j] ELSE subs[j + 1]
                                          /\ Len(subs'[j].ch) <= Buffer
           /\ Live(subs[i]) => ctrl'
           /\ ctrl' = (ctrl \/ Announces(i))
           /\ ctrl => ctrl'
           /\ ctrl' \in BOOLEAN
<1> USE TypeFacts
<1>1. /\ i \in 1..Len(subs) /\ Running(i) /\ Len(subs) \in Nat /\ subs \in Seq(SubType)
      /\ IF subs[i].ch # <<>> THEN Len(data) = Outbox ELSE subs[i].state # "open"
      /\ \A j \in 1..Len(subs) : Len(subs[j].ch) <= Buffer
      /\ subs' = RemoveAt(subs, i) /\ ctrl' = (ctrl \/ Announces(i))
  BY SubsFacts DEF End
<1>2. /\ subs' \in Seq(SubType) /\ Len(subs') = Len(subs) - 1
      /\ \A j \in 1..Len(subs) - 1 : subs'[j] = IF j < i THEN subs[j] ELSE subs[j + 1]
  BY <1>1, RemoveFacts
<1>3. DOMAIN subs' = 1..Len(subs) - 1  BY <1>2, SeqFacts
<1>4. ASSUME NEW j \in 1..Len(subs) - 1 PROVE Len(subs'[j].ch) <= Buffer
  <2>1. j \in 1..Len(subs) /\ j + 1 \in 1..Len(subs)  BY <1>1
  <2> QED BY <1>1, <1>2, <2>1
<1>5. Live(subs[i]) => Announces(i)  BY <1>1 DEF Live, Announces
<1>6. (ctrl \/ Announces(i)) \in BOOLEAN  BY DEF Announces
<1> QED BY <1>1, <1>2, <1>3, <1>4, <1>5, <1>6

LEMMA EndWait == ASSUME WaitInv, NEW i, End(i) PROVE WaitInv'
<1>1. StreamTypeOK  BY DEF WaitInv
<1>2. /\ i \in 1..Len(subs) /\ Len(subs) \in Nat /\ Running(i)
      /\ subs' \in Seq(SubType) /\ Len(subs') = Len(subs) - 1 /\ DOMAIN subs' = 1..Len(subs) - 1
      /\ \A j \in 1..Len(subs) - 1 : /\ subs'[j] = IF j < i THEN subs[j] ELSE subs[j + 1]
                                     /\ Len(subs'[j].ch) <= Buffer
      /\ Live(subs[i]) => ctrl'
      /\ ctrl => ctrl'
      /\ ctrl' \in BOOLEAN
  BY <1>1, EndFacts
<1>3. UNCHANGED <<log, handling, reqs, data, connected, client, view, breaks>>  BY DEF End
<1>4. StreamTypeOK'  BY <1>1, <1>2, <1>3 DEF StreamTypeOK, SubType
<1>5. subs # <<>> /\ DOMAIN subs = 1..Len(subs)  BY <1>1, <1>2, SubsFacts, EmptySeq
<1>6. connected  BY <1>5 DEF WaitInv, IdleInv
<1>7. IdleInv' /\ HereInv' /\ ReqInv' /\ TurnInv' /\ LoneInv'
  BY <1>3, <1>6 DEF WaitInv, IdleInv, HereInv, ReqInv, TurnInv, LoneInv, Waits
<1>8. HandlingInv'
  <2>1. CASE ~Handling  BY <1>3, <2>1 DEF WaitInv, HandlingInv, Handling
  <2>2. CASE Handling
    <3>1. i < Len(subs)  BY <1>2, <2>2 DEF Running, Handling
    <3>2. subs'[Len(subs) - 1] = subs[Len(subs)] /\ Len(subs) - 1 \in 1..Len(subs) - 1
      BY <1>2, <3>1
    <3>3. Last(subs') = Last(subs) /\ subs' # <<>>  BY <1>2, <3>2, SeqFacts DEF Last
    <3> QED BY <1>3, <2>2, <3>3 DEF WaitInv, HandlingInv, Handling
  <2> QED BY <2>1, <2>2
<1>9. AliveInv'
  <2> SUFFICES ASSUME client.here, ~ctrl', reqs = <<>>, ~(Waits /\ client.queued)
               PROVE  SubLive'
    BY <1>3 DEF AliveInv, Waits
  <2>1. ~ctrl  BY <1>2
  <2>2. SubLive  BY <1>6, <2>1 DEF WaitInv, AliveInv
  <2>3. PICK k \in 1..Len(subs) : Live(subs[k])  BY <1>5, <2>2 DEF SubLive
  <2>4. k # i  BY <1>2, <2>3
  <2>5. CASE k < i
    <3>1. k \in 1..Len(subs) - 1 /\ subs'[k] = subs[k]  BY <1>2, <2>5
    <3> QED BY <1>2, <2>3, <3>1 DEF SubLive
  <2>6. CASE k > i
    <3>1. k - 1 \in 1..Len(subs) - 1 /\ ~(k - 1 < i) /\ k - 1 + 1 = k  BY <1>2, <2>6
    <3>2. subs'[k - 1] = subs[k]  BY <1>2, <3>1
    <3> QED BY <1>2, <2>3, <3>1, <3>2 DEF SubLive
  <2> QED BY <1>2, <2>4, <2>5, <2>6
<1> QED BY <1>4, <1>7, <1>8, <1>9 DEF WaitInv

-----------------------------------------------------------------------------
LEMMA TypePieces ==
    ASSUME WaitInv
    PROVE  /\ client \in ClientType /\ view \in ViewType /\ Len(client.pending) <= Pending
           /\ ctrl \in BOOLEAN /\ connected \in BOOLEAN /\ breaks \in 0..MaxBreaks
           /\ reqs \in Seq(Request) /\ data \in Seq(Answer) /\ StreamTypeOK
           /\ client.seq \in Seqs /\ client.pending \in Seq(Seqs)
           /\ client.synced \in BOOLEAN /\ client.here \in BOOLEAN
           /\ client.queued \in BOOLEAN /\ client.retry \in BOOLEAN
<1>1. StreamTypeOK  BY DEF WaitInv
<1>2. client \in ClientType  BY <1>1, TypeFacts
<1>3. /\ client.seq \in Seqs /\ client.pending \in Seq(Seqs)
      /\ client.synced \in BOOLEAN /\ client.here \in BOOLEAN
      /\ client.queued \in BOOLEAN /\ client.retry \in BOOLEAN
  BY <1>2 DEF ClientType
<1>4. ctrl \in BOOLEAN /\ connected \in BOOLEAN /\ Len(client.pending) <= Pending
  BY <1>1 DEF StreamTypeOK
<1> QED BY <1>1, <1>2, <1>3, <1>4, TypeFacts

LEMMA ConnectWait == ASSUME WaitInv, Connect PROVE WaitInv'
<1>1. /\ ~connected /\ connected' /\ connected' \in BOOLEAN
      /\ UNCHANGED <<log, subs, handling, data, ctrl, view, breaks>>
  BY DEF Connect
<1> USE TypePieces
<1>2. /\ client.syncing = 0 /\ ~client.synced /\ reqs = <<>>  BY <1>1 DEF WaitInv, IdleInv
<1>3. CASE client.here
  <2> DEFINE c == [client EXCEPT !.synced = FALSE]
  <2>1. Sync(c)  BY <1>3 DEF Connect
  <2>2. c \in ClientType /\ c.here /\ c.syncing = 0 /\ ~c.synced /\ c.pending = client.pending
    BY <1>2, <1>3 DEF ClientType
  <2> HIDE DEF c
  <2> QED BY <1>1, <2>1, <2>2, SyncStep
<1>4. CASE ~client.here
  <2>1. UNCHANGED <<client, reqs>>  BY <1>4 DEF Connect
  <2>2. StreamTypeOK'  BY <1>1, <2>1 DEF StreamTypeOK
  <2>3. IdleInv' /\ HereInv' /\ HandlingInv' /\ ReqInv' /\ TurnInv' /\ LoneInv' /\ AliveInv'
    BY <1>1, <1>4, <2>1
    DEF WaitInv, IdleInv, HereInv, HandlingInv, ReqInv, TurnInv, LoneInv, AliveInv, Handling, Waits
  <2> QED BY <2>2, <2>3 DEF WaitInv
<1> QED BY <1>3, <1>4

LEMMA ReceiveResetWait == ASSUME WaitInv, ReceiveReset PROVE WaitInv'
<1>1. /\ ctrl /\ ~ctrl' /\ ctrl' \in BOOLEAN
      /\ UNCHANGED <<log, subs, handling, data, connected, view, breaks>>
  BY DEF ReceiveReset
<1> USE TypePieces
<1>2. connected  BY <1>1 DEF WaitInv, IdleInv
<1>3. CASE client.here
  <2> DEFINE c == [client EXCEPT !.retry = FALSE]
  <2>1. Sync(c)  BY <1>3 DEF ReceiveReset
  <2>2. /\ c \in ClientType /\ c.here /\ c.syncing = client.syncing /\ c.synced = client.synced
        /\ c.pending = client.pending
    BY <1>3 DEF ClientType
  <2> HIDE DEF c
  <2>3. c.syncing # 0 => Turn(client.syncing, reqs, handling, data')
    BY <1>1, <2>2 DEF WaitInv, TurnInv, Waits
  <2>4. c.synced => Lone(c.syncing, reqs, handling, data')
    BY <1>1, <2>2 DEF WaitInv, LoneInv
  <2> QED BY <1>1, <1>2, <1>3, <2>1, <2>2, <2>3, <2>4, SyncStep
<1>4. CASE ~client.here
  <2>1. UNCHANGED <<client, reqs>>  BY <1>4 DEF ReceiveReset
  <2>2. StreamTypeOK'  BY <1>1, <2>1 DEF StreamTypeOK
  <2>3. IdleInv' /\ HereInv' /\ HandlingInv' /\ ReqInv' /\ TurnInv' /\ LoneInv' /\ AliveInv'
    BY <1>1, <1>2, <1>4, <2>1
    DEF WaitInv, IdleInv, HereInv, HandlingInv, ReqInv, TurnInv, LoneInv, AliveInv, Handling, Waits
  <2> QED BY <2>2, <2>3 DEF WaitInv
<1> QED BY <1>3, <1>4

LEMMA NobodyIdle == ~Nobody.synced /\ Nobody.syncing = 0 /\ ~Nobody.queued /\ ~Nobody.retry
                    /\ Nobody.pending = <<>> /\ ~Nobody.here
                    /\ ~Newcomer.synced /\ Newcomer.syncing = 0 /\ ~Newcomer.queued /\ ~Newcomer.retry
                    /\ Newcomer.pending = <<>> /\ Newcomer.here
                    /\ Newcomer.seq = 0 /\ Newcomer.epoch = 0 /\ Nobody.seq = 0 /\ Nobody.epoch = 0
BY DEF Nobody, Newcomer

LEMMA TimeOutWait == ASSUME WaitInv, TimeOut PROVE WaitInv'
<1>1. /\ client.syncing # 0 /\ UNCHANGED <<log, subs, handling, data, ctrl, connected, view>>
      /\ Break
  BY DEF TimeOut
<1> USE TypePieces
<1>2. connected /\ client.here  BY <1>1, NobodyIdle DEF WaitInv, IdleInv, HereInv
<1>3. breaks' \in 0..MaxBreaks  BY <1>1, BreakType
<1> DEFINE c == [client EXCEPT !.syncing = 0, !.synced = FALSE]
<1>4. /\ c \in ClientType /\ c.here /\ c.syncing = 0 /\ ~c.synced /\ c.pending = client.pending
      /\ c.queued = client.queued
  BY <1>2, Bounds DEF ClientType
<1>5. CASE client.queued
  <2>1. Sync(c)  BY <1>5 DEF TimeOut
  <2> HIDE DEF c
  <2> QED BY <1>1, <1>2, <1>3, <1>4, <2>1, SyncStep
<1>6. CASE ~client.queued
  <2>1. client' = [c EXCEPT !.retry = TRUE] /\ UNCHANGED reqs  BY <1>6 DEF TimeOut
  <2> HIDE DEF c
  <2>2. /\ client' \in ClientType /\ client'.here /\ client'.syncing = 0 /\ ~client'.synced
        /\ client'.pending = client.pending
    BY <1>4, <2>1 DEF ClientType
  <2>3. StreamTypeOK'  BY <1>1, <1>3, <2>1, <2>2 DEF StreamTypeOK, ClientType
  <2>4. IdleInv' /\ HereInv' /\ HandlingInv' /\ TurnInv' /\ LoneInv'
    BY <1>1, <1>2, <2>1, <2>2 DEF WaitInv, IdleInv, HereInv, HandlingInv, TurnInv, LoneInv, Handling, Waits
  <2>5. ReqInv'  BY <1>2, <2>1 DEF WaitInv, ReqInv
  <2>6. AliveInv'  BY <1>1, <1>2, <1>6, <2>1 DEF WaitInv, AliveInv, SubLive
  <2> QED BY <2>3, <2>4, <2>5, <2>6 DEF WaitInv
<1> QED BY <1>5, <1>6

LEMMA RetryWait == ASSUME WaitInv, Retry PROVE WaitInv'
<1> DEFINE c == [client EXCEPT !.retry = FALSE]
<1>1. client.retry /\ Sync(c) /\ UNCHANGED <<log, subs, handling, data, ctrl, connected, view, breaks>>
  BY DEF Retry
<1> USE TypePieces
<1>2. connected /\ client.here  BY <1>1, NobodyIdle DEF WaitInv, IdleInv, HereInv
<1>3. /\ c \in ClientType /\ c.here /\ c.syncing = client.syncing /\ c.synced = client.synced
      /\ c.pending = client.pending
  BY <1>2 DEF ClientType
<1> HIDE DEF c
<1>4. c.syncing # 0 => Turn(client.syncing, reqs, handling, data')
  BY <1>1, <1>3 DEF WaitInv, TurnInv, Waits
<1>5. c.synced => Lone(c.syncing, reqs, handling, data')
  BY <1>1, <1>3 DEF WaitInv, LoneInv
<1> QED BY <1>1, <1>2, <1>3, <1>4, <1>5, SyncStep

LEMMA LeaveWait == ASSUME WaitInv, Leave PROVE WaitInv'
<1>1. /\ client.here /\ Break /\ client' = Nobody
      /\ reqs' = IF connected THEN Append(reqs, Unsubscribe) ELSE reqs
      /\ UNCHANGED <<log, subs, handling, data, ctrl, connected, view>>
  BY DEF Leave
<1> USE TypePieces
<1>2. breaks' \in 0..MaxBreaks  BY <1>1, BreakType
<1>3. client' \in ClientType /\ Len(client'.pending) <= Pending
  BY <1>1, TypeFacts, Literals, NobodyIdle, EmptySeq, Bounds
<1>4. reqs' \in Seq(Request) /\ \A k \in DOMAIN reqs' : reqs'[k] = Unsubscribe \/ reqs'[k].id # 0
  <2>1. \A k \in DOMAIN reqs : reqs[k] = Unsubscribe \/ reqs[k].id # 0  BY DEF WaitInv, ReqInv
  <2>2. CASE ~connected  BY <1>1, <2>1, <2>2
  <2>3. CASE connected
    <3>1. Unsubscribe \in Request  BY TypeFacts, Literals
    <3>2. reqs' = Append(reqs, Unsubscribe)  BY <1>1, <2>3
    <3>3. /\ reqs' \in Seq(Request) /\ DOMAIN reqs' = 1..Len(reqs) + 1 /\ DOMAIN reqs = 1..Len(reqs)
          /\ Len(reqs) \in Nat
          /\ \A k \in 1..Len(reqs) : reqs'[k] = reqs[k]
          /\ reqs'[Len(reqs) + 1] = Unsubscribe
      BY <3>1, <3>2, AppendFacts
    <3>4. ASSUME NEW k \in DOMAIN reqs' PROVE reqs'[k] = Unsubscribe \/ reqs'[k].id # 0
      <4>1. CASE k = Len(reqs) + 1  BY <3>3, <4>1
      <4>2. CASE k # Len(reqs) + 1
        <5>1. k \in 1..Len(reqs)  BY <3>3, <4>2
        <5> QED BY <2>1, <3>3, <5>1
      <4> QED BY <4>1, <4>2
    <3> QED BY <3>3, <3>4
  <2> QED BY <2>2, <2>3
<1>5. StreamTypeOK'  BY <1>1, <1>2, <1>3, <1>4 DEF StreamTypeOK, ClientType
<1>6. HereInv' /\ HandlingInv' /\ ReqInv' /\ TurnInv' /\ LoneInv' /\ AliveInv'
  BY <1>1, <1>4, NobodyIdle
  DEF WaitInv, HereInv, HandlingInv, ReqInv, TurnInv, LoneInv, AliveInv, Handling, Waits
<1>7. IdleInv'  BY <1>1, NobodyIdle DEF WaitInv, IdleInv, Handling
<1> QED BY <1>5, <1>6, <1>7 DEF WaitInv

LEMMA ReturnWait == ASSUME WaitInv, Return PROVE WaitInv'
<1>1. ~client.here /\ UNCHANGED <<log, subs, handling, data, ctrl, connected, view, breaks>>
  BY DEF Return
<1> USE TypePieces
<1>2. Newcomer \in ClientType /\ Len(Newcomer.pending) <= Pending
  BY TypeFacts, Literals, NobodyIdle, EmptySeq, Bounds
<1>3. CASE connected
  <2>1. Sync(Newcomer)  BY <1>3 DEF Return
  <2>2. /\ Newcomer.here /\ ~(Newcomer.syncing # 0) /\ ~Newcomer.synced  BY NobodyIdle
  <2>3. UNCHANGED <<log, subs, handling>> /\ data' = data  BY <1>1
  <2>4. connected' /\ connected' \in BOOLEAN /\ ctrl' \in BOOLEAN /\ view' \in ViewType /\ breaks' \in 0..MaxBreaks
    BY <1>1, <1>3
  <2> QED BY <1>2, <2>1, <2>2, <2>3, <2>4, SyncStep
<1>4. CASE ~connected
  <2>1. client' = Newcomer /\ UNCHANGED reqs  BY <1>4 DEF Return
  <2>2. StreamTypeOK'  BY <1>1, <1>2, <2>1 DEF StreamTypeOK, ClientType
  <2>3. reqs = <<>>  BY <1>4 DEF WaitInv, IdleInv
  <2>4. IdleInv' /\ HereInv' /\ HandlingInv' /\ ReqInv' /\ TurnInv' /\ LoneInv' /\ AliveInv'
    BY <1>1, <1>4, <2>1, <2>3, NobodyIdle
    DEF WaitInv, IdleInv, HereInv, HandlingInv, ReqInv, TurnInv, LoneInv, AliveInv, Handling, Waits
  <2> QED BY <2>2, <2>4 DEF WaitInv
<1> QED BY <1>3, <1>4

LEMMA TailDataFacts ==
    ASSUME StreamTypeOK, data # <<>>, data' = Tail(data)
    PROVE  /\ Head(data) \in Answer /\ Head(data) = data[1] /\ 1 \in DOMAIN data
           /\ data' \in Seq(Answer) /\ Len(data) \in Nat \ {0} /\ Len(data') = Len(data) - 1
           /\ DOMAIN data' = 1..Len(data) - 1 /\ DOMAIN data = 1..Len(data)
           /\ \A k \in 1..Len(data) - 1 : data'[k] = data[k + 1] /\ k + 1 \in DOMAIN data
           /\ \A k \in DOMAIN data' : \E j \in DOMAIN data : data'[k] = data[j]
           /\ Len(data') <= Outbox
<1>1. data \in Seq(Answer)  BY TypeFacts
<1>2. /\ Head(data) \in Answer /\ Head(data) = data[1] /\ Len(data) \in Nat \ {0}
      /\ data' \in Seq(Answer) /\ Len(data') = Len(data) - 1
      /\ DOMAIN data' = 1..Len(data) - 1 /\ DOMAIN data = 1..Len(data)
      /\ \A k \in 1..Len(data) - 1 : data'[k] = data[k + 1]
  BY <1>1, TailFacts
<1>3. \A k \in DOMAIN data' : \E j \in DOMAIN data : data'[k] = data[j]  BY <1>1, TailPart
<1>4. 1 \in DOMAIN data /\ \A k \in 1..Len(data) - 1 : k + 1 \in DOMAIN data  BY <1>2
<1>5. Len(data) <= Outbox  BY DEF StreamTypeOK
<1>6. \A m, n \in Nat : m <= n /\ m # 0 => m - 1 <= n  OBVIOUS
<1>7. Len(data') <= Outbox  BY <1>2, <1>5, <1>6, Bounds
<1> QED BY <1>2, <1>3, <1>4, <1>7

LEMMA TailTurn ==
    ASSUME WaitInv, data # <<>>, data' = Tail(data), client.syncing # 0, Head(data).id # client.syncing
    PROVE  Turn(client.syncing, reqs, handling, data')
<1>1. Turn(client.syncing, reqs, handling, data)  BY DEF WaitInv, TurnInv, Waits
<1> QED BY <1>1, TypePieces, TurnTail

LEMMA TailLone ==
    ASSUME WaitInv, data # <<>>, data' = Tail(data), client.synced
    PROVE  client.here /\ Lone(client.syncing, reqs, handling, data')
<1>1. client.here /\ Lone(client.syncing, reqs, handling, data)  BY DEF WaitInv, LoneInv
<1>2. \A k \in DOMAIN data' : \E j \in DOMAIN data : data'[k] = data[j]
  BY TypePieces, TailDataFacts
<1> QED BY <1>1, <1>2 DEF Lone

(* A message that asks for no sync. *)
LEMMA TailStep ==
    ASSUME WaitInv, data # <<>>, data' = Tail(data),
           client.syncing # 0 => Head(data).id # client.syncing,
           UNCHANGED <<log, subs, handling, reqs, ctrl, connected, breaks>>,
           view' \in ViewType, client' \in ClientType, Len(client'.pending) <= Pending,
           client'.here = client.here, client'.synced = client.synced,
           client'.syncing = client.syncing, client'.queued = client.queued,
           ~client.here => client' = client
    PROVE  WaitInv'
<1>1. StreamTypeOK  BY DEF WaitInv
<1>2. data' \in Seq(Answer) /\ Len(data') <= Outbox  BY <1>1, TailDataFacts
<1>3. StreamTypeOK'  BY <1>1, <1>2 DEF StreamTypeOK, ClientType, ViewType
<1>4. connected  BY DEF WaitInv, IdleInv
<1>5. IdleInv' /\ HereInv' /\ HandlingInv' /\ ReqInv' /\ AliveInv'
  BY <1>4 DEF WaitInv, IdleInv, HereInv, HandlingInv, ReqInv, AliveInv, Handling, Waits, SubLive
<1>6. TurnInv'  BY TailTurn DEF TurnInv, Waits
<1>7. LoneInv'  BY TailLone DEF LoneInv
<1> QED BY <1>3, <1>5, <1>6, <1>7 DEF WaitInv

LEMMA ReceiveEventWait == ASSUME WaitInv, ReceiveEvent PROVE WaitInv'
<1> DEFINE s == Head(data).latest
           d == DeliverEvent([seq |-> client.seq, view |-> view, gap |-> FALSE], s)
<1>1. /\ data # <<>> /\ IsEvent(Head(data)) /\ data' = Tail(data)
      /\ UNCHANGED <<log, subs, handling, ctrl, connected, breaks>>
  BY DEF ReceiveEvent
<1>2. /\ client \in ClientType /\ view \in ViewType /\ Len(client.pending) <= Pending
      /\ StreamTypeOK /\ connected \in BOOLEAN /\ ctrl \in BOOLEAN /\ breaks \in 0..MaxBreaks
      /\ client.seq \in Seqs /\ client.pending \in Seq(Seqs)
  BY TypePieces
<1>3. s \in Seqs  BY <1>1, <1>2, TailDataFacts DEF Answer
<1>4. d \in PassType
  <2>1. [seq |-> client.seq, view |-> view, gap |-> FALSE] \in PassType  BY <1>2 DEF PassType
  <2> QED BY <1>2, <1>3, <2>1, DeliverType, TypeFacts
<1>5. connected  BY <1>1 DEF WaitInv, IdleInv
<1>6. client.syncing # 0 => Head(data).id # client.syncing  BY <1>1 DEF IsEvent
<1>7. CASE ~client.here
  <2>1. UNCHANGED <<client, view, reqs>>  BY <1>7 DEF ReceiveEvent
  <2> QED BY <1>1, <1>2, <1>6, <2>1, TailStep
<1>8. CASE client.here /\ ~client.synced
  <2>1. /\ client' = IF Len(client.pending) < Pending
                     THEN [client EXCEPT !.pending = Append(@, s)] ELSE client
        /\ UNCHANGED <<view, reqs>>
    BY <1>8 DEF ReceiveEvent
  <2>2. /\ Append(client.pending, s) \in Seq(Seqs) /\ Len(client.pending) \in Nat
        /\ Len(Append(client.pending, s)) = Len(client.pending) + 1
    BY <1>2, <1>3, AppendFacts
  <2>3. /\ client' \in ClientType /\ client'.here = client.here /\ client'.synced = client.synced
        /\ client'.syncing = client.syncing /\ client'.queued = client.queued
        /\ Len(client'.pending) <= Pending
    <3>1. CASE Len(client.pending) < Pending
      <4>1. client' = [client EXCEPT !.pending = Append(client.pending, s)]  BY <2>1, <3>1
      <4>2. /\ client' \in ClientType /\ client'.here = client.here /\ client'.synced = client.synced
            /\ client'.syncing = client.syncing /\ client'.queued = client.queued
            /\ client'.pending = Append(client.pending, s)
        BY <1>2, <2>2, <4>1 DEF ClientType
      <4>3. Len(client'.pending) = Len(client.pending) + 1  BY <2>2, <4>2
      <4> QED BY <2>2, <3>1, <4>2, <4>3, Bounds
    <3>2. CASE ~(Len(client.pending) < Pending)  BY <1>2, <2>1, <3>2
    <3> QED BY <3>1, <3>2
  <2> QED BY <1>1, <1>2, <1>6, <1>8, <2>1, <2>3, TailStep
<1>9. CASE client.here /\ client.synced
  <2>1. /\ view' = d.view
        /\ IF d.gap THEN Sync(client) ELSE client' = [client EXCEPT !.seq = d.seq] /\ UNCHANGED reqs
    BY <1>9 DEF ReceiveEvent
  <2> HIDE DEF d, s
  <2>2. view' \in ViewType /\ d.seq \in Seqs  BY <1>4, <2>1 DEF PassType
  <2>3. CASE d.gap
    <3>1. Sync(client)  BY <2>1, <2>3
    <3>2. client.syncing # 0 => Turn(client.syncing, reqs, handling, data')  BY <1>1, <1>6, TailTurn
    <3>3. Lone(client.syncing, reqs, handling, data')  BY <1>1, <1>9, TailLone
    <3>4. connected' /\ connected' \in BOOLEAN /\ ctrl' \in BOOLEAN /\ breaks' \in 0..MaxBreaks
      BY <1>1, <1>2, <1>5
    <3> QED BY <1>1, <1>2, <1>9, <2>2, <3>1, <3>2, <3>3, <3>4, SyncStep
  <2>4. CASE ~d.gap
    <3>1. client' = [client EXCEPT !.seq = d.seq] /\ UNCHANGED reqs  BY <2>1, <2>4
    <3>2. /\ client' \in ClientType /\ client'.here = client.here /\ client'.synced = client.synced
          /\ client'.syncing = client.syncing /\ client'.queued = client.queued
          /\ client'.pending = client.pending
      BY <1>2, <2>2, <3>1 DEF ClientType
    <3> QED BY <1>1, <1>2, <1>6, <1>9, <2>2, <3>1, <3>2, TailStep
  <2> QED BY <2>3, <2>4
<1> QED BY <1>7, <1>8, <1>9

(* The client that an answer leaves, before the next sync. *)
Pass(a) == Drained([seq |-> a.latest, view |-> ApplySync(a), gap |-> FALSE], client.pending)
Applied(a) == [client EXCEPT !.epoch = a.epoch, !.seq = Pass(a).seq, !.synced = TRUE,
                             !.syncing = 0, !.pending = <<>>,
                             !.from = IF a.whole THEN a.from ELSE @]

LEMMA AppliedFacts ==
    ASSUME StreamTypeOK, NEW a, a \in Answer
    PROVE  /\ Pass(a) \in PassType
           /\ Applied(a) \in ClientType /\ Applied(a).here = client.here
           /\ Applied(a).synced /\ Applied(a).syncing = 0 /\ Applied(a).pending = <<>>
           /\ Applied(a).queued = client.queued /\ Applied(a).retry = client.retry
           /\ Applied(a).epoch = a.epoch /\ Applied(a).seq = Pass(a).seq
           /\ Applied(a).from = IF a.whole THEN a.from ELSE client.from
<1>1. /\ client \in ClientType /\ view \in ViewType /\ client.pending \in Seq(Seqs)
      /\ log \in [epoch : Epochs, last : Seqs, evicted : Seqs]
  BY TypeFacts DEF ClientType
<1>2. [seq |-> a.latest, view |-> ApplySync(a), gap |-> FALSE] \in PassType
  <2>1. ApplySync(a) \in ViewType  BY <1>1, ApplyType
  <2> QED BY <2>1 DEF PassType, Answer
<1>3. Pass(a) \in PassType  BY <1>1, <1>2, DrainedType DEF Pass
<1>4. Pass(a).seq \in Seqs  BY <1>3 DEF PassType
<1> DEFINE f == IF a.whole THEN a.from ELSE client.from
<1>5. f \in Seqs /\ a.epoch \in Epochs  BY <1>1 DEF Answer, ClientType
<1>6. Applied(a) = [client EXCEPT !.epoch = a.epoch, !.seq = Pass(a).seq, !.synced = TRUE,
                                  !.syncing = 0, !.pending = <<>>, !.from = f]
  BY <1>1 DEF Applied, ClientType
<1> HIDE DEF f
<1>7. <<>> \in Seq(Seqs) /\ 0 \in Tickets  BY EmptySeq, Bounds
<1>8. /\ Applied(a) \in ClientType /\ Applied(a).here = client.here
      /\ Applied(a).synced /\ Applied(a).syncing = 0 /\ Applied(a).pending = <<>>
      /\ Applied(a).queued = client.queued /\ Applied(a).retry = client.retry
      /\ Applied(a).epoch = a.epoch /\ Applied(a).seq = Pass(a).seq
      /\ Applied(a).from = f
  BY <1>1, <1>4, <1>5, <1>6, <1>7 DEF ClientType
<1> QED BY <1>3, <1>8 DEF f

LEMMA AnswerCases ==
    ASSUME WaitInv, ReceiveAnswer
    PROVE  /\ data # <<>> /\ Head(data).id # 0 /\ Head(data) \in Answer /\ data' = Tail(data)
           /\ UNCHANGED <<log, subs, handling, ctrl, connected, breaks>> /\ connected
           /\ \/ Head(data).id # client.syncing /\ UNCHANGED <<client, view, reqs>>
              \/ /\ Head(data).id = client.syncing /\ client.here
                 /\ view' = Pass(Head(data)).view
                 /\ \/ Sync(Applied(Head(data))) /\ (client.queued \/ Pass(Head(data)).gap)
                    \/ client' = Applied(Head(data)) /\ UNCHANGED reqs /\ ~client.queued
                       /\ ~Pass(Head(data)).gap
                 /\ reqs = <<>> /\ handling[2] = "none"
                 /\ \A k \in DOMAIN data' : data'[k].id = 0
<1>1. /\ data # <<>> /\ Head(data).id # 0 /\ data' = Tail(data)
      /\ UNCHANGED <<log, subs, handling, ctrl, connected, breaks>>
      /\ IF Head(data).id # client.syncing THEN UNCHANGED <<client, view, reqs>>
         ELSE /\ view' = Pass(Head(data)).view
              /\ IF client.queued \/ Pass(Head(data)).gap THEN Sync(Applied(Head(data)))
                 ELSE client' = Applied(Head(data)) /\ UNCHANGED reqs
  BY DEF ReceiveAnswer, IsEvent, Pass, Applied
<1>2. connected  BY <1>1 DEF WaitInv, IdleInv
<1>3. Head(data) \in Answer  BY <1>1, TypePieces, TailDataFacts
<1>4. ASSUME Head(data).id = client.syncing
      PROVE  /\ client.here /\ reqs = <<>> /\ handling[2] = "none"
             /\ \A k \in DOMAIN data' : data'[k].id = 0
  <2>1. client.syncing # 0  BY <1>1, <1>4
  <2>2. client.here  BY <2>1, NobodyIdle DEF WaitInv, HereInv
  <2>3. Turn(client.syncing, reqs, handling, data)  BY <2>1 DEF WaitInv, TurnInv, Waits
  <2>4. /\ Head(data) = data[1] /\ 1 \in DOMAIN data /\ Len(data) \in Nat \ {0}
        /\ DOMAIN data' = 1..Len(data) - 1 /\ DOMAIN data = 1..Len(data)
        /\ \A k \in 1..Len(data) - 1 : data'[k] = data[k + 1] /\ k + 1 \in DOMAIN data
    BY <1>1, TypePieces, TailDataFacts
  <2>5. data[1].id = client.syncing  BY <1>4, <2>4
  <2>6. /\ reqs = <<>> /\ handling[2] = "none"
        /\ \E k \in DOMAIN data :
             /\ data[k].id = client.syncing /\ \A j \in 1..k - 1 : data[j].id # client.syncing
             /\ \A j \in k + 1..Len(data) : data[j].id = 0
    BY <2>3, <2>4, <2>5 DEF Turn
  <2>7. PICK k \in DOMAIN data :
             /\ data[k].id = client.syncing /\ \A j \in 1..k - 1 : data[j].id # client.syncing
             /\ \A j \in k + 1..Len(data) : data[j].id = 0
    BY <2>6
  <2>8. k = 1  BY <2>4, <2>5, <2>7
  <2>9. \A j \in 2..Len(data) : data[j].id = 0  BY <2>7, <2>8
  <2>10. ASSUME NEW j \in DOMAIN data' PROVE data'[j].id = 0
    <3>1. j \in 1..Len(data) - 1 /\ j + 1 \in 2..Len(data)  BY <2>4
    <3> QED BY <2>4, <2>9, <3>1
  <2> QED BY <2>2, <2>6, <2>10
<1> QED BY <1>1, <1>2, <1>3, <1>4

LEMMA ReceiveAnswerWait == ASSUME WaitInv, ReceiveAnswer PROVE WaitInv'
<1> DEFINE a == Head(data)
<1>1. /\ data # <<>> /\ a.id # 0 /\ a \in Answer /\ data' = Tail(data)
      /\ UNCHANGED <<log, subs, handling, ctrl, connected, breaks>> /\ connected
      /\ \/ a.id # client.syncing /\ UNCHANGED <<client, view, reqs>>
         \/ /\ a.id = client.syncing /\ client.here
            /\ view' = Pass(a).view
            /\ \/ Sync(Applied(a))
               \/ client' = Applied(a) /\ UNCHANGED reqs /\ ~client.queued
            /\ reqs = <<>> /\ handling[2] = "none"
            /\ \A k \in DOMAIN data' : data'[k].id = 0
  BY AnswerCases
<1>2. /\ client \in ClientType /\ view \in ViewType /\ Len(client.pending) <= Pending
      /\ StreamTypeOK /\ connected \in BOOLEAN /\ ctrl \in BOOLEAN /\ breaks \in 0..MaxBreaks
      /\ client.synced \in BOOLEAN
  BY TypePieces
<1>3. CASE a.id # client.syncing
  <2>1. UNCHANGED <<client, view, reqs>>  BY <1>1, <1>3
  <2> QED BY <1>1, <1>2, <1>3, <2>1, TailStep
<1>4. CASE a.id = client.syncing
  <2> DEFINE c == Applied(a)
  <2>1. /\ Pass(a) \in PassType
        /\ c \in ClientType /\ c.here = client.here
        /\ c.synced /\ c.syncing = 0 /\ c.pending = <<>>
        /\ c.queued = client.queued
    BY <1>1, <1>2, AppliedFacts
  <2>2. view' \in ViewType  BY <1>1, <1>4, <2>1 DEF PassType
  <2>3. Lone(0, reqs, handling, data')  BY <1>1, <1>4 DEF Lone
  <2>4. Len(c.pending) <= Pending /\ c.here  BY <1>1, <1>4, <2>1, EmptySeq, Bounds
  <2> HIDE DEF c
  <2>5. CASE Sync(c)
    <3>1. connected' /\ connected' \in BOOLEAN /\ ctrl' \in BOOLEAN /\ breaks' \in 0..MaxBreaks
      BY <1>1, <1>2
    <3> QED BY <1>1, <2>1, <2>2, <2>3, <2>4, <2>5, <3>1, SyncStep
  <2>6. CASE client' = c /\ UNCHANGED reqs /\ ~client.queued
    <3>1. data' \in Seq(Answer) /\ Len(data') <= Outbox  BY <1>1, <1>2, TailDataFacts
    <3>2. StreamTypeOK'  BY <1>1, <1>2, <2>1, <2>2, <2>4, <2>6, <3>1 DEF StreamTypeOK, ClientType, ViewType
    <3>3. IdleInv' /\ HereInv' /\ HandlingInv' /\ TurnInv' /\ ReqInv'
      BY <1>1, <1>4, <2>1, <2>4, <2>6
      DEF WaitInv, IdleInv, HereInv, HandlingInv, TurnInv, ReqInv, Handling, Waits
    <3>4. LoneInv'  BY <1>1, <2>1, <2>3, <2>4, <2>6 DEF LoneInv
    <3>5. AliveInv'  BY <1>1, <1>4, <2>6 DEF WaitInv, AliveInv, SubLive
    <3> QED BY <3>2, <3>3, <3>4, <3>5 DEF WaitInv
  <2> QED BY <1>1, <1>4, <2>5, <2>6 DEF c
<1> QED BY <1>3, <1>4

LEMMA WaitStart == StreamInit => WaitInv
<1> SUFFICES ASSUME StreamInit PROVE WaitInv  OBVIOUS
<1>1. /\ log = [epoch |-> 1, last |-> 0, evicted |-> 0] /\ subs = <<>> /\ reqs = <<>> /\ data = <<>>
      /\ handling = <<NoAnswer, "none">>
      /\ ~ctrl /\ ctrl \in BOOLEAN /\ ~connected /\ connected \in BOOLEAN
      /\ client = Newcomer /\ view = NewView /\ breaks = 0
  BY DEF StreamInit
<1>2. log \in [epoch : Epochs, last : Seqs, evicted : Seqs] /\ log.evicted <= log.last
  BY <1>1, Bounds DEF Epochs
<1>3. /\ Newcomer \in ClientType /\ NewView \in ViewType /\ <<NoAnswer, "none">> \in HandlingType
      /\ NoAnswer.id = 0
  BY <1>2, Literals
<1>4. /\ <<>> \in Seq(SubType) /\ <<>> \in Seq(Request) /\ <<>> \in Seq(Answer)
      /\ Len(<<>>) = 0 /\ DOMAIN <<>> = {}
  BY EmptySeq
<1>5. handling \in HandlingType /\ handling[1].id = 0 /\ handling[2] = "none"  BY <1>1, <1>3
<1>6. /\ client \in ClientType /\ Len(client.pending) <= Pending /\ view \in ViewType
      /\ breaks \in 0..MaxBreaks
  BY <1>1, <1>3, <1>4, NobodyIdle, Bounds
<1>7. StreamTypeOK
  BY <1>1, <1>2, <1>4, <1>5, <1>6, Bounds DEF StreamTypeOK, SubType, HandlingType, ClientType, ViewType
<1>8. IdleInv /\ HereInv /\ HandlingInv /\ ReqInv /\ TurnInv /\ LoneInv /\ AliveInv
  BY <1>1, <1>4, <1>5, NobodyIdle
  DEF IdleInv, HereInv, HandlingInv, ReqInv, TurnInv, LoneInv, AliveInv, Handling, Waits
<1> QED BY <1>7, <1>8 DEF WaitInv

LEMMA WaitStutter == ASSUME WaitInv, UNCHANGED streamVars PROVE WaitInv'
<1>1. StreamTypeOK'  BY DEF WaitInv, StreamTypeOK, streamVars
<1> QED BY <1>1, FrameStep, TypePieces DEF streamVars

LEMMA WaitNext == WaitInv /\ [StreamNext]_streamVars => WaitInv'
<1> SUFFICES ASSUME WaitInv, [StreamNext]_streamVars PROVE WaitInv'  OBVIOUS
<1>1. CASE Publish \/ Evict \/ Reap \/ ConnectionLost \/ RestartStore \/ Connect
  BY <1>1, PublishWait, LogWait, ConnectionWait, ConnectWait
<1>2. CASE Subscribe \/ Replace \/ Respond \/ HandleUnsubscribe
  BY <1>2, SubscribeWait, ReplaceWait, RespondWait, UnsubscribeWait
<1>3. CASE \E i \in 1..MaxSubs : Forward(i) \/ End(i)
  <2>1. PICK i \in 1..MaxSubs : Forward(i) \/ End(i)  BY <1>3
  <2> QED BY <2>1, ForwardWait, EndWait
<1>4. CASE ReceiveEvent \/ ReceiveAnswer \/ ReceiveReset \/ TimeOut \/ Retry \/ Leave \/ Return
  BY <1>4, ReceiveEventWait, ReceiveAnswerWait, ReceiveResetWait, TimeOutWait, RetryWait,
     LeaveWait, ReturnWait
<1>5. CASE UNCHANGED streamVars  BY <1>5, WaitStutter
<1> QED BY <1>1, <1>2, <1>3, <1>4, <1>5 DEF StreamNext

LEMMA WaitInvariant == StreamSpec => []WaitInv
<1> QED BY WaitStart, WaitNext, PTL DEF StreamSpec

(* The stream, the subscriptions and their channels, the queues, the client*)
(* and the transcript keep their types, and every queue its capacity.      *)
THEOREM StreamTypeCorrect == StreamSpec => []StreamTypeOK
<1>1. WaitInv => StreamTypeOK  BY DEF WaitInv
<1> QED BY <1>1, WaitInvariant, PTL

(* No shed, replaced or closed subscription ends a stream silently: a client*)
(* that believes itself in sync has one that goes on, or a reset on its way*)
(* (AliveInv, and LoneInv: it has no request under way).                   *)
THEOREM NeverDeadEndThm == StreamSpec => []NeverDeadEnd
<1>1. WaitInv => NeverDeadEnd
  <2> SUFFICES ASSUME WaitInv, connected, client.synced, client.syncing = 0, ~ctrl
               PROVE  \E i \in DOMAIN subs : subs[i].state \in {"open", "over"}
    BY DEF NeverDeadEnd
  <2>1. client.here /\ Lone(0, reqs, handling, data)  BY DEF WaitInv, LoneInv
  <2>2. reqs = <<>>
    <3>1. \A k \in 1..Len(reqs) : FALSE  BY <2>1, TypePieces, SeqFacts DEF Lone
    <3> QED BY <3>1, TypePieces, SeqFacts
  <2>3. SubLive  BY <2>1, <2>2 DEF WaitInv, AliveInv, Waits
  <2> QED BY <2>3 DEF SubLive, Live
<1> QED BY <1>1, WaitInvariant, PTL

-----------------------------------------------------------------------------
-----------------------------------------------------------------------------
(* The numbers of the state. *)
LEMMA Numbers ==
    ASSUME WaitInv
    PROVE  /\ log.last \in Nat /\ log.evicted \in Nat /\ log.epoch \in Nat \ {0}
           /\ log.evicted <= log.last
           /\ client.seq \in Nat /\ client.epoch \in Nat /\ client.from \in Nat
           /\ view.seq \in Nat
           /\ handling[1] \in Answer /\ data \in Seq(Answer) /\ Len(data) \in Nat
           /\ DOMAIN data = 1..Len(data) /\ \A k \in 1..Len(data) : data[k] \in Answer
           /\ \A a \in Answer : a.latest \in Nat /\ a.from \in Nat /\ a.epoch \in Nat
           /\ Len(client.pending) \in Nat /\ client.pending \in Seq(Seqs)
           /\ (client.pending # <<>> <=> Len(client.pending) # 0)
<1>1. StreamTypeOK  BY DEF WaitInv
<1>2. /\ log.last \in Seqs /\ log.evicted \in Seqs /\ log.epoch \in Epochs
      /\ client \in ClientType /\ view \in ViewType /\ handling[1] \in Answer /\ data \in Seq(Answer)
  BY <1>1, TypeFacts
<1>3. log.last \in Nat /\ log.evicted \in Nat  BY <1>2, Bounds
<1>10. log.epoch \in Nat \ {0}
  <2>1. log.epoch \in 1..MaxEpochs /\ MaxEpochs \in Nat  BY <1>2, Bounds DEF Epochs
  <2> QED BY <2>1
<1>4. log.evicted <= log.last  BY <1>1 DEF StreamTypeOK
<1>5. /\ client.seq \in Nat /\ client.epoch \in Nat /\ client.from \in Nat
      /\ client.pending \in Seq(Seqs)
  BY <1>2, Bounds DEF ClientType
<1>6. view.seq \in Nat  BY <1>2, Bounds DEF ViewType
<1>7. /\ Len(data) \in Nat
      /\ DOMAIN data = 1..Len(data) /\ \A k \in 1..Len(data) : data[k] \in Answer
  BY <1>2, SeqFacts
<1>8. \A a \in Answer : a.latest \in Nat /\ a.from \in Nat /\ a.epoch \in Nat  BY Bounds DEF Answer
<1>9. Len(client.pending) \in Nat /\ (client.pending # <<>> <=> Len(client.pending) # 0)
  BY <1>5, SeqFacts
<1> QED BY <1>2, <1>3, <1>4, <1>5, <1>6, <1>7, <1>8, <1>9, <1>10

(* A client that waits for nothing and is not in sync. *)
LEMMA Quit ==
    ASSUME NEW c, NEW d, NEW v, NEW l, Viewed(v, l, c),
           d.syncing = 0, ~d.synced, d.seq <= v.seq, d.epoch <= l.epoch, d.epoch = 0 => d.seq = 0,
           \A k \in 1..Len(d.pending) : d.pending[k] \in 1..l.last,
           d.epoch = 0 \/ (d.epoch = c.epoch /\ d.from = c.from),
           NEW h, NEW ds, NEW ss
    PROVE  Story(d, v, l, h, ds, ss)
<1>2. Cursor(d, v, l)  BY DEF Cursor
<1>3. Viewed(v, l, d)  BY DEF Viewed
<1>4. Due(d, v, h, ds, l.epoch)  BY DEF Due
<1>5. Order(d, v, h, ds, ss, l.last) /\ First(d, h, ds)  BY DEF Order, First, Zero, ZeroDue
<1> QED BY <1>2, <1>3, <1>4, <1>5 DEF Story

(* A client that asks again, or queues it. *)
LEMMA Renew ==
    ASSUME NEW c, NEW d, NEW v, NEW l, NEW h, NEW ds, NEW ss, Story(c, v, l, h, ds, ss),
           d.seq = c.seq, d.epoch = c.epoch, d.from = c.from, d.pending = c.pending, d.synced = c.synced,
           \/ d.syncing = c.syncing
           \/ c.syncing = 0 /\ h[1].id # d.syncing /\ \A k \in 1..Len(ds) : ds[k].id # d.syncing
    PROVE  Story(d, v, l, h, ds, ss)
<1>1. Cursor(d, v, l)  BY DEF Story, Cursor
<1>2. Viewed(v, l, d)  BY DEF Story, Viewed
<1>3. Due(d, v, h, ds, l.epoch)  BY DEF Story, Due, Fits
<1>4. ZeroDue(d, h, ds) <=> ZeroDue(c, h, ds)  BY DEF ZeroDue
<1>5. Order(d, v, h, ds, ss, l.last)
  <2> SUFFICES ASSUME Zero(d, h, ds) PROVE DataOrder(d, v, h, ds) /\ SubsOrder(d, v, h, ds, ss, l.last)
    BY DEF Order
  <2>1. Zero(c, h, ds)  BY <1>4 DEF Zero
  <2>2. DataOrder(c, v, h, ds) /\ SubsOrder(c, v, h, ds, ss, l.last)  BY <2>1 DEF Story, Order
  <2>3. \A n : Come(n, c, v, h, ds) => Come(n, d, v, h, ds)  BY <1>4 DEF Come
  <2>4. \A n, m : Ahead(n, m, c, h, ds) => Ahead(n, m, d, h, ds)  BY <1>4 DEF Ahead
  <2>5. DataOrder(d, v, h, ds)  BY <2>2, <2>3, <2>4 DEF DataOrder
  <2>6. SubsOrder(d, v, h, ds, ss, l.last)  BY <1>4, <2>2, <2>3, <2>4 DEF SubsOrder
  <2> QED BY <2>5, <2>6
<1>6. First(d, h, ds)  BY <1>4 DEF Story, First
<1> QED BY <1>1, <1>2, <1>3, <1>5, <1>6 DEF Story

(* Other subscriptions with the same events to come. *)
LEMMA SubsKeep ==
    ASSUME NEW c, NEW v, NEW h, NEW g, NEW ds, NEW ss, NEW tt, NEW last, NEW last2,
           Order(c, v, h, ds, ss, last), g[1] = h[1], h[2] # "none" => g[2] # "none",
           \A i \in 1..Len(tt) : tt[i].state = "open" \/ tt[i].ch # <<>> =>
              \E j \in 1..Len(ss) : /\ ss[j].state = "open" \/ ss[j].ch # <<>>
                                   /\ NextOf(tt[i], last2) = NextOf(ss[j], last)
                                   /\ (j = Len(ss) /\ h[2] # "none" => i = Len(tt))
    PROVE  Order(c, v, g, ds, tt, last2)
<1>1. ZeroDue(c, g, ds) <=> ZeroDue(c, h, ds)  BY DEF ZeroDue
<1> SUFFICES ASSUME Zero(c, g, ds) PROVE DataOrder(c, v, g, ds) /\ SubsOrder(c, v, g, ds, tt, last2)
  BY DEF Order
<1>2. DataOrder(c, v, h, ds) /\ SubsOrder(c, v, h, ds, ss, last)  BY <1>1 DEF Zero, Order
<1>3. \A n : Come(n, c, v, h, ds) => Come(n, c, v, g, ds)  BY <1>1 DEF Come
<1>4. \A n, m : Ahead(n, m, c, h, ds) => Ahead(n, m, c, g, ds)  BY <1>1 DEF Ahead
<1>5. DataOrder(c, v, g, ds)  BY <1>2, <1>3, <1>4 DEF DataOrder
<1>6. SubsOrder(c, v, g, ds, tt, last2)
  <2> SUFFICES ASSUME NEW i \in 1..Len(tt), tt[i].state = "open" \/ tt[i].ch # <<>>,
                      NEW n, n = NextOf(tt[i], last2), n >= 2
               PROVE  \/ Come(n - 1, c, v, g, ds)
                      \/ Ahead(n - 1, Len(ds), c, g, ds)
                      \/ ~ZeroDue(c, g, ds) /\ g[2] # "none" /\ i = Len(tt)
    BY DEF SubsOrder
  <2>1. PICK j \in 1..Len(ss) : /\ ss[j].state = "open" \/ ss[j].ch # <<>>
                               /\ n = NextOf(ss[j], last)
                               /\ (j = Len(ss) /\ h[2] # "none" => i = Len(tt))
    OBVIOUS
  <2>2. \/ Come(n - 1, c, v, h, ds) \/ Ahead(n - 1, Len(ds), c, h, ds)
        \/ ~ZeroDue(c, h, ds) /\ h[2] # "none" /\ j = Len(ss)
    <3>1. NextOf(ss[j], last) >= 2  BY <2>1
    <3>2. \/ Come(NextOf(ss[j], last) - 1, c, v, h, ds)
          \/ Ahead(NextOf(ss[j], last) - 1, Len(ds), c, h, ds)
          \/ ~ZeroDue(c, h, ds) /\ h[2] # "none" /\ j = Len(ss)
      BY <1>2, <2>1, <3>1 DEF SubsOrder
    <3> QED BY <2>1, <3>2
  <2>3. \/ Come(n - 1, c, v, g, ds) \/ Ahead(n - 1, Len(ds), c, g, ds)
        \/ ~ZeroDue(c, g, ds) /\ g[2] # "none" /\ i = Len(tt)
    BY <1>1, <1>3, <1>4, <2>1, <2>2
  <2> QED BY <2>3
<1> QED BY <1>5, <1>6

(* The answer being handled goes on to its next step. *)
LEMMA SameDue ==
    ASSUME NEW c, NEW v, NEW h, NEW g, NEW ds, NEW e, g[1] = h[1]
    PROVE  /\ Due(c, v, h, ds, e) => Due(c, v, g, ds, e)
           /\ First(c, h, ds) => First(c, g, ds)
<1>1. ZeroDue(c, g, ds) <=> ZeroDue(c, h, ds)  BY DEF ZeroDue
<1> QED BY <1>1 DEF Due, First

(* A step that syncs. *)
LEMMA SyncStory ==
    ASSUME WaitInv, NEW c \in ClientType, Sync(c), NEW v, NEW l, NEW ds, NEW ss,
           ds = data \/ (data # <<>> /\ ds = Tail(data)), Story(c, v, l, handling, ds, ss),
           c.syncing # 0 /\ reqs # <<>> => Last(reqs).after <= c.seq /\ Last(reqs).epoch = c.epoch
    PROVE  Story(client', v, l, handling, ds, ss) /\ RequestInv'
<1> DEFINE r == [id |-> client'.syncing, after |-> c.seq, epoch |-> c.epoch]
<1>1. reqs \in Seq(Request) /\ data \in Seq(Answer)  BY TypePieces
<1>2. /\ client'.seq = c.seq /\ client'.epoch = c.epoch /\ client'.from = c.from
      /\ client'.synced = c.synced /\ client'.pending = c.pending /\ client'.syncing # 0
      /\ \/ c.syncing # 0 /\ client'.syncing = c.syncing /\ reqs' = reqs
         \/ /\ c.syncing = 0 /\ client'.syncing \notin Used
            /\ reqs' = Append(reqs, r) /\ r \in Request
  BY <1>1, SyncFacts
<1>3. \A k \in 1..Len(ds) : \E j \in DOMAIN data : ds[k] = data[j]
  <2>1. DOMAIN data = 1..Len(data)  BY <1>1, SeqFacts
  <2>2. CASE ds = data  BY <2>1, <2>2
  <2>3. CASE data # <<>> /\ ds = Tail(data)
    <3>1. DOMAIN ds = 1..Len(ds) /\ \A k \in DOMAIN ds : \E j \in DOMAIN data : ds[k] = data[j]
      BY <1>1, <2>3, TailPart
    <3> QED BY <3>1
  <2> QED BY <2>2, <2>3
<1>4. \/ client'.syncing = c.syncing
      \/ /\ c.syncing = 0 /\ handling[1].id # client'.syncing
         /\ \A k \in 1..Len(ds) : ds[k].id # client'.syncing
  <2>1. ASSUME client'.syncing \notin Used
        PROVE  handling[1].id # client'.syncing /\ \A k \in 1..Len(ds) : ds[k].id # client'.syncing
    BY <1>3, <2>1 DEF Used
  <2> QED BY <1>2, <2>1
<1>5. Story(client', v, l, handling, ds, ss)  BY <1>2, <1>4, Renew
<1>6. RequestInv'
  <2>1. CASE c.syncing # 0 /\ reqs' = reqs  BY <1>2, <2>1 DEF RequestInv
  <2>2. CASE reqs' = Append(reqs, r) /\ r \in Request
    <3>1. Last(reqs') = r  BY <1>1, <2>2, AppendFacts
    <3>3. c.seq \in Nat  BY Bounds DEF ClientType
    <3>2. c.seq <= c.seq  BY <3>3
    <3> QED BY <1>2, <3>1, <3>2 DEF RequestInv
  <2> QED BY <1>2, <2>1, <2>2
<1> QED BY <1>5, <1>6

LEMMA NewLogViewed ==
    ASSUME WaitInv, StoryInv, NewLog
    PROVE  Viewed(view, log', client) /\ client.epoch <= log'.epoch
<1>1. log'.epoch = log.epoch + 1 /\ log.epoch \in Nat /\ client.epoch \in Nat
  BY Numbers, NewLogType DEF WaitInv
<1>2. Viewed(view, log, client) /\ client.epoch <= log.epoch  BY DEF StoryInv, Story, Cursor
<1>3. view.logs \subseteq 1..log'.epoch /\ view.logs # {log'.epoch}  BY <1>1, <1>2 DEF Viewed
<1>4. client.epoch <= log'.epoch  BY <1>1, <1>2
<1> QED BY <1>2, <1>3, <1>4 DEF Viewed

LEMMA LoseStory ==
    ASSUME WaitInv, StoryInv, LoseConnection, log' = log \/ NewLog PROVE StoryInv'
<1>1. /\ subs' = <<>> /\ handling' = <<NoAnswer, "none">> /\ data' = <<>>
      /\ view' = view /\ client'.seq = client.seq /\ client'.epoch = client.epoch
      /\ client'.from = client.from /\ ~client'.synced /\ client'.syncing = 0
      /\ client'.pending = <<>>
  BY LoseFacts DEF WaitInv
<1>2. Len(<<>>) = 0  BY EmptySeq
<1>3. AnswersInv' /\ ChanInv' /\ RequestInv'
  BY <1>1, <1>2 DEF AnswersInv, ChanInv, RequestInv, Handling
<1>4. Viewed(view, log', client) /\ client.epoch <= log'.epoch
  BY NewLogViewed DEF StoryInv, Story, Cursor
<1>5. client.seq <= view.seq /\ (client.epoch = 0 => client.seq = 0)  BY DEF StoryInv, Story, Cursor
<1>6. \A k \in 1..Len(client'.pending) : client'.pending[k] \in 1..log'.last  BY <1>1, <1>2
<1>7. Story(client', view', log', handling', data', subs')  BY <1>1, <1>4, <1>5, <1>6, Quit
<1> QED BY <1>3, <1>7 DEF StoryInv

LEMMA ReapStory == ASSUME WaitInv, StoryInv, Reap PROVE StoryInv'
<1>1. /\ subs = <<>> /\ reqs = <<>> /\ data = <<>> /\ ~ctrl /\ NewLog
      /\ UNCHANGED <<subs, handling, reqs, data, client, view>>
  BY DEF Reap
<1>2. Len(<<>>) = 0 /\ DOMAIN <<>> = {}  BY EmptySeq
<1>3. ~Handling  BY <1>1 DEF WaitInv, HandlingInv
<1>4. AnswersInv' /\ ChanInv' /\ RequestInv'
  BY <1>1, <1>2, <1>3 DEF AnswersInv, ChanInv, RequestInv, Handling
<1>5. ~client.synced /\ client.syncing = 0 /\ client.pending = <<>>
  <2>1. CASE ~connected  BY <2>1 DEF WaitInv, IdleInv
  <2>2. CASE ~client.here  BY <2>2, NobodyIdle DEF WaitInv, HereInv
  <2>3. CASE connected /\ client.here
    <3>1. ~SubLive  BY <1>1, <1>2 DEF SubLive
    <3>2. Waits  BY <1>1, <2>3, <3>1 DEF WaitInv, AliveInv
    <3>3. Turn(client.syncing, reqs, handling, data)  BY <3>2 DEF WaitInv, TurnInv
    <3> QED BY <1>1, <1>2, <1>3, <3>3 DEF Turn, Handling
  <2> QED BY <2>1, <2>2, <2>3
<1>6. Viewed(view, log', client) /\ client.epoch <= log'.epoch  BY <1>1, NewLogViewed
<1>7. client.seq <= view.seq /\ (client.epoch = 0 => client.seq = 0)  BY DEF StoryInv, Story, Cursor
<1>8. \A k \in 1..Len(client.pending) : client.pending[k] \in 1..log'.last  BY <1>2, <1>5
<1>9. Story(client', view', log', handling', data', subs')  BY <1>1, <1>5, <1>6, <1>7, <1>8, Quit
<1> QED BY <1>4, <1>9 DEF StoryInv

LEMMA EvictStory == ASSUME WaitInv, StoryInv, Evict PROVE StoryInv'
<1>1. /\ log'.epoch = log.epoch /\ log'.last = log.last /\ log'.evicted \in log.evicted..log.last
      /\ UNCHANGED <<subs, handling, reqs, data, client, view>>
  BY EvictType DEF WaitInv, Evict
<1>2. /\ log.evicted \in Nat /\ log.last \in Nat /\ data \in Seq(Answer)
      /\ \A k \in 1..Len(data) : data[k] \in Answer
      /\ handling[1] \in Answer /\ \A a \in Answer : a.from \in Nat
  BY Numbers
<1>3. \A a \in Answer : Good(a, log) => Good(a, log')  BY <1>1, <1>2 DEF Good
<1>4. AnswersInv' /\ ChanInv' /\ RequestInv'
  <2>1. AnswersInv'  BY <1>1, <1>2, <1>3 DEF StoryInv, AnswersInv, Sound, Handling
  <2>2. ChanInv' /\ RequestInv'  BY <1>1 DEF StoryInv, ChanInv, RequestInv
  <2> QED BY <2>1, <2>2
<1>5. Cursor(client, view, log')  BY <1>1 DEF StoryInv, Story, Cursor
<1>6. Viewed(view, log', client)
  <2>1. \A s \in log'.evicted + 1..view.seq : s \in log.evicted + 1..view.seq  BY <1>1, <1>2
  <2> QED BY <1>1, <2>1 DEF StoryInv, Story, Viewed, ShownFrom
<1>7. Story(client', view', log', handling', data', subs')
  BY <1>1, <1>5, <1>6 DEF StoryInv, Story
<1> QED BY <1>4, <1>7 DEF StoryInv

LEMMA ChainAppend ==
    ASSUME NEW sub \in SubType, NEW last \in Nat, UpTo(sub, last), sub.state = "open",
           last + 1 \in Seqs
    PROVE  /\ Chain(Append(sub.ch, last + 1), last + 1)
           /\ Append(sub.ch, last + 1)[Len(Append(sub.ch, last + 1))] = last + 1
           /\ Append(sub.ch, last + 1)[1] = NextOf(sub, last)
           /\ Append(sub.ch, last + 1) # <<>>
<1> DEFINE ch == sub.ch
           a == Append(sub.ch, last + 1)
<1>1. ch \in Seq(Seqs)  BY DEF SubType
<1>2. /\ Len(a) = Len(ch) + 1 /\ Len(ch) \in Nat /\ \A k \in 1..Len(ch) : a[k] = ch[k]
      /\ a[Len(ch) + 1] = last + 1 /\ a # <<>> /\ (ch # <<>> <=> Len(ch) # 0)
  BY <1>1, AppendFacts, SeqFacts
<1>3. /\ \A k \in 1..Len(ch) : ch[k] = ch[1] + k - 1 /\ ch[k] \in 1..last
      /\ ch # <<>> => ch[Len(ch)] = last
  BY DEF UpTo, Chain
<1> HIDE DEF ch, a
<1>4. CASE ch = <<>>
  <2>1. Len(ch) = 0 /\ Len(a) = 1 /\ a[1] = last + 1  BY <1>2, <1>4
  <2>2. \A k \in 1..Len(a) : a[k] = a[1] + k - 1 /\ a[k] \in 1..last + 1  BY <2>1
  <2> QED BY <1>2, <1>4, <2>1, <2>2 DEF Chain, NextOf, a, ch
<1>5. CASE ch # <<>>
  <2>1. Len(ch) \in 1..Len(ch) /\ 1 \in 1..Len(ch) /\ a[1] = ch[1] /\ ch[1] \in Nat
    BY <1>2, <1>3, <1>5
  <2>2. last = ch[1] + Len(ch) - 1  BY <1>3, <1>5, <2>1
  <2>3. ASSUME NEW k \in 1..Len(a) PROVE a[k] = a[1] + k - 1 /\ a[k] \in 1..last + 1
    <3>1. CASE k \in 1..Len(ch)
      <4>1. a[k] = ch[k] /\ ch[k] = ch[1] + k - 1 /\ ch[k] \in 1..last  BY <1>2, <1>3, <3>1
      <4> QED BY <2>1, <4>1
    <3>2. CASE k = Len(ch) + 1
      <4>1. a[k] = last + 1  BY <1>2, <3>2
      <4> QED BY <1>2, <2>1, <2>2, <3>2, <4>1
    <3> QED BY <1>2, <3>1, <3>2
  <2> QED BY <1>2, <1>5, <2>1, <2>3 DEF Chain, NextOf, a, ch
<1> QED BY <1>4, <1>5

LEMMA OfferStory ==
    ASSUME NEW sub \in SubType, NEW last \in Nat, UpTo(sub, last), last + 1 \in Seqs
    PROVE  LET o == Offer(sub, last + 1) IN
           /\ UpTo(o, last + 1)
           /\ o.state = "open" \/ o.ch # <<>> =>
                 (sub.state = "open" \/ sub.ch # <<>>) /\ NextOf(o, last + 1) = NextOf(sub, last)
<1> DEFINE o == Offer(sub, last + 1)
<1>1. Chain(sub.ch, last + 1)
  <2>1. \A m : m \in 1..last => m \in 1..last + 1  OBVIOUS
  <2> QED BY <2>1 DEF UpTo, Chain
<1>2. CASE sub.state # "open"
  <2>1. o = sub  BY <1>2 DEF Offer
  <2> HIDE DEF o
  <2> QED BY <1>1, <1>2, <2>1 DEF UpTo, NextOf, o
<1>3. CASE sub.state = "open" /\ Len(sub.ch) < Buffer
  <2>1. o = [sub EXCEPT !.ch = Append(sub.ch, last + 1)]  BY <1>3 DEF Offer
  <2>2. o.ch = Append(sub.ch, last + 1) /\ o.state = "open"  BY <1>3, <2>1 DEF SubType
  <2> HIDE DEF o
  <2> QED BY <1>3, <2>2, ChainAppend DEF UpTo, NextOf, o
<1>4. CASE sub.state = "open" /\ ~(Len(sub.ch) < Buffer)
  <2>1. o = [sub EXCEPT !.state = "over"]  BY <1>4 DEF Offer
  <2>2. o.ch = sub.ch /\ o.state = "over"  BY <1>4, <2>1 DEF SubType
  <2>3. sub.ch # <<>>
    <3>1. sub.ch = <<>> => Len(sub.ch) = 0  BY EmptySeq
    <3> QED BY <1>4, <3>1, Bounds
  <2> HIDE DEF o
  <2> QED BY <1>1, <1>4, <2>2, <2>3 DEF UpTo, NextOf, o
<1> QED BY <1>2, <1>3, <1>4

LEMMA PublishStory == ASSUME WaitInv, StoryInv, Publish PROVE StoryInv'
<1>1. /\ StreamTypeOK /\ log'.epoch = log.epoch /\ log'.last = log.last + 1
      /\ log'.evicted = log.evicted /\ log.last + 1 \in Seqs
      /\ UNCHANGED <<handling, reqs, data, client, view>>
      /\ Len(subs') = Len(subs)
      /\ \A i \in 1..Len(subs) : subs'[i] = Offer(subs[i], log.last + 1)
  BY PublishFacts DEF WaitInv, Publish
<1>2. /\ log.last \in Nat /\ client.seq \in Nat /\ view.seq \in Nat /\ handling[1] \in Answer
      /\ \A k \in 1..Len(data) : data[k] \in Answer
      /\ \A a \in Answer : a.latest \in Nat
  BY Numbers
<1>3. \A m \in Nat : m <= log.last => m <= log.last + 1  BY <1>2
<1>4. \A m : m \in 1..log.last => m \in 1..log.last + 1  BY <1>2
<1>5. AnswersInv'
  <2>1. \A a \in Answer : Good(a, log) => Good(a, log')  BY <1>1, <1>2, <1>3 DEF Good
  <2>2. \A a \in Answer : Sound(a, log) => Sound(a, log')  BY <1>1, <1>4, <2>1 DEF Sound
  <2> QED BY <1>1, <1>2, <2>1, <2>2 DEF StoryInv, AnswersInv, Handling
<1>6. /\ ChanInv'
      /\ \A i \in 1..Len(subs) : subs'[i].state = "open" \/ subs'[i].ch # <<>> =>
            /\ subs[i].state = "open" \/ subs[i].ch # <<>>
            /\ NextOf(subs'[i], log'.last) = NextOf(subs[i], log.last)
  <2>1. ASSUME NEW i \in 1..Len(subs)
        PROVE  /\ UpTo(subs'[i], log'.last)
               /\ subs'[i].state = "open" \/ subs'[i].ch # <<>> =>
                     /\ subs[i].state = "open" \/ subs[i].ch # <<>>
                     /\ NextOf(subs'[i], log'.last) = NextOf(subs[i], log.last)
    <3>1. subs[i] \in SubType /\ UpTo(subs[i], log.last)  BY <1>1, SubsFacts DEF StoryInv, ChanInv
    <3> QED BY <1>1, <1>2, <3>1, OfferStory
  <2> QED BY <1>1, <2>1 DEF ChanInv
<1>7. RequestInv'  BY <1>1 DEF StoryInv, RequestInv
<1>8. Cursor(client, view, log')  BY <1>1, <1>2, <1>3, <1>4 DEF StoryInv, Story, Cursor
<1>9. Viewed(view, log', client)  BY <1>1, <1>2, <1>3 DEF StoryInv, Story, Viewed
<1>10. Order(client, view, handling, data, subs', log'.last)
  <2>1. Order(client, view, handling, data, subs, log.last)  BY DEF StoryInv, Story
  <2> QED BY <1>1, <1>6, <2>1, SubsKeep
<1>11. Story(client', view', log', handling', data', subs')
  BY <1>1, <1>8, <1>9, <1>10 DEF StoryInv, Story
<1> QED BY <1>5, <1>6, <1>7, <1>11 DEF StoryInv

(* Subscriptions with the same channels, some of them cancelled. *)
LEMMA ChanKeep ==
    ASSUME NEW sub, NEW tub, NEW last, UpTo(sub, last), tub.ch = sub.ch,
           tub.state = "open" => sub.state = "open"
    PROVE  UpTo(tub, last) /\ NextOf(tub, last) = NextOf(sub, last)
BY DEF UpTo, NextOf

LEMMA ReplaceStory == ASSUME WaitInv, StoryInv, Replace PROVE StoryInv'
<1>1. /\ Len(subs') = Len(subs)
      /\ \A i \in 1..Len(subs) : /\ subs'[i].ch = subs[i].ch
                                 /\ subs'[i].state = "open" => subs[i].state = "open"
      /\ handling'[1] = handling[1] /\ handling'[2] # "none" /\ handling[2] # "none"
      /\ UNCHANGED <<log, reqs, data, client, view>>
  BY ReplaceFacts DEF WaitInv, Replace
<1>2. AnswersInv' /\ RequestInv'  BY <1>1 DEF StoryInv, AnswersInv, RequestInv, Handling
<1>3. \A i \in 1..Len(subs) : UpTo(subs'[i], log.last) /\ NextOf(subs'[i], log.last) = NextOf(subs[i], log.last)
  BY <1>1, ChanKeep DEF StoryInv, ChanInv
<1>4. ChanInv'  BY <1>1, <1>3 DEF ChanInv
<1>5. Order(client, view, handling', data, subs', log.last)
  <2>1. Order(client, view, handling, data, subs, log.last)  BY DEF StoryInv, Story
  <2> QED BY <1>1, <1>3, <2>1, SubsKeep
<1>6. Due(client, view, handling', data, log.epoch) /\ First(client, handling', data)
  BY <1>1, SameDue DEF StoryInv, Story
<1>7. Story(client', view', log', handling', data', subs')
  BY <1>1, <1>5, <1>6 DEF StoryInv, Story
<1> QED BY <1>2, <1>4, <1>7 DEF StoryInv

LEMMA UnsubscribeStory == ASSUME WaitInv, StoryInv, HandleUnsubscribe PROVE StoryInv'
<1>1. /\ Len(subs') = Len(subs) /\ reqs # <<>> /\ reqs' = Tail(reqs) /\ reqs \in Seq(Request)
      /\ \A i \in 1..Len(subs) : subs'[i].ch = subs[i].ch /\ subs'[i].state # "open"
      /\ UNCHANGED <<log, handling, data, client, view>> /\ handling[2] = "none"
  BY UnsubscribeFacts, TypePieces DEF WaitInv, HandleUnsubscribe
<1>2. AnswersInv' /\ RequestInv'
  <2>1. reqs' # <<>> => Last(reqs') = Last(reqs)  BY <1>1, TailFacts
  <2> QED BY <1>1, <2>1 DEF StoryInv, AnswersInv, RequestInv, Handling
<1>3. \A i \in 1..Len(subs) : UpTo(subs'[i], log.last) /\ NextOf(subs'[i], log.last) = NextOf(subs[i], log.last)
  <2>1. \A j \in 1..Len(subs) : UpTo(subs[j], log.last)  BY DEF StoryInv, ChanInv
  <2>2. \A j \in 1..Len(subs) : subs'[j].state = "open" => subs[j].state = "open"  BY <1>1
  <2> QED BY <1>1, <2>1, <2>2, ChanKeep
<1>4. ChanInv'  BY <1>1, <1>3 DEF ChanInv
<1>5. Order(client, view, handling, data, subs', log.last)
  <2>1. Order(client, view, handling, data, subs, log.last)  BY DEF StoryInv, Story
  <2> QED BY <1>1, <1>3, <2>1, SubsKeep
<1>7. Story(client', view', log', handling', data', subs')
  BY <1>1, <1>5 DEF StoryInv, Story
<1> QED BY <1>2, <1>4, <1>7 DEF StoryInv

LEMMA EndStory == ASSUME WaitInv, StoryInv, NEW i, End(i) PROVE StoryInv'
<1>1. /\ i \in 1..Len(subs) /\ Len(subs) \in Nat /\ Len(subs') = Len(subs) - 1
      /\ \A j \in 1..Len(subs) - 1 : subs'[j] = IF j < i THEN subs[j] ELSE subs[j + 1]
      /\ UNCHANGED <<log, handling, reqs, data, client, view>>
  BY EndFacts DEF WaitInv, End
<1>2. AnswersInv' /\ RequestInv'  BY <1>1 DEF StoryInv, AnswersInv, RequestInv, Handling
<1>3. ASSUME NEW k \in 1..Len(subs')
      PROVE  \E j \in 1..Len(subs) : subs'[k] = subs[j] /\ (j = Len(subs) => k = Len(subs'))
  <2>1. CASE k < i
    <3>1. k \in 1..Len(subs) /\ k # Len(subs) /\ subs'[k] = subs[k]  BY <1>1, <2>1
    <3> QED BY <3>1
  <2>2. CASE ~(k < i)
    <3>1. k + 1 \in 1..Len(subs) /\ subs'[k] = subs[k + 1] /\ (k + 1 = Len(subs) => k = Len(subs'))
      BY <1>1, <2>2
    <3> QED BY <3>1
  <2> QED BY <2>1, <2>2
<1>4. ChanInv'  BY <1>1, <1>3 DEF StoryInv, ChanInv
<1>5. Order(client, view, handling, data, subs', log.last)
  <2>1. Order(client, view, handling, data, subs, log.last)  BY DEF StoryInv, Story
  <2>2. \A k \in 1..Len(subs') : subs'[k].state = "open" \/ subs'[k].ch # <<>> =>
           \E j \in 1..Len(subs) : /\ subs[j].state = "open" \/ subs[j].ch # <<>>
                                   /\ NextOf(subs'[k], log.last) = NextOf(subs[j], log.last)
                                   /\ (j = Len(subs) /\ handling[2] # "none" => k = Len(subs'))
    BY <1>3
  <2> QED BY <2>1, <2>2, SubsKeep
<1>7. Story(client', view', log', handling', data', subs')
  BY <1>1, <1>5 DEF StoryInv, Story
<1> QED BY <1>2, <1>4, <1>7 DEF StoryInv

-----------------------------------------------------------------------------
(* What the client's own steps leave alone. *)
LEMMA QuietStory ==
    ASSUME StoryInv, UNCHANGED <<log, subs, handling, data>>
    PROVE  AnswersInv' /\ ChanInv'
BY DEF StoryInv, AnswersInv, ChanInv, Handling

LEMMA ConnectStory == ASSUME WaitInv, StoryInv, Connect PROVE StoryInv'
<1>1. ~connected /\ UNCHANGED <<log, subs, handling, data, view>>  BY DEF Connect
<1>2. AnswersInv' /\ ChanInv'  BY <1>1, QuietStory
<1>3. ~client.synced /\ client.syncing = 0  BY <1>1 DEF WaitInv, IdleInv
<1>4. CASE client.here
  <2> DEFINE c == [client EXCEPT !.synced = FALSE]
  <2>1. Sync(c)  BY <1>4 DEF Connect
  <2>2. /\ c \in ClientType /\ c.syncing = 0 /\ ~c.synced /\ c.seq = client.seq
        /\ c.epoch = client.epoch /\ c.from = client.from /\ c.pending = client.pending
    BY <1>3, TypePieces DEF ClientType
  <2> HIDE DEF c
  <2>3. Story(c, view, log, handling, data, subs)
    <3>1. Story(client, view, log, handling, data, subs)  BY DEF StoryInv
    <3>2. /\ Viewed(view, log, client) /\ client.seq <= view.seq /\ client.epoch <= log.epoch
          /\ client.epoch = 0 => client.seq = 0
          /\ \A k \in 1..Len(client.pending) : client.pending[k] \in 1..log.last
      BY <3>1 DEF Story, Cursor
    <3> QED BY <2>2, <3>2, Quit
  <2>4. Story(client', view, log, handling, data, subs) /\ RequestInv'  BY <2>1, <2>2, <2>3, SyncStory
  <2> QED BY <1>1, <1>2, <2>4 DEF StoryInv
<1>5. CASE ~client.here
  <2>1. UNCHANGED <<client, reqs>>  BY <1>5 DEF Connect
  <2> QED BY <1>1, <1>2, <2>1 DEF StoryInv, RequestInv
<1> QED BY <1>4, <1>5

LEMMA ResyncStory ==
    ASSUME WaitInv, StoryInv, Sync([client EXCEPT !.retry = FALSE]),
           UNCHANGED <<log, subs, handling, data, view>>
    PROVE  StoryInv'
<1> DEFINE c == [client EXCEPT !.retry = FALSE]
<1>1. Sync(c)  OBVIOUS
<1>2. /\ c \in ClientType /\ c.syncing = client.syncing /\ c.synced = client.synced
      /\ c.seq = client.seq /\ c.epoch = client.epoch /\ c.from = client.from
      /\ c.pending = client.pending
  BY TypePieces DEF ClientType
<1> HIDE DEF c
<1>3. Story(client, view, log, handling, data, subs)  BY DEF StoryInv
<1>4. Story(c, view, log, handling, data, subs)  BY <1>2, <1>3, Renew
<1>5. c.syncing # 0 /\ reqs # <<>> => Last(reqs).after <= c.seq /\ Last(reqs).epoch = c.epoch
  BY <1>2 DEF StoryInv, RequestInv
<1>6. Story(client', view, log, handling, data, subs) /\ RequestInv'  BY <1>1, <1>2, <1>4, <1>5, SyncStory
<1>7. AnswersInv' /\ ChanInv'  BY QuietStory
<1> QED BY <1>6, <1>7 DEF StoryInv

LEMMA RetryStory == ASSUME WaitInv, StoryInv, Retry PROVE StoryInv'
BY ResyncStory DEF Retry

LEMMA ReceiveResetStory == ASSUME WaitInv, StoryInv, ReceiveReset PROVE StoryInv'
<1>1. UNCHANGED <<log, subs, handling, data, view>>  BY DEF ReceiveReset
<1>2. CASE client.here  BY <1>1, <1>2, ResyncStory DEF ReceiveReset
<1>3. CASE ~client.here
  <2>1. UNCHANGED <<client, reqs>>  BY <1>3 DEF ReceiveReset
  <2>2. AnswersInv' /\ ChanInv'  BY <1>1, QuietStory
  <2> QED BY <1>1, <2>1, <2>2 DEF StoryInv, RequestInv
<1> QED BY <1>2, <1>3

LEMMA TimeOutStory == ASSUME WaitInv, StoryInv, TimeOut PROVE StoryInv'
<1>1. UNCHANGED <<log, subs, handling, data, view>>  BY DEF TimeOut
<1>2. AnswersInv' /\ ChanInv'  BY <1>1, QuietStory
<1> DEFINE c == [client EXCEPT !.syncing = 0, !.synced = FALSE]
<1>3. /\ c \in ClientType /\ c.syncing = 0 /\ ~c.synced /\ c.seq = client.seq
      /\ c.epoch = client.epoch /\ c.from = client.from /\ c.pending = client.pending
  BY TypePieces, Bounds DEF ClientType
<1>4. IF client.queued THEN Sync(c) ELSE client' = [c EXCEPT !.retry = TRUE] /\ UNCHANGED reqs
  BY DEF TimeOut
<1> HIDE DEF c
<1>5. /\ Viewed(view, log, client) /\ client.seq <= view.seq /\ client.epoch <= log.epoch
      /\ client.epoch = 0 => client.seq = 0
      /\ \A k \in 1..Len(client.pending) : client.pending[k] \in 1..log.last
  BY DEF StoryInv, Story, Cursor
<1>6. CASE client.queued
  <2>1. Story(c, view, log, handling, data, subs)  BY <1>3, <1>5, Quit
  <2>2. Story(client', view, log, handling, data, subs) /\ RequestInv'
    BY <1>3, <1>4, <1>6, <2>1, SyncStory
  <2> QED BY <1>1, <1>2, <2>2 DEF StoryInv
<1>7. CASE ~client.queued
  <2>1. client' = [c EXCEPT !.retry = TRUE]  BY <1>4, <1>7
  <2>2. /\ client'.syncing = 0 /\ ~client'.synced /\ client'.seq = client.seq
        /\ client'.epoch = client.epoch /\ client'.from = client.from /\ client'.pending = client.pending
    BY <1>3, <2>1 DEF ClientType
  <2>3. Story(client', view, log, handling, data, subs)  BY <1>5, <2>2, Quit
  <2>4. RequestInv'  BY <2>2 DEF RequestInv
  <2> QED BY <1>1, <1>2, <2>3, <2>4 DEF StoryInv
<1> QED BY <1>6, <1>7

LEMMA FreshStory ==
    ASSUME WaitInv, StoryInv, NEW c, c = Nobody \/ c = Newcomer, NEW ds
    PROVE  Story(c, view, log, handling, ds, subs)
<1>1. /\ c.syncing = 0 /\ ~c.synced /\ c.seq = 0 /\ c.epoch = 0 /\ c.pending = <<>>
  BY NobodyIdle
<1>2. c.seq <= view.seq /\ c.epoch <= log.epoch  BY <1>1, Numbers
<1>3. \A k \in 1..Len(c.pending) : c.pending[k] \in 1..log.last  BY <1>1, EmptySeq
<1>4. Viewed(view, log, client)  BY DEF StoryInv, Story
<1> QED BY <1>1, <1>2, <1>3, <1>4, Quit

LEMMA LeaveStory == ASSUME WaitInv, StoryInv, Leave PROVE StoryInv'
<1>1. client' = Nobody /\ UNCHANGED <<log, subs, handling, data, view>>  BY DEF Leave
<1>2. AnswersInv' /\ ChanInv'  BY <1>1, QuietStory
<1>3. Story(client', view, log, handling, data, subs)  BY <1>1, FreshStory
<1>4. RequestInv'  BY <1>1, NobodyIdle DEF RequestInv
<1> QED BY <1>1, <1>2, <1>3, <1>4 DEF StoryInv

LEMMA ReturnStory == ASSUME WaitInv, StoryInv, Return PROVE StoryInv'
<1>1. UNCHANGED <<log, subs, handling, data, view>>  BY DEF Return
<1>2. AnswersInv' /\ ChanInv'  BY <1>1, QuietStory
<1>3. Story(Newcomer, view, log, handling, data, subs)  BY FreshStory
<1>4. CASE connected
  <2>1. Sync(Newcomer)  BY <1>4 DEF Return
  <2>2. Newcomer \in ClientType /\ Newcomer.syncing = 0  BY Literals, TypeFacts, NobodyIdle DEF WaitInv
  <2>3. Story(client', view, log, handling, data, subs) /\ RequestInv'  BY <1>3, <2>1, <2>2, SyncStory
  <2> QED BY <1>1, <1>2, <2>3 DEF StoryInv
<1>5. CASE ~connected
  <2>1. client' = Newcomer  BY <1>5 DEF Return
  <2>2. RequestInv'  BY <2>1, NobodyIdle DEF RequestInv
  <2> QED BY <1>1, <1>2, <1>3, <2>1, <2>2 DEF StoryInv
<1> QED BY <1>4, <1>5

-----------------------------------------------------------------------------
LEMMA RespondStory == ASSUME WaitInv, StoryInv, Respond PROVE StoryInv'
<1>1. handling[2] = "answer" /\ UNCHANGED log  BY DEF Respond
<1>2. CASE ~(Len(data) < Outbox)  BY <1>1, <1>2, LoseStory DEF Respond
<1>3. CASE Len(data) < Outbox
  <2> DEFINE a == handling[1]
             L == Len(data)
  <2>1. /\ data' = Append(data, a) /\ handling' = <<NoAnswer, "none">>
        /\ UNCHANGED <<subs, reqs, client, view>>
    BY <1>3 DEF Respond
  <2>2. Len(data') = L + 1 /\ L \in Nat /\ data'[L + 1] = a /\ \A k \in 1..L : data'[k] = data[k]
    BY <1>1, <1>3, <2>1, RespondFacts DEF WaitInv
  <2>3. handling'[1].id = 0 /\ handling'[2] = "none"
    BY <2>1, TypeFacts, Literals DEF WaitInv
  <2>4. a.id # 0 /\ Good(a, log)
    BY <1>1 DEF WaitInv, HandlingInv, Handling, StoryInv, AnswersInv
  <2> HIDE DEF a, L
  <2>5. AnswersInv'
    <3>1. \A k \in 1..L : Sound(data[k], log)  BY DEF StoryInv, AnswersInv, L
    <3>2. ASSUME NEW k \in 1..L + 1 PROVE Sound(data'[k], log)
      <4>1. CASE k \in 1..L  BY <2>2, <3>1, <4>1
      <4>2. CASE k = L + 1  BY <2>2, <2>4, <4>2 DEF Sound
      <4> QED BY <2>2, <4>1, <4>2
    <3> QED BY <1>1, <2>2, <2>3, <3>2 DEF AnswersInv, Handling
  <2>6. ChanInv' /\ RequestInv'  BY <1>1, <2>1 DEF StoryInv, ChanInv, RequestInv
  <2>7. Story(client, view, log, handling, data, subs)  BY DEF StoryInv
  <2>8. Due(client, view, handling', data', log.epoch)
    <3> SUFFICES ASSUME client.syncing # 0, NEW k \in 1..L + 1, data'[k].id = client.syncing
                 PROVE  Fits(data'[k], client, view, log.epoch)
      BY <2>2, <2>3 DEF Due
    <3>1. CASE k \in 1..L  BY <2>2, <2>7, <3>1 DEF Story, Due, L
    <3>2. CASE k = L + 1  BY <2>2, <2>7, <3>2 DEF Story, Due, a
    <3> QED BY <2>2, <3>1, <3>2
  <2>9. ZeroDue(client, handling', data') <=> ZeroDue(client, handling, data)
    <3>1. ASSUME ZeroDue(client, handling, data) PROVE ZeroDue(client, handling', data')
      <4>1. CASE a.id = client.syncing /\ a.latest = 0
        <5>1. L + 1 \in 1..Len(data')  BY <2>2
        <5> QED BY <2>2, <3>1, <4>1, <5>1 DEF ZeroDue
      <4>2. ASSUME NEW k \in 1..L, data[k].id = client.syncing, data[k].latest = 0
            PROVE  ZeroDue(client, handling', data')
        <5>1. k \in 1..Len(data')  BY <2>2
        <5> QED BY <2>2, <3>1, <4>2, <5>1 DEF ZeroDue
      <4> QED BY <3>1, <4>1, <4>2 DEF ZeroDue, a, L
    <3>2. ASSUME ZeroDue(client, handling', data') PROVE ZeroDue(client, handling, data)
      <4>1. PICK k \in 1..L + 1 : data'[k].id = client.syncing /\ data'[k].latest = 0
        BY <2>2, <2>3, <3>2 DEF ZeroDue
      <4>2. CASE k \in 1..L  BY <2>2, <3>2, <4>1, <4>2 DEF ZeroDue, L
      <4>3. CASE k = L + 1  BY <2>2, <3>2, <4>1, <4>3 DEF ZeroDue, a
      <4> QED BY <2>2, <4>2, <4>3
    <3> QED BY <3>1, <3>2
  <2>10. \A n : Come(n, client, view, handling, data) => Come(n, client, view, handling', data')
    BY <2>9 DEF Come
  <2>11. ASSUME NEW n, NEW m \in 0..L, Ahead(n, m, client, handling, data)
         PROVE  Ahead(n, m, client, handling', data')
    <3>1. \A j \in 1..m : data'[j] = data[j]  BY <2>2
    <3> QED BY <2>9, <2>11, <3>1 DEF Ahead
  <2>12. ASSUME NEW n, Ahead(n, L, client, handling, data)
         PROVE  Ahead(n, Len(data'), client, handling', data')
    <3>1. \A j \in 1..L : j \in 1..Len(data') /\ data'[j] = data[j]  BY <2>2
    <3> QED BY <2>9, <2>12, <3>1 DEF Ahead
  <2>13. Order(client, view, handling', data', subs, log.last)
    <3> SUFFICES ASSUME Zero(client, handling', data')
                 PROVE  /\ DataOrder(client, view, handling', data')
                        /\ SubsOrder(client, view, handling', data', subs, log.last)
      BY DEF Order
    <3>1. /\ DataOrder(client, view, handling, data)
          /\ SubsOrder(client, view, handling, data, subs, log.last)
      BY <2>7, <2>9 DEF Story, Order, Zero
    <3>2. DataOrder(client, view, handling', data')
      <4> SUFFICES ASSUME NEW k \in 1..L + 1, data'[k].id = 0, data'[k].latest >= 2
                   PROVE  \/ Come(data'[k].latest - 1, client, view, handling', data')
                          \/ Ahead(data'[k].latest - 1, k - 1, client, handling', data')
        BY <2>2 DEF DataOrder
      <4>1. k \in 1..L /\ k - 1 \in 0..L /\ data'[k] = data[k]  BY <2>2, <2>4
      <4>2. \/ Come(data[k].latest - 1, client, view, handling, data)
            \/ Ahead(data[k].latest - 1, k - 1, client, handling, data)
        BY <3>1, <4>1 DEF DataOrder, L
      <4> QED BY <2>10, <2>11, <4>1, <4>2
    <3>3. SubsOrder(client, view, handling', data', subs, log.last)
      <4> SUFFICES ASSUME NEW i \in 1..Len(subs), subs[i].state = "open" \/ subs[i].ch # <<>>,
                          NEW n, n = NextOf(subs[i], log.last), n >= 2
                   PROVE  \/ Come(n - 1, client, view, handling', data')
                          \/ Ahead(n - 1, Len(data'), client, handling', data')
        BY DEF SubsOrder
      <4>1. NextOf(subs[i], log.last) >= 2  OBVIOUS
      <4>2. \/ Come(n - 1, client, view, handling, data)
            \/ Ahead(n - 1, L, client, handling, data)
            \/ ~ZeroDue(client, handling, data)
        BY <3>1, <4>1 DEF SubsOrder, L
      <4>3. ASSUME ~ZeroDue(client, handling, data)
            PROVE  Ahead(n - 1, Len(data'), client, handling', data')
        <5>1. L + 1 \in 1..Len(data') /\ data'[L + 1].id # 0 /\ ~ZeroDue(client, handling', data')
          BY <2>2, <2>4, <2>9, <4>3
        <5> QED BY <5>1 DEF Ahead
      <4> QED BY <2>10, <2>12, <4>2, <4>3
    <3> QED BY <3>2, <3>3
  <2>14. First(client, handling', data')  BY <2>7, <2>9 DEF Story, First
  <2>15. Story(client', view', log', handling', data', subs')
    BY <1>1, <2>1, <2>7, <2>8, <2>13, <2>14 DEF Story
  <2> QED BY <2>5, <2>6, <2>15 DEF StoryInv
<1> QED BY <1>2, <1>3

LEMMA ChainTail ==
    ASSUME NEW sub \in SubType, NEW tub, NEW last \in Nat, UpTo(sub, last), sub.ch # <<>>,
           tub.ch = Tail(sub.ch), tub.state = sub.state
    PROVE  /\ UpTo(tub, last) /\ sub.ch[1] \in 1..last
           /\ tub.state = "open" \/ tub.ch # <<>> => NextOf(tub, last) = sub.ch[1] + 1
<1> DEFINE ch == sub.ch
           t == Tail(sub.ch)
<1>1. ch \in Seq(Seqs)  BY DEF SubType
<1>2. /\ Len(ch) \in Nat \ {0} /\ Len(t) = Len(ch) - 1 /\ \A k \in 1..Len(ch) - 1 : t[k] = ch[k + 1]
      /\ t # <<>> <=> Len(t) # 0
  <2>1. t \in Seq(Seqs)  BY <1>1, TailFacts
  <2> QED BY <1>1, <2>1, TailFacts, SeqFacts
<1>3. /\ \A k \in 1..Len(ch) : ch[k] = ch[1] + k - 1 /\ ch[k] \in 1..last
      /\ sub.state = "open" => ch[Len(ch)] = last
  BY DEF UpTo, Chain
<1> HIDE DEF ch, t
<1>4. ch[1] \in 1..last /\ ch[1] \in Nat /\ Len(ch) \in 1..Len(ch)  BY <1>2, <1>3
<1>5. ASSUME NEW k \in 1..Len(t) PROVE t[k] = ch[1] + k /\ t[k] \in 1..last /\ t[1] = ch[1] + 1
  <2>1. k + 1 \in 1..Len(ch) /\ k \in 1..Len(ch) - 1 /\ 1 \in 1..Len(ch) - 1 /\ 1 + 1 \in 1..Len(ch)
    BY <1>2
  <2>2. ch[k + 1] = ch[1] + (k + 1) - 1 /\ ch[1 + 1] = ch[1] + (1 + 1) - 1  BY <1>3, <2>1
  <2>3. t[k] = ch[k + 1] /\ t[1] = ch[1 + 1] /\ ch[k + 1] \in 1..last  BY <1>2, <1>3, <2>1
  <2> QED BY <1>4, <2>2, <2>3
<1>6. Chain(t, last)
  <2> SUFFICES ASSUME NEW k \in 1..Len(t) PROVE t[k] = t[1] + k - 1 /\ t[k] \in 1..last  BY DEF Chain
  <2>1. t[k] = ch[1] + k /\ t[k] \in 1..last /\ t[1] = ch[1] + 1  BY <1>5
  <2> QED BY <1>4, <2>1
<1>7. sub.state = "open" /\ t # <<>> => t[Len(t)] = last
  <2> SUFFICES ASSUME sub.state = "open", t # <<>> PROVE t[Len(t)] = last  OBVIOUS
  <2>1. Len(t) \in 1..Len(t) /\ Len(t) = Len(ch) - 1  BY <1>2
  <2>2. t[Len(t)] = ch[1] + Len(t) /\ ch[Len(ch)] = ch[1] + Len(ch) - 1 /\ ch[Len(ch)] = last
    BY <1>3, <1>4, <1>5, <2>1
  <2> QED BY <1>2, <1>4, <2>1, <2>2
<1>8. t # <<>> => t[1] = ch[1] + 1
  <2>1. t # <<>> => 1 \in 1..Len(t)  BY <1>2
  <2> QED BY <1>5, <2>1
<1>9. sub.state = "open" /\ t = <<>> => last = ch[1]
  <2>1. t = <<>> => Len(ch) = 1  BY <1>2
  <2> QED BY <1>3, <2>1
<1>10. UpTo(tub, last)  BY <1>6, <1>7 DEF UpTo, t
<1>11. tub.state = "open" \/ tub.ch # <<>> => NextOf(tub, last) = ch[1] + 1
  BY <1>8, <1>9 DEF NextOf, t
<1> QED BY <1>4, <1>10, <1>11 DEF ch

LEMMA ForwardStory == ASSUME WaitInv, StoryInv, NEW i, Forward(i) PROVE StoryInv'
<1> DEFINE L == Len(data)
           n0 == subs[i].ch[1]
           e == Event(n0)
           last == log.last
<1>1. /\ i \in 1..Len(subs) /\ Len(subs) \in Nat /\ Running(i) /\ subs[i].ch # <<>>
      /\ Len(data') = L + 1 /\ L \in Nat /\ data'[L + 1] = e /\ \A k \in 1..L : data'[k] = data[k]
      /\ Len(subs') = Len(subs) /\ subs[i] \in SubType
      /\ \A j \in 1..Len(subs) :
            /\ subs'[j].state = subs[j].state
            /\ subs'[j].ch = IF j = i THEN Tail(subs[i].ch) ELSE subs[j].ch
  BY ForwardFacts, SubsFacts DEF WaitInv
<1>2. UNCHANGED <<log, handling, reqs, client, view>>  BY DEF Forward
<1>3. e.id = 0 /\ e.latest = n0  BY DEF Event
<1>4. /\ UpTo(subs'[i], last) /\ n0 \in 1..last
      /\ subs'[i].state = "open" \/ subs'[i].ch # <<>> => NextOf(subs'[i], last) = n0 + 1
  <2>1. UpTo(subs[i], last) /\ last \in Nat  BY <1>1, Numbers DEF StoryInv, ChanInv
  <2> QED BY <1>1, <2>1, ChainTail
<1> HIDE DEF L, n0, e, last
<1>5. \A j \in 1..Len(subs) : j # i =>
         /\ UpTo(subs'[j], last) /\ NextOf(subs'[j], last) = NextOf(subs[j], last)
         /\ subs'[j].ch = subs[j].ch
  <2> SUFFICES ASSUME NEW j \in 1..Len(subs), j # i
               PROVE  /\ UpTo(subs'[j], last) /\ NextOf(subs'[j], last) = NextOf(subs[j], last)
                      /\ subs'[j].ch = subs[j].ch
    OBVIOUS
  <2>1. subs'[j].state = subs[j].state /\ subs'[j].ch = subs[j].ch  BY <1>1
  <2>2. UpTo(subs[j], last)  BY DEF StoryInv, ChanInv, last
  <2> QED BY <2>1, <2>2, ChanKeep
<1>6. ChanInv'  BY <1>1, <1>2, <1>4, <1>5 DEF ChanInv, last
<1>7. RequestInv'  BY <1>2 DEF StoryInv, RequestInv
<1>8. AnswersInv'
  <2>1. \A k \in 1..L : Sound(data[k], log)  BY DEF StoryInv, AnswersInv, L
  <2>2. ASSUME NEW k \in 1..L + 1 PROVE Sound(data'[k], log)
    <3>1. CASE k \in 1..L  BY <1>1, <2>1, <3>1
    <3>2. CASE k = L + 1  BY <1>1, <1>3, <1>4, <3>2 DEF Sound, last
    <3> QED BY <1>1, <3>1, <3>2
  <2>3. Handling' => Good(handling'[1], log')  BY <1>2 DEF StoryInv, AnswersInv, Handling
  <2> QED BY <1>1, <1>2, <2>2, <2>3 DEF AnswersInv
<1>9. Story(client, view, log, handling, data, subs)  BY DEF StoryInv
<1>10. Due(client, view, handling, data', log.epoch)
  <2> SUFFICES ASSUME client.syncing # 0, NEW k \in 1..L + 1, data'[k].id = client.syncing
               PROVE  Fits(data'[k], client, view, log.epoch)
    BY <1>1, <1>9 DEF Due, Story
  <2>1. k \in 1..L  BY <1>1, <1>3
  <2> QED BY <1>1, <1>9, <2>1 DEF Story, Due, L
<1>11. ZeroDue(client, handling, data') <=> ZeroDue(client, handling, data)
  <2>1. ASSUME ZeroDue(client, handling, data) PROVE ZeroDue(client, handling, data')
    <3>1. \A k \in 1..L : k \in 1..Len(data') /\ data'[k] = data[k]  BY <1>1
    <3> QED BY <2>1, <3>1 DEF ZeroDue, L
  <2>2. ASSUME ZeroDue(client, handling, data') PROVE ZeroDue(client, handling, data)
    <3>1. client.syncing # 0  BY <2>2 DEF ZeroDue
    <3>2. \A k \in 1..Len(data') : data'[k].id = client.syncing => k \in 1..L  BY <1>1, <1>3, <3>1
    <3> QED BY <1>1, <2>2, <3>2 DEF ZeroDue, L
  <2> QED BY <2>1, <2>2
<1>12. \A n : Come(n, client, view, handling, data) => Come(n, client, view, handling, data')
  BY <1>11 DEF Come
<1>13. ASSUME NEW n, NEW m \in 0..L, Ahead(n, m, client, handling, data)
       PROVE  Ahead(n, m, client, handling, data')
  <2>1. \A j \in 1..m : data'[j] = data[j]  BY <1>1
  <2> QED BY <1>11, <1>13, <2>1 DEF Ahead
<1>14. ASSUME NEW n, Ahead(n, L, client, handling, data)
       PROVE  Ahead(n, Len(data'), client, handling, data')
  <2>1. \A j \in 1..L : j \in 1..Len(data') /\ data'[j] = data[j]  BY <1>1
  <2> QED BY <1>11, <1>14, <2>1 DEF Ahead
<1>15. Order(client, view, handling, data', subs', last)
  <2> SUFFICES ASSUME Zero(client, handling, data')
               PROVE  /\ DataOrder(client, view, handling, data')
                      /\ SubsOrder(client, view, handling, data', subs', last)
    BY DEF Order
  <2>1. /\ DataOrder(client, view, handling, data)
        /\ SubsOrder(client, view, handling, data, subs, last)
    BY <1>9, <1>11 DEF Story, Order, Zero, last
  <2>2. DataOrder(client, view, handling, data')
    <3> SUFFICES ASSUME NEW k \in 1..L + 1, data'[k].id = 0, data'[k].latest >= 2
                 PROVE  \/ Come(data'[k].latest - 1, client, view, handling, data')
                        \/ Ahead(data'[k].latest - 1, k - 1, client, handling, data')
      BY <1>1 DEF DataOrder
    <3>1. CASE k \in 1..L
      <4>1. k - 1 \in 0..L /\ data'[k] = data[k]  BY <1>1, <3>1
      <4>2. \/ Come(data[k].latest - 1, client, view, handling, data)
            \/ Ahead(data[k].latest - 1, k - 1, client, handling, data)
        BY <2>1, <3>1, <4>1 DEF DataOrder, L
      <4> QED BY <1>12, <1>13, <4>1, <4>2
    <3>2. CASE k = L + 1
      <4>1. k - 1 = L /\ L \in 0..L /\ data'[k].latest = n0 /\ n0 >= 2
        <5>1. L \in Nat /\ data'[k] = e  BY <1>1, <3>2
        <5>2. k - 1 = L /\ L \in 0..L  BY <3>2, <5>1
        <5> QED BY <1>3, <5>1, <5>2
      <4>2. NextOf(subs[i], last) = n0  BY <1>1 DEF NextOf, n0
      <4>3. \/ Come(NextOf(subs[i], last) - 1, client, view, handling, data)
            \/ Ahead(NextOf(subs[i], last) - 1, L, client, handling, data)
            \/ ~ZeroDue(client, handling, data) /\ handling[2] # "none" /\ i = Len(subs)
        BY <1>1, <2>1, <4>1, <4>2 DEF SubsOrder, L
      <4>4. ~(handling[2] # "none" /\ i = Len(subs))  BY <1>1 DEF Running
      <4> QED BY <1>12, <1>13, <4>1, <4>2, <4>3, <4>4
    <3> QED BY <1>1, <3>1, <3>2
  <2>3. SubsOrder(client, view, handling, data', subs', last)
    <3> SUFFICES ASSUME NEW j \in 1..Len(subs), subs'[j].state = "open" \/ subs'[j].ch # <<>>,
                        NEW n, n = NextOf(subs'[j], last), n >= 2
                 PROVE  \/ Come(n - 1, client, view, handling, data')
                        \/ Ahead(n - 1, Len(data'), client, handling, data')
                        \/ ~ZeroDue(client, handling, data') /\ handling[2] # "none" /\ j = Len(subs')
      BY <1>1 DEF SubsOrder
    <3>1. CASE j = i
      <4>1. n - 1 = n0  BY <1>4, <3>1
      <4>2. L + 1 \in 1..Len(data') /\ data'[L + 1].id = 0 /\ data'[L + 1].latest = n0
        BY <1>1, <1>3
      <4> QED BY <4>1, <4>2 DEF Ahead
    <3>2. CASE j # i
      <4>1. subs[j].state = "open" \/ subs[j].ch # <<>>  BY <1>1, <1>5, <3>2
      <4>2. NextOf(subs[j], last) = n  BY <1>5, <3>2
      <4>3. \/ Come(NextOf(subs[j], last) - 1, client, view, handling, data)
            \/ Ahead(NextOf(subs[j], last) - 1, L, client, handling, data)
            \/ ~ZeroDue(client, handling, data) /\ handling[2] # "none" /\ j = Len(subs)
        BY <2>1, <4>1, <4>2 DEF SubsOrder, L
      <4> QED BY <1>1, <1>11, <1>12, <1>14, <4>2, <4>3
    <3> QED BY <3>1, <3>2
  <2> QED BY <2>2, <2>3
<1>16. First(client, handling, data')  BY <1>9, <1>11 DEF Story, First
<1>17. Story(client', view', log', handling', data', subs')
  BY <1>2, <1>9, <1>10, <1>15, <1>16 DEF Story, last
<1> QED BY <1>6, <1>7, <1>8, <1>17 DEF StoryInv

LEMMA SubscribeStory == ASSUME WaitInv, StoryInv, Subscribe PROVE StoryInv'
<1> DEFINE r == Head(reqs)
           after == IF Reset(r) THEN 0 ELSE r.after
           a == handling'[1]
           c == client
<1>1. /\ reqs # <<>> /\ r \in Request /\ r # Unsubscribe /\ handling[2] = "none"
      /\ Len(subs') = Len(subs) + 1 /\ Len(subs) \in Nat
      /\ \A i \in 1..Len(subs) : subs'[i] = subs[i]
      /\ subs'[Len(subs) + 1] = [ch |-> <<>>, state |-> "open"]
      /\ handling'[2] = "replace"
      /\ a = [id |-> r.id, epoch |-> log.epoch, reset |-> Reset(r),
               whole |-> after = 0, from |-> Larger(after, log.evicted), latest |-> log.last]
      /\ reqs' = Tail(reqs)
  BY SubscribeFacts DEF WaitInv
<1>2. UNCHANGED <<log, data, client, view>>  BY DEF Subscribe
<1>3. /\ log.last \in Nat /\ log.evicted \in Nat /\ log.evicted <= log.last /\ log.epoch \in Nat \ {0}
      /\ c.seq \in Nat /\ c.epoch \in Nat /\ view.seq \in Nat
  BY Numbers
<1>4. r.after \in Nat /\ r.epoch \in Nat  BY <1>1, Bounds DEF Request
<1>5. /\ a.id = r.id /\ a.epoch = log.epoch /\ a.reset = Reset(r) /\ a.whole = (after = 0)
      /\ a.from = Larger(after, log.evicted) /\ a.latest = log.last
  BY <1>1
<1>6. r.id # 0
  <2>1. 1 \in DOMAIN reqs /\ r = reqs[1]  BY <1>1, TypePieces, TailFacts
  <2> QED BY <1>1, <2>1 DEF WaitInv, ReqInv
<1>7. /\ a.from \in Nat /\ log.evicted <= a.from /\ a.from <= log.last
      /\ after = 0 => a.from = log.evicted
      /\ after # 0 => ~Reset(r) /\ after = r.after /\ a.from = r.after
  <2>1. Reset(r) => after = 0  OBVIOUS
  <2>2. ~Reset(r) => after = r.after /\ r.after <= log.last /\ (r.after = 0 \/ log.evicted <= r.after)
    BY <1>3, <1>4 DEF Reset
  <2> HIDE DEF after, r
  <2>3. after = 0 => a.from = log.evicted  BY <1>3, <1>5 DEF Larger
  <2>4. after # 0 => a.from = r.after  BY <1>3, <1>4, <1>5, <2>1, <2>2 DEF Larger
  <2> QED BY <1>3, <1>4, <2>1, <2>2, <2>3, <2>4
<1> HIDE DEF a
<1>8. Good(a, log)
  <2>1. Reset(r) => after = 0  OBVIOUS
  <2>2. a.whole <=> after = 0  BY <1>5
  <2>3. a.reset <=> Reset(r)  BY <1>5
  <2> HIDE DEF after, r
  <2>4. a.reset => a.whole  BY <2>1, <2>2, <2>3
  <2>5. a.whole => a.from <= log.evicted  BY <1>3, <1>7, <2>2
  <2>6. a.epoch = log.epoch /\ a.from <= a.latest /\ a.latest <= log.last  BY <1>3, <1>5, <1>7
  <2> QED BY <2>4, <2>5, <2>6 DEF Good
<1>9. AnswersInv'  BY <1>2, <1>8 DEF StoryInv, AnswersInv, a
<1>10. ChanInv'
  <2>1. UpTo([ch |-> <<>>, state |-> "open"], log.last)  BY EmptySeq DEF UpTo, Chain
  <2>2. ASSUME NEW i \in 1..Len(subs) + 1 PROVE UpTo(subs'[i], log.last)
    <3>1. CASE i \in 1..Len(subs)  BY <1>1, <3>1 DEF StoryInv, ChanInv
    <3>2. CASE i = Len(subs) + 1  BY <1>1, <2>1, <3>2
    <3> QED BY <1>1, <3>1, <3>2
  <2> QED BY <1>1, <1>2, <2>2 DEF ChanInv
<1>11. RequestInv'
  <2>1. reqs' # <<>> => Last(reqs') = Last(reqs)  BY <1>1, TypePieces, TailFacts
  <2> QED BY <1>1, <1>2, <2>1 DEF StoryInv, RequestInv
<1>12. /\ Cursor(c, view, log) /\ Viewed(view, log, c) /\ Due(c, view, handling, data, log.epoch)
       /\ Order(c, view, handling, data, subs, log.last)
  BY DEF StoryInv, Story
<1>13. c.syncing # 0 =>
          /\ handling[1].id # c.syncing /\ \A k \in 1..Len(data) : data[k].id # c.syncing
          /\ r.id = c.syncing => r = Last(reqs)
  <2> SUFFICES ASSUME c.syncing # 0
               PROVE  /\ handling[1].id # c.syncing /\ \A k \in 1..Len(data) : data[k].id # c.syncing
                      /\ r.id = c.syncing => r = Last(reqs)
    OBVIOUS
  <2>1. Turn(c.syncing, reqs, handling, data)  BY DEF WaitInv, TurnInv, Waits
  <2>2. /\ \A k \in 1..Len(reqs) - 1 : reqs[k].id # c.syncing
        /\ handling[1].id # c.syncing /\ \A k \in DOMAIN data : data[k].id # c.syncing
    BY <1>1, <2>1 DEF Turn
  <2>3. /\ Len(reqs) \in Nat \ {0} /\ r = reqs[1] /\ DOMAIN data = 1..Len(data)
        /\ Last(reqs) = reqs[Len(reqs)]
    BY <1>1, TypePieces, TailFacts, SeqFacts
  <2>4. r.id = c.syncing => Len(reqs) = 1
    <3>1. Len(reqs) \in Nat \ {0}  BY <2>3
    <3>2. Len(reqs) # 1 => 1 \in 1..Len(reqs) - 1  BY ONLY <3>1
    <3> HIDE DEF r
    <3> QED BY <2>2, <2>3, <3>2
  <2> QED BY <2>2, <2>3, <2>4
<1>14. ASSUME c.syncing # 0, a.id = c.syncing PROVE Fits(a, c, view, log.epoch)
  <2>1. r.after <= c.seq /\ r.epoch = c.epoch
    BY <1>1, <1>5, <1>13, <1>14 DEF StoryInv, RequestInv
  <2>2. ~a.whole => a.from <= c.seq /\ a.epoch = c.epoch
    <3> SUFFICES ASSUME after # 0 PROVE a.from <= c.seq /\ a.epoch = c.epoch  BY <1>5
    <3>1. ~Reset(r) /\ a.from = r.after /\ r.after # 0  BY <1>7
    <3>2. c.seq # 0  BY <1>3, <1>4, <2>1, <3>1
    <3>3. c.epoch # 0  BY <1>12, <3>2 DEF Cursor
    <3>4. r.epoch = log.epoch  BY <2>1, <3>1, <3>3 DEF Reset
    <3> QED BY <1>5, <2>1, <3>1, <3>4
  <2>3. a.reset /\ c.synced => a.latest > 0
    <3> SUFFICES ASSUME Reset(r), c.synced PROVE log.last > 0  BY <1>5
    <3>1. c.epoch = log.epoch /\ c.seq <= log.last  BY <1>12 DEF Cursor
    <3>2. r.after > 0 /\ r.after < log.evicted
      <4>1. ~(r.after > log.last)  BY <1>3, <1>4, <2>1, <3>1
      <4> QED BY <2>1, <3>1, <4>1 DEF Reset
    <3> QED BY <1>3, <1>4, <3>2
  <2>4. view.logs = {log.epoch} => ShownFrom(view, log.epoch, a.from)
    <3>1. \A s \in a.from + 1..view.seq : s \in log.evicted + 1..view.seq  BY <1>3, <1>7
    <3> QED BY <1>12, <3>1 DEF Viewed, ShownFrom
  <2> QED BY <2>2, <2>3, <2>4 DEF Fits
<1>15. Due(c, view, handling', data, log.epoch)  BY <1>12, <1>14 DEF Due, a
<1>16. ~ZeroDue(c, handling, data)  BY <1>13 DEF ZeroDue
<1>17. ZeroDue(c, handling', data) => log.last = 0  BY <1>5, <1>13 DEF ZeroDue, a
<1>18. Order(c, view, handling', data, subs', log.last)
  <2>1. CASE log.last = 0
    <3>1. ASSUME NEW k \in 1..Len(data), data[k].id = 0 PROVE FALSE
      <4>1. data[k].latest \in 1..log.last  BY <3>1 DEF StoryInv, AnswersInv, Sound
      <4> QED BY <2>1, <4>1
    <3>2. ASSUME NEW i \in 1..Len(subs) + 1 PROVE ~(NextOf(subs'[i], log.last) >= 2)
      <4>1. subs'[i].ch = <<>>
        <5>1. CASE i = Len(subs) + 1  BY <1>1, <5>1
        <5>2. CASE i \in 1..Len(subs)
          <6>1. subs[i].ch \in Seq(Seqs)  BY <5>2, SubsFacts DEF WaitInv
          <6>2. \A k \in 1..Len(subs[i].ch) : subs[i].ch[k] \in 1..0
            BY <2>1, <5>2 DEF StoryInv, ChanInv, UpTo, Chain
          <6>3. \A k \in 1..Len(subs[i].ch) : FALSE  BY <6>2
          <6>4. subs[i].ch = <<>>  BY <6>1, <6>3, SeqFacts
          <6> QED BY <1>1, <5>2, <6>4
        <5> QED BY <1>1, <5>1, <5>2
      <4> QED BY <2>1, <4>1 DEF NextOf
    <3>3. DataOrder(c, view, handling', data)  BY <3>1 DEF DataOrder
    <3>4. SubsOrder(c, view, handling', data, subs', log.last)  BY <1>1, <3>2 DEF SubsOrder
    <3> QED BY <3>3, <3>4 DEF Order
  <2>2. CASE log.last # 0
    <3> SUFFICES ASSUME Zero(c, handling', data)
                 PROVE  /\ DataOrder(c, view, handling', data)
                        /\ SubsOrder(c, view, handling', data, subs', log.last)
      BY DEF Order
    <3>1. ~ZeroDue(c, handling', data)  BY <1>17, <2>2
    <3>2. DataOrder(c, view, handling, data) /\ SubsOrder(c, view, handling, data, subs, log.last)
      BY <1>12, <3>1 DEF Order, Zero
    <3>3. \A n : Come(n, c, view, handling, data) => Come(n, c, view, handling', data)
      BY <1>16, <3>1 DEF Come
    <3>4. \A n, m : Ahead(n, m, c, handling, data) => Ahead(n, m, c, handling', data)
      BY <1>16, <3>1 DEF Ahead
    <3>5. DataOrder(c, view, handling', data)  BY <3>2, <3>3, <3>4 DEF DataOrder
    <3>6. SubsOrder(c, view, handling', data, subs', log.last)
      <4> SUFFICES ASSUME NEW i \in 1..Len(subs) + 1, subs'[i].state = "open" \/ subs'[i].ch # <<>>,
                          NEW n, n = NextOf(subs'[i], log.last), n >= 2
                   PROVE  \/ Come(n - 1, c, view, handling', data)
                          \/ Ahead(n - 1, Len(data), c, handling', data)
                          \/ ~ZeroDue(c, handling', data) /\ handling'[2] # "none" /\ i = Len(subs')
        BY <1>1 DEF SubsOrder
      <4>1. CASE i \in 1..Len(subs)
        <5>1. subs[i].state = "open" \/ subs[i].ch # <<>>  BY <1>1, <4>1
        <5>2. NextOf(subs[i], log.last) = n  BY <1>1, <4>1
        <5>3. \/ Come(NextOf(subs[i], log.last) - 1, c, view, handling, data)
              \/ Ahead(NextOf(subs[i], log.last) - 1, Len(data), c, handling, data)
          BY <1>1, <3>2, <4>1, <5>1, <5>2 DEF SubsOrder
        <5> QED BY <3>3, <3>4, <5>2, <5>3
      <4>2. CASE i = Len(subs) + 1  BY <1>1, <3>1, <4>2
      <4> QED BY <1>1, <4>1, <4>2
    <3> QED BY <3>5, <3>6
  <2> QED BY <2>1, <2>2
<1>19. First(c, handling', data)
  <2> SUFFICES ASSUME ZeroDue(c, handling', data), c.pending # <<>> PROVE FALSE  BY DEF First
  <2>1. Len(c.pending) # 0 /\ Len(c.pending) \in Nat  BY Numbers
  <2>2. c.pending[1] \in 1..log.last  BY <1>12, <2>1 DEF Cursor
  <2> QED BY <1>17, <2>2
<1>20. Story(client', view', log', handling', data', subs')
  BY <1>2, <1>12, <1>15, <1>18, <1>19 DEF Story
<1> QED BY <1>9, <1>10, <1>11, <1>20 DEF StoryInv

-----------------------------------------------------------------------------
(* One more event is shown. *)
LEMMA ShowStory ==
    ASSUME NEW v \in ViewType, NEW s \in Seqs, s <= v.seq + 1
    PROVE  LET w == Show(v, s) IN
           /\ w.logs = v.logs /\ w.seq \in Nat /\ v.seq \in Nat /\ v.seq <= w.seq /\ s <= w.seq
           /\ w.seq = v.seq \/ w.seq = s
           /\ \A f \in Nat : ShownFrom(v, log.epoch, f) => ShownFrom(w, log.epoch, f)
<1> DEFINE w == Show(v, s)
<1>1. s \in Nat /\ v.seq \in Nat  BY Bounds DEF ViewType
<1>2. CASE s <= v.seq
  <2>1. w = v  BY <1>2 DEF Show
  <2> HIDE DEF w
  <2>2. v.seq <= v.seq  BY <1>1
  <2> QED BY <1>1, <1>2, <2>1, <2>2 DEF w
<1>3. CASE ~(s <= v.seq)
  <2>1. w = [v EXCEPT !.seq = s, !.shown = v.shown \cup {<<log.epoch, s>>}]  BY <1>3 DEF Show
  <2>2. w.seq = s /\ w.logs = v.logs /\ w.shown = v.shown \cup {<<log.epoch, s>>}
    BY <2>1 DEF ViewType
  <2> HIDE DEF w
  <2>3. ASSUME NEW f \in Nat, ShownFrom(v, log.epoch, f), NEW t \in f + 1..w.seq
        PROVE  <<log.epoch, t>> \in w.shown
    <3>1. CASE t = s  BY <2>2, <3>1
    <3>2. CASE t # s
      <4>1. t \in f + 1..v.seq  BY <1>1, <1>3, <2>2, <3>2
      <4> QED BY <2>2, <2>3, <4>1 DEF ShownFrom
    <3> QED BY <3>1, <3>2
  <2> QED BY <1>1, <1>3, <2>2, <2>3 DEF ShownFrom, w
<1> QED BY <1>2, <1>3

LEMMA TailZero ==
    ASSUME NEW c, NEW h, NEW ds \in Seq(Answer), ds # <<>>, c.syncing # 0 => ds[1].id # c.syncing
    PROVE  ZeroDue(c, h, Tail(ds)) <=> ZeroDue(c, h, ds)
<1>1. /\ Len(ds) \in Nat \ {0} /\ Len(Tail(ds)) = Len(ds) - 1
      /\ \A k \in 1..Len(ds) - 1 : Tail(ds)[k] = ds[k + 1]
  BY TailFacts
<1>2. ASSUME ZeroDue(c, h, Tail(ds)) PROVE ZeroDue(c, h, ds)
  <2>1. \A k \in 1..Len(Tail(ds)) : k + 1 \in 1..Len(ds) /\ Tail(ds)[k] = ds[k + 1]  BY <1>1
  <2> QED BY <1>2, <2>1 DEF ZeroDue
<1>3. ASSUME ZeroDue(c, h, ds) PROVE ZeroDue(c, h, Tail(ds))
  <2>1. c.syncing # 0  BY <1>3 DEF ZeroDue
  <2>2. ASSUME NEW k \in 1..Len(ds), ds[k].id = c.syncing
        PROVE  k - 1 \in 1..Len(Tail(ds)) /\ Tail(ds)[k - 1] = ds[k]
    <3>1. k # 1  BY <2>1, <2>2
    <3>2. k - 1 \in 1..Len(ds) - 1 /\ k - 1 + 1 = k  BY <3>1
    <3> QED BY <1>1, <3>2
  <2> QED BY <1>3, <2>2 DEF ZeroDue
<1> QED BY <1>2, <1>3

LEMMA TailDue ==
    ASSUME NEW c, NEW v, NEW h, NEW ds \in Seq(Answer), ds # <<>>, NEW e, Due(c, v, h, ds, e)
    PROVE  Due(c, v, h, Tail(ds), e)
<1>1. \A k \in 1..Len(Tail(ds)) : \E j \in 1..Len(ds) : Tail(ds)[k] = ds[j]
  <2>1. /\ DOMAIN Tail(ds) = 1..Len(Tail(ds)) /\ DOMAIN ds = 1..Len(ds)
        /\ \A k \in DOMAIN Tail(ds) : \E j \in DOMAIN ds : Tail(ds)[k] = ds[j]
    BY TailPart
  <2> QED BY <2>1
<1> QED BY <1>1 DEF Due

LEMMA TailAnswers ==
    ASSUME WaitInv, StoryInv, data # <<>>, data' = Tail(data), UNCHANGED <<log, subs, handling>>
    PROVE  AnswersInv' /\ ChanInv'
<1>1. \A k \in 1..Len(data') : \E j \in 1..Len(data) : data'[k] = data[j]
  <2>1. /\ DOMAIN data' = 1..Len(data') /\ DOMAIN data = 1..Len(data)
        /\ \A k \in DOMAIN data' : \E j \in DOMAIN data : data'[k] = data[j]
    BY TypePieces, TailPart
  <2> QED BY <2>1
<1> QED BY <1>1 DEF StoryInv, AnswersInv, ChanInv, Handling

(* The first message is an event that has come now; d and w have gone on. *)
LEMMA TailOrder ==
    ASSUME NEW c, NEW d, NEW v, NEW w, NEW h, NEW ds \in Seq(Answer), NEW ss, NEW last \in Nat,
           Order(c, v, h, ds, ss, last), ds # <<>>, ds[1].id = 0,
           \A k \in 1..Len(ss) : ss[k].ch # <<>> => ss[k].ch[1] \in Nat,
           c.synced, d.synced, d.syncing = c.syncing, c.seq \in Nat, d.seq \in Nat, c.seq <= d.seq,
           v.seq \in Nat, w.seq \in Nat, v.seq <= w.seq,
           ds[1].latest <= d.seq, ds[1].latest <= w.seq
    PROVE  Order(d, w, h, Tail(ds), ss, last)
<1> DEFINE t == Tail(ds)
<1>1. /\ Len(ds) \in Nat \ {0} /\ Len(t) = Len(ds) - 1 /\ t \in Seq(Answer)
      /\ \A k \in 1..Len(ds) - 1 : t[k] = ds[k + 1]
  BY TailFacts
<1>2. (ZeroDue(c, h, t) <=> ZeroDue(c, h, ds)) /\ (ZeroDue(d, h, t) <=> ZeroDue(c, h, ds))
  <2>1. ZeroDue(c, h, t) <=> ZeroDue(c, h, ds)  BY TailZero
  <2>2. ZeroDue(d, h, t) <=> ZeroDue(c, h, t)  BY DEF ZeroDue
  <2> QED BY <2>1, <2>2
<1>3. \A k \in 1..Len(t) : t[k].latest \in Nat
  <2>1. \A k \in 1..Len(t) : t[k] \in Answer  BY <1>1, SeqFacts
  <2> QED BY <2>1, Bounds DEF Answer
<1> HIDE DEF t
<1> SUFFICES ASSUME Zero(d, h, t) PROVE DataOrder(d, w, h, t) /\ SubsOrder(d, w, h, t, ss, last)
  BY DEF Order, t
<1>4. Zero(c, h, ds)
  <2>1. d.seq = 0 => c.seq = 0  OBVIOUS
  <2> QED BY <1>2, <2>1 DEF Zero
<1>5. DataOrder(c, v, h, ds) /\ SubsOrder(c, v, h, ds, ss, last)  BY <1>4 DEF Order
<1>6. ASSUME NEW n \in Int, Come(n, c, v, h, ds) PROVE Come(n, d, w, h, t)
  <2>1. (n <= c.seq => n <= d.seq) /\ (n <= v.seq => n <= w.seq)  OBVIOUS
  <2> QED BY <1>2, <1>6, <2>1 DEF Come
<1>7. Come(ds[1].latest, d, w, h, t)  BY DEF Come
<1>8. ASSUME NEW n \in Int, NEW m \in 1..Len(ds), Ahead(n, m, c, h, ds)
      PROVE  Come(n, d, w, h, t) \/ Ahead(n, m - 1, d, h, t)
  <2>1. PICK j \in 1..m : \/ ds[j].id = 0 /\ ds[j].latest = n
                          \/ ds[j].id # 0 /\ ~ZeroDue(c, h, ds)
    BY <1>8 DEF Ahead
  <2>2. CASE j = 1  BY <1>7, <2>1, <2>2
  <2>3. CASE j # 1
    <3>1. j - 1 \in 1..m - 1 /\ j - 1 \in 1..Len(ds) - 1 /\ j - 1 + 1 = j  BY <1>1, <2>3
    <3>2. t[j - 1] = ds[j]  BY <1>1, <3>1
    <3> QED BY <1>2, <2>1, <3>1, <3>2 DEF Ahead
  <2> QED BY <2>2, <2>3
<1>9. DataOrder(d, w, h, t)
  <2> SUFFICES ASSUME NEW k \in 1..Len(t), t[k].id = 0, NEW n, n = t[k].latest, n >= 2
               PROVE  Come(n - 1, d, w, h, t) \/ Ahead(n - 1, k - 1, d, h, t)
    BY DEF DataOrder
  <2>1. k + 1 \in 1..Len(ds) /\ ds[k + 1] = t[k] /\ k + 1 - 1 = k /\ k \in 1..Len(ds)  BY <1>1
  <2>2. n \in Nat /\ n - 1 \in Int  BY <1>3
  <2>3. ds[k + 1].id = 0 /\ ds[k + 1].latest = n  BY <2>1
  <2>4. Come(n - 1, c, v, h, ds) \/ Ahead(n - 1, k, c, h, ds)  BY <1>5, <2>1, <2>3 DEF DataOrder
  <2> QED BY <1>6, <1>8, <2>1, <2>2, <2>4
<1>10. SubsOrder(d, w, h, t, ss, last)
  <2> SUFFICES ASSUME NEW i \in 1..Len(ss), ss[i].state = "open" \/ ss[i].ch # <<>>,
                      NEW n, n = NextOf(ss[i], last), n >= 2
               PROVE  \/ Come(n - 1, d, w, h, t) \/ Ahead(n - 1, Len(t), d, h, t)
                      \/ ~ZeroDue(d, h, t) /\ h[2] # "none" /\ i = Len(ss)
    BY DEF SubsOrder
  <2>1. NextOf(ss[i], last) >= 2  OBVIOUS
  <2>2. \/ Come(n - 1, c, v, h, ds) \/ Ahead(n - 1, Len(ds), c, h, ds)
        \/ ~ZeroDue(c, h, ds) /\ h[2] # "none" /\ i = Len(ss)
    BY <1>5, <2>1 DEF SubsOrder
  <2>3. n - 1 \in Int
    <3>1. n \in Nat  BY DEF NextOf
    <3> QED BY <3>1
  <2>4. Len(ds) \in 1..Len(ds)  BY <1>1
  <2> QED BY <1>1, <1>2, <1>6, <1>8, <2>2, <2>3, <2>4
<1> QED BY <1>9, <1>10

(* What comes first: the event the transcript waits for, as long as the     *)
(* client has an empty log to know of.                                     *)
LEMMA HeadFacts ==
    ASSUME WaitInv, StoryInv, data # <<>>, data[1].id = 0
    PROVE  /\ data[1].latest \in 1..log.last /\ data[1].latest \in Seqs
           /\ Zero(client, handling, data) /\ data[1].latest >= 2 =>
                 Come(data[1].latest - 1, client, view, handling, data)
           /\ \A k \in 1..Len(subs) : subs[k].ch # <<>> => subs[k].ch[1] \in Nat
<1>1. /\ 1 \in 1..Len(data) /\ data[1] \in Answer /\ data[1].latest \in Seqs
  <2>1. 1 \in 1..Len(data) /\ data[1] \in Answer  BY TypePieces, TailFacts
  <2> QED BY <2>1 DEF Answer
<1>2. data[1].latest \in 1..log.last  BY <1>1 DEF StoryInv, AnswersInv, Sound
<1>3. ASSUME Zero(client, handling, data), data[1].latest >= 2
      PROVE Come(data[1].latest - 1, client, view, handling, data)
  <2>1. DataOrder(client, view, handling, data)  BY <1>3 DEF StoryInv, Story, Order
  <2>2. ~Ahead(data[1].latest - 1, 1 - 1, client, handling, data)  BY DEF Ahead
  <2> QED BY <1>1, <1>3, <2>1, <2>2 DEF DataOrder
<1>4. ASSUME NEW k \in 1..Len(subs), subs[k].ch # <<>> PROVE subs[k].ch[1] \in Nat
  <2>1. subs[k].ch \in Seq(Seqs)  BY SubsFacts DEF WaitInv
  <2>2. subs[k].ch[1] \in Seqs  BY <1>4, <2>1, TailFacts
  <2> QED BY <2>2, Bounds
<1> QED BY <1>1, <1>2, <1>3, <1>4

(* An event that waits for the answer. *)
LEMMA PendingStory ==
    ASSUME WaitInv, StoryInv, data # <<>>, data[1].id = 0, NEW c, ~client.synced,
           c.seq = client.seq, c.epoch = client.epoch, c.from = client.from, ~c.synced,
           c.syncing = client.syncing,
           \/ Len(client.pending) < Pending /\ c.pending = Append(client.pending, data[1].latest)
           \/ ~(Len(client.pending) < Pending) /\ c.pending = client.pending
    PROVE  Story(c, view, log, handling, Tail(data), subs)
<1> DEFINE p == client.pending
           q == c.pending
           s == data[1].latest
           t == Tail(data)
<1>1. /\ s \in 1..log.last /\ s \in Seqs
      /\ Zero(client, handling, data) /\ s >= 2 => Come(s - 1, client, view, handling, data)
  BY HeadFacts
<1>2. p \in Seq(Seqs) /\ Len(p) \in Nat /\ (p # <<>> <=> Len(p) # 0)  BY Numbers
<1>3. Story(client, view, log, handling, data, subs) /\ data \in Seq(Answer)
  BY TypePieces DEF StoryInv
<1>4. \/ /\ q = Append(p, s) /\ q # <<>> /\ Len(q) = Len(p) + 1
         /\ \A k \in 1..Len(p) : q[k] = p[k]
         /\ q[Len(p) + 1] = s
      \/ q = p /\ p # <<>>
  <2>1. CASE Len(p) < Pending /\ q = Append(p, s)  BY <1>1, <1>2, <2>1, AppendFacts
  <2>2. CASE ~(Len(p) < Pending) /\ q = p  BY <1>2, <2>2, Bounds
  <2> QED BY <2>1, <2>2
<1>5. \A k \in 1..Len(p) : p[k] \in 1..log.last  BY <1>3 DEF Story, Cursor
<1> HIDE DEF p, q, s, t
<1>6. \A k \in 1..Len(q) : q[k] \in 1..log.last  BY <1>1, <1>2, <1>4, <1>5
<1>7. Cursor(c, view, log)  BY <1>3, <1>6 DEF Story, Cursor, q
<1>8. Viewed(view, log, c)  BY <1>3 DEF Story, Viewed
<1>9. Due(c, view, handling, t, log.epoch)
  <2>1. Due(client, view, handling, t, log.epoch)  BY <1>3, TailDue DEF Story, t
  <2> QED BY <2>1 DEF Due, Fits
<1>10. ZeroDue(c, handling, t) <=> ZeroDue(client, handling, data)
  <2>1. ZeroDue(client, handling, t) <=> ZeroDue(client, handling, data)  BY <1>3, TailZero DEF t
  <2> QED BY <2>1 DEF ZeroDue
<1>11. q # <<>>  BY <1>4
<1>12. Order(c, view, handling, t, subs, log.last)
  <2> SUFFICES ASSUME ZeroDue(c, handling, t)
               PROVE  DataOrder(c, view, handling, t) /\ SubsOrder(c, view, handling, t, subs, log.last)
    BY DEF Order, Zero
  <2>1. \A n : Come(n, c, view, handling, t)  BY <1>11 DEF Come, q
  <2> QED BY <2>1 DEF DataOrder, SubsOrder
<1>13. First(c, handling, t)
  <2> SUFFICES ASSUME ZeroDue(client, handling, data) PROVE q[1] = 1  BY <1>10 DEF First, q
  <2>1. CASE p # <<>>
    <3>1. p[1] = 1  BY <1>3, <2>1 DEF Story, First, p
    <3>2. 1 \in 1..Len(p)  BY <1>2, <2>1
    <3> QED BY <1>4, <3>1, <3>2
  <2>2. CASE p = <<>>
    <3>1. q[1] = s  BY <1>2, <1>4, <2>2
    <3>2. ~Come(s - 1, client, view, handling, data)  BY <2>2 DEF Come, p
    <3>3. ~(s >= 2)  BY <1>1, <3>2 DEF Zero
    <3> QED BY <1>1, <3>1, <3>3
  <2> QED BY <2>1, <2>2
<1> QED BY <1>7, <1>8, <1>9, <1>12, <1>13 DEF Story, t

(* An event that the registration passes on, or has passed on already. *)
LEMMA PassedStory ==
    ASSUME WaitInv, StoryInv, data # <<>>, data[1].id = 0, client.synced,
           NEW c, NEW w,
           c.epoch = client.epoch, c.from = client.from, c.synced, c.pending = client.pending,
           c.syncing = client.syncing,
           \/ data[1].latest <= client.seq /\ c.seq = client.seq /\ w = view
           \/ /\ ~(data[1].latest <= client.seq) /\ ~(client.seq > 0 /\ data[1].latest > client.seq + 1)
              /\ c.seq = data[1].latest /\ w = Show(view, data[1].latest)
    PROVE  Story(c, w, log, handling, Tail(data), subs) /\ client.seq <= c.seq
<1> DEFINE s == data[1].latest
           t == Tail(data)
<1>1. /\ s \in 1..log.last /\ s \in Seqs
      /\ Zero(client, handling, data) /\ s >= 2 => Come(s - 1, client, view, handling, data)
      /\ \A k \in 1..Len(subs) : subs[k].ch # <<>> => subs[k].ch[1] \in Nat
  BY HeadFacts
<1>2. Story(client, view, log, handling, data, subs) /\ data \in Seq(Answer) /\ view \in ViewType
  BY TypePieces DEF StoryInv
<1>3. /\ client.seq \in Nat /\ view.seq \in Nat /\ log.last \in Nat /\ log.evicted \in Nat /\ client.from \in Nat
      /\ \A a \in Answer : a.from \in Nat
      /\ \A k \in 1..Len(data) : data[k] \in Answer
      /\ handling[1] \in Answer
  BY Numbers
<1>4. /\ client.pending = <<>> /\ client.epoch = log.epoch /\ client.seq <= log.last
      /\ log.epoch \in view.logs /\ client.seq <= view.seq
  BY <1>2 DEF Story, Cursor
<1> HIDE DEF s, t
<1>5. /\ c.seq \in Nat /\ client.seq <= c.seq /\ s <= c.seq /\ c.seq <= log.last
      /\ w.seq \in Nat /\ view.seq <= w.seq /\ s <= w.seq /\ c.seq <= w.seq
      /\ w.logs = view.logs /\ (w.seq = view.seq \/ w.seq = s)
      /\ \A f \in Nat : ShownFrom(view, log.epoch, f) => ShownFrom(w, log.epoch, f)
  <2>1. CASE s <= client.seq /\ c.seq = client.seq /\ w = view
    BY <1>1, <1>3, <1>4, <2>1
  <2>2. CASE /\ ~(s <= client.seq) /\ ~(client.seq > 0 /\ s > client.seq + 1)
             /\ c.seq = s /\ w = Show(view, s)
    <3>1. s <= view.seq + 1
      <4>1. CASE client.seq > 0  BY <1>1, <1>3, <1>4, <2>2, <4>1
      <4>2. CASE client.seq = 0 /\ s >= 2
        <5>1. Come(s - 1, client, view, handling, data)  BY <1>1, <4>2 DEF Zero
        <5>2. s - 1 <= client.seq \/ s - 1 <= view.seq  BY <5>1 DEF Come
        <5> QED BY <1>1, <1>3, <4>2, <5>2
      <4> QED BY <1>1, <1>3, <4>1, <4>2
    <3>2. /\ w.logs = view.logs /\ w.seq \in Nat /\ view.seq <= w.seq /\ s <= w.seq
          /\ w.seq = view.seq \/ w.seq = s
          /\ \A f \in Nat : ShownFrom(view, log.epoch, f) => ShownFrom(w, log.epoch, f)
      BY <1>1, <1>2, <2>2, <3>1, ShowStory
    <3>3. c.seq \in Nat /\ client.seq <= c.seq /\ s <= c.seq /\ c.seq <= log.last /\ c.seq <= w.seq
      BY <1>1, <1>3, <2>2, <3>2
    <3> QED BY <3>2, <3>3
  <2> QED BY <2>1, <2>2 DEF s
<1>6. Cursor(c, w, log)
  <2>1. Len(<<>>) = 0  BY EmptySeq
  <2>2. c.pending = <<>> /\ c.epoch = log.epoch /\ log.epoch \in Nat \ {0}  BY <1>4, Numbers
  <2>3. c.epoch <= log.epoch /\ c.epoch # 0  BY <2>2
  <2>4. log.epoch \in w.logs  BY <1>4, <1>5
  <2>5. \A k \in 1..Len(c.pending) : c.pending[k] \in 1..log.last  BY <2>1, <2>2
  <2> QED BY <1>5, <2>2, <2>3, <2>4, <2>5 DEF Cursor
<1>7. Viewed(w, log, c)
  <2>1. /\ view.logs \subseteq 1..log.epoch
        /\ view.logs = {log.epoch} => view.seq <= log.last /\ ShownFrom(view, log.epoch, log.evicted)
        /\ client.epoch # 0 /\ view.logs \subseteq {client.epoch} => ShownFrom(view, client.epoch, client.from)
    BY <1>2 DEF Story, Viewed
  <2>2. w.logs # {}  BY <1>4, <1>5
  <2>3. w.logs = {log.epoch} => w.seq <= log.last /\ ShownFrom(w, log.epoch, log.evicted)
    BY <1>1, <1>3, <1>5, <2>1
  <2>4. c.epoch # 0 /\ w.logs \subseteq {c.epoch} => ShownFrom(w, c.epoch, c.from)
    BY <1>3, <1>4, <1>5, <2>1
  <2> QED BY <1>5, <2>1, <2>2, <2>3, <2>4 DEF Viewed
<1>8. Due(c, w, handling, t, log.epoch)
  <2>1. ASSUME NEW a \in Answer, Fits(a, client, view, log.epoch) PROVE Fits(a, c, w, log.epoch)
    <3>1. ~a.whole => a.from <= c.seq /\ a.epoch = c.epoch  BY <1>3, <1>5, <2>1 DEF Fits
    <3>2. a.reset /\ c.synced => a.latest > 0  BY <2>1 DEF Fits
    <3>3. w.logs = {log.epoch} => ShownFrom(w, log.epoch, a.from)  BY <1>3, <1>5, <2>1 DEF Fits
    <3> QED BY <3>1, <3>2, <3>3 DEF Fits
  <2>2. Due(client, view, handling, t, log.epoch)  BY <1>2, TailDue DEF Story, t
  <2>3. \A k \in 1..Len(t) : t[k] \in Answer  BY <1>2, TailFacts, SeqFacts DEF t
  <2> QED BY <1>3, <2>1, <2>2, <2>3 DEF Due
<1>9. Order(c, w, handling, t, subs, log.last)
  <2>1. Order(client, view, handling, data, subs, log.last)  BY <1>2 DEF Story
  <2>2. data[1].latest <= c.seq /\ data[1].latest <= w.seq  BY <1>5 DEF s
  <2> QED BY <1>1, <1>2, <1>3, <1>5, <2>1, <2>2, TailOrder DEF t
<1>10. First(c, handling, t)  BY DEF First
<1> QED BY <1>5, <1>6, <1>7, <1>8, <1>9, <1>10 DEF Story, t

(* A gap: the client cannot be one that an empty log was shown to. *)
LEMMA GapStory ==
    ASSUME WaitInv, StoryInv, data # <<>>, data[1].id = 0, client.synced,
           client.seq > 0, data[1].latest > client.seq + 1
    PROVE  Story(client, view, log, handling, Tail(data), subs)
<1>1. /\ data[1].latest \in Nat /\ client.seq \in Nat
      /\ Zero(client, handling, data) /\ data[1].latest >= 2 =>
            Come(data[1].latest - 1, client, view, handling, data)
  BY HeadFacts, Numbers
<1>2. Story(client, view, log, handling, data, subs) /\ data \in Seq(Answer)
  BY TypePieces DEF StoryInv
<1>3. ~ZeroDue(client, handling, data)
  <2> SUFFICES ASSUME ZeroDue(client, handling, data) PROVE FALSE  OBVIOUS
  <2>1. data[1].latest >= 2  BY <1>1
  <2>2. data[1].latest - 1 <= client.seq  BY <1>1, <2>1 DEF Zero, Come
  <2> QED BY <1>1, <2>2
<1>4. ~ZeroDue(client, handling, Tail(data))  BY <1>2, <1>3, TailZero
<1>5. ~Zero(client, handling, Tail(data))  BY <1>1, <1>4 DEF Zero
<1>6. Due(client, view, handling, Tail(data), log.epoch)  BY <1>2, TailDue DEF Story
<1>7. Order(client, view, handling, Tail(data), subs, log.last)  BY <1>5 DEF Order
<1>8. First(client, handling, Tail(data))  BY DEF First
<1> QED BY <1>2, <1>6, <1>7, <1>8 DEF Story

LEMMA ReceiveEventStory == ASSUME WaitInv, StoryInv, ReceiveEvent PROVE StoryInv'
<1> DEFINE s == Head(data).latest
           d0 == [seq |-> client.seq, view |-> view, gap |-> FALSE]
           d == DeliverEvent(d0, s)
<1>1. /\ data # <<>> /\ IsEvent(Head(data)) /\ data' = Tail(data)
      /\ UNCHANGED <<log, subs, handling>>
  BY DEF ReceiveEvent
<1>2. Head(data) = data[1] /\ data[1].id = 0 /\ s = data[1].latest
  BY <1>1, TypePieces, TailFacts DEF IsEvent
<1>3. AnswersInv' /\ ChanInv'  BY <1>1, TailAnswers
<1>4. IF ~client.here THEN UNCHANGED <<client, view, reqs>>
      ELSE IF ~client.synced
      THEN /\ client' = IF Len(client.pending) < Pending
                        THEN [client EXCEPT !.pending = Append(@, s)] ELSE client
           /\ UNCHANGED <<view, reqs>>
      ELSE /\ view' = d.view
           /\ IF d.gap THEN Sync(client)
              ELSE client' = [client EXCEPT !.seq = d.seq] /\ UNCHANGED reqs
  BY DEF ReceiveEvent
<1>5. client \in ClientType /\ client.seq \in Nat  BY TypePieces, Numbers
<1>6. CASE ~client.here
  <2>1. client = Nobody /\ UNCHANGED <<client, view, reqs>>  BY <1>4, <1>6 DEF WaitInv, HereInv
  <2>2. Story(client, view, log, handling, data', subs)  BY <2>1, FreshStory
  <2> QED BY <1>1, <1>3, <2>1, <2>2 DEF StoryInv, RequestInv
<1>7. CASE client.here /\ ~client.synced
  <2>1. /\ client' = IF Len(client.pending) < Pending
                     THEN [client EXCEPT !.pending = Append(client.pending, s)] ELSE client
        /\ UNCHANGED <<view, reqs>>
    BY <1>4, <1>7
  <2> HIDE DEF s
  <2>2. /\ client'.seq = client.seq /\ client'.epoch = client.epoch /\ client'.from = client.from
        /\ client'.synced = client.synced /\ client'.syncing = client.syncing
        /\ \/ Len(client.pending) < Pending /\ client'.pending = Append(client.pending, s)
           \/ ~(Len(client.pending) < Pending) /\ client'.pending = client.pending
    BY <1>5, <2>1 DEF ClientType
  <2>3. ~client'.synced  BY <1>7, <2>2
  <2>4. Story(client', view, log, handling, Tail(data), subs)
    BY <1>1, <1>2, <1>7, <2>2, <2>3, PendingStory
  <2>5. RequestInv'  BY <2>1, <2>2 DEF StoryInv, RequestInv
  <2> QED BY <1>1, <1>3, <2>1, <2>4, <2>5 DEF StoryInv
<1>8. CASE client.here /\ client.synced
  <2>1. /\ view' = d.view
        /\ IF d.gap THEN Sync(client)
           ELSE client' = [client EXCEPT !.seq = d.seq] /\ UNCHANGED reqs
    BY <1>4, <1>8
  <2>2. CASE client.seq > 0 /\ s > client.seq + 1
    <3>1. s \in Nat  BY <1>1, <1>2, HeadFacts
    <3>2. ~(s <= client.seq)  BY <1>5, <2>2, <3>1
    <3>3. d = [d0 EXCEPT !.gap = TRUE]  BY <2>2, <3>2 DEF DeliverEvent
    <3>4. d.gap /\ d.view = view  BY <3>3
    <3>5. Sync(client) /\ view' = view  BY <2>1, <3>4
    <3>6. Story(client, view, log, handling, Tail(data), subs)
      BY <1>1, <1>2, <1>8, <2>2, GapStory
    <3>7. Story(client', view, log, handling, data', subs) /\ RequestInv'
      BY <1>1, <1>5, <3>5, <3>6, SyncStory DEF StoryInv, RequestInv
    <3> QED BY <1>1, <1>3, <3>5, <3>7 DEF StoryInv
  <2>3. CASE ~(client.seq > 0 /\ s > client.seq + 1)
    <3>1. \/ s <= client.seq /\ d.seq = client.seq /\ d.view = view /\ ~d.gap
          \/ ~(s <= client.seq) /\ d.seq = s /\ d.view = Show(view, s) /\ ~d.gap
      <4>1. CASE s <= client.seq
        <5>1. d = d0  BY <4>1 DEF DeliverEvent
        <5> QED BY <4>1, <5>1
      <4>2. CASE ~(s <= client.seq)
        <5>1. d = [d0 EXCEPT !.seq = s, !.view = Show(view, s)]  BY <2>3, <4>2 DEF DeliverEvent
        <5> QED BY <4>2, <5>1
      <4> QED BY <4>1, <4>2
    <3> HIDE DEF d, s
    <3>2. client' = [client EXCEPT !.seq = d.seq] /\ UNCHANGED reqs  BY <2>1, <3>1
    <3>3. /\ client'.seq = d.seq /\ client'.epoch = client.epoch /\ client'.from = client.from
          /\ client'.synced = client.synced /\ client'.pending = client.pending
          /\ client'.syncing = client.syncing
      BY <1>5, <3>2 DEF ClientType
    <3>4. client'.synced  BY <1>8, <3>3
    <3>5. \/ data[1].latest <= client.seq /\ client'.seq = client.seq /\ view' = view
          \/ /\ ~(data[1].latest <= client.seq) /\ ~(client.seq > 0 /\ data[1].latest > client.seq + 1)
             /\ client'.seq = data[1].latest /\ view' = Show(view, data[1].latest)
      BY <1>2, <2>1, <2>3, <3>1, <3>3
    <3>6. Story(client', view', log, handling, Tail(data), subs) /\ client.seq <= client'.seq
      BY <1>1, <1>2, <1>8, <3>3, <3>4, <3>5, PassedStory
    <3>7. RequestInv'
      <4>1. ASSUME client.syncing # 0, reqs # <<>>
            PROVE  Last(reqs).after <= client'.seq /\ Last(reqs).epoch = client.epoch
        <5>1. Last(reqs).after <= client.seq /\ Last(reqs).epoch = client.epoch
          BY <4>1 DEF StoryInv, RequestInv
        <5>2. Last(reqs) \in Request
          <6>1. Len(reqs) \in 1..Len(reqs) /\ Last(reqs) = reqs[Len(reqs)]  BY <4>1, TypePieces, SeqFacts
          <6> QED BY <6>1, TypePieces, SeqFacts
        <5>3. Last(reqs).after \in Nat  BY <5>2, Bounds DEF Request
        <5>4. client'.seq \in Nat
          <6>1. s \in Nat  BY <1>1, <1>2, HeadFacts
          <6> QED BY <1>5, <3>1, <3>3, <6>1
        <5> QED BY <1>5, <3>6, <5>1, <5>3, <5>4
      <4> QED BY <3>2, <3>3, <4>1 DEF RequestInv
    <3> QED BY <1>1, <1>3, <3>6, <3>7 DEF StoryInv
  <2> QED BY <2>2, <2>3
<1> QED BY <1>6, <1>7, <1>8

-----------------------------------------------------------------------------
(* An answer that nobody waits for. *)
LEMMA IgnoredStory ==
    ASSUME WaitInv, StoryInv, data # <<>>, data[1].id # 0, data[1].id # client.syncing
    PROVE  Story(client, view, log, handling, Tail(data), subs)
<1> DEFINE t == Tail(data)
           c == client
           L == Len(data)
<1>1. /\ L \in Nat \ {0} /\ Len(t) = L - 1 /\ \A k \in 1..L - 1 : t[k] = data[k + 1]
      /\ data \in Seq(Answer) /\ 1 \in DOMAIN data
  BY TypePieces, TailFacts
<1>2. Story(c, view, log, handling, data, subs)  BY DEF StoryInv
<1>3. ~c.synced
  <2>1. c.synced => data[1].id \in {0, c.syncing}  BY <1>1 DEF WaitInv, LoneInv, Lone
  <2> QED BY <2>1
<1>4. ZeroDue(c, handling, t) <=> ZeroDue(c, handling, data)  BY <1>1, TailZero
<1>5. Due(c, view, handling, t, log.epoch)  BY <1>1, <1>2, TailDue DEF Story
<1>6. First(c, handling, t)  BY <1>2, <1>4 DEF Story, First
<1> HIDE DEF t, c, L
<1>7. Order(c, view, handling, t, subs, log.last)
  <2> SUFFICES ASSUME ZeroDue(c, handling, t)
               PROVE  DataOrder(c, view, handling, t) /\ SubsOrder(c, view, handling, t, subs, log.last)
    BY <1>3 DEF Order, Zero
  <2>1. DataOrder(c, view, handling, data) /\ SubsOrder(c, view, handling, data, subs, log.last)
    BY <1>2, <1>4 DEF Story, Order, Zero
  <2>2. \A n : Come(n, c, view, handling, data) => Come(n, c, view, handling, t)
    BY <1>4 DEF Come
  <2>3. ASSUME NEW n, NEW m \in 1..L, Ahead(n, m, c, handling, data)
        PROVE  Ahead(n, m - 1, c, handling, t)
    <3>1. PICK j \in 1..m : data[j].id = 0 /\ data[j].latest = n  BY <1>4, <2>3 DEF Ahead
    <3>2. j # 1  BY <3>1
    <3>3. j - 1 \in 1..m - 1 /\ j - 1 \in 1..L - 1 /\ j - 1 + 1 = j  BY <1>1, <3>2
    <3>4. t[j - 1] = data[j]  BY <1>1, <3>3
    <3> QED BY <3>1, <3>3, <3>4 DEF Ahead
  <2>4. DataOrder(c, view, handling, t)
    <3> SUFFICES ASSUME NEW k \in 1..L - 1, t[k].id = 0, NEW n, n = t[k].latest, n >= 2
                 PROVE  Come(n - 1, c, view, handling, t) \/ Ahead(n - 1, k - 1, c, handling, t)
      BY <1>1 DEF DataOrder
    <3>1. k + 1 \in 1..L /\ data[k + 1] = t[k] /\ k + 1 - 1 = k /\ k \in 1..L  BY <1>1
    <3>2. Come(n - 1, c, view, handling, data) \/ Ahead(n - 1, k, c, handling, data)
      BY <2>1, <3>1 DEF DataOrder, L
    <3> QED BY <2>2, <2>3, <3>1, <3>2
  <2>5. SubsOrder(c, view, handling, t, subs, log.last)
    <3> SUFFICES ASSUME NEW i \in 1..Len(subs), subs[i].state = "open" \/ subs[i].ch # <<>>,
                        NEW n, n = NextOf(subs[i], log.last), n >= 2
                 PROVE  Come(n - 1, c, view, handling, t) \/ Ahead(n - 1, Len(t), c, handling, t)
      BY DEF SubsOrder
    <3>1. NextOf(subs[i], log.last) >= 2  OBVIOUS
    <3>2. Come(n - 1, c, view, handling, data) \/ Ahead(n - 1, L, c, handling, data)
      BY <1>4, <2>1, <3>1 DEF SubsOrder, L
    <3>3. L \in 1..L /\ L - 1 = Len(t)  BY <1>1
    <3> QED BY <2>2, <2>3, <3>2, <3>3
  <2> QED BY <2>4, <2>5
<1> QED BY <1>2, <1>5, <1>6, <1>7 DEF Story, t, c

(* A transcript of this log alone shows what is kept, and all from f on. *)
ShownWhole(w, l, f) ==
    w.logs = {l.epoch} =>
        /\ w.seq <= l.last
        /\ ShownFrom(w, l.epoch, l.evicted) /\ ShownFrom(w, l.epoch, f)

(* The replay, on the transcript or from a reset. *)
LEMMA AnswerStory ==
    ASSUME WaitInv, StoryInv, NEW a \in Answer, Good(a, log), Fits(a, client, view, log.epoch)
    PROVE  LET w == ApplySync(a) IN
           /\ w.logs \subseteq 1..log.epoch /\ log.epoch \in w.logs
           /\ a.latest <= w.seq /\ (~a.reset => view.seq <= w.seq)
           /\ ShownWhole(w, log, IF a.whole THEN a.from ELSE client.from)
<1> DEFINE w == ApplySync(a)
           e == log.epoch
           f == IF a.whole THEN a.from ELSE client.from
           base == IF a.reset \/ view.seq = 0 THEN NewView ELSE view
           low == Larger(base.seq, a.from)
           kept == ~a.reset /\ view.seq # 0
<1>1. /\ log.last \in Nat /\ log.evicted \in Nat /\ e \in Nat \ {0} /\ log.evicted <= log.last
      /\ client.seq \in Nat /\ client.from \in Nat /\ view.seq \in Nat
      /\ a.latest \in Nat /\ a.from \in Nat
  BY Numbers
<1>2. /\ a.epoch = e /\ a.from <= a.latest /\ a.latest <= log.last
      /\ a.whole => a.from <= log.evicted
      /\ a.reset => a.whole
  BY DEF Good
<1>3. /\ ~a.whole => a.from <= client.seq /\ a.epoch = client.epoch
      /\ view.logs = {e} => ShownFrom(view, e, a.from)
  BY DEF Fits
<1>4. /\ client.seq <= view.seq
      /\ view.logs \subseteq 1..e /\ (view.logs = {} => view.seq = 0)
      /\ view.logs = {e} => view.seq <= log.last /\ ShownFrom(view, e, log.evicted)
      /\ client.epoch # 0 /\ view.logs \subseteq {client.epoch} => ShownFrom(view, client.epoch, client.from)
  BY DEF StoryInv, Story, Cursor, Viewed
<1>5. /\ w.logs = base.logs \cup {e} /\ w.seq = Larger(base.seq, a.latest)
      /\ w.shown = base.shown \cup {<<e, s>> : s \in low + 1..a.latest}
  BY <1>2 DEF ApplySync
<1>6. \/ ~kept /\ base.seq = 0 /\ base.logs = {} /\ (a.reset \/ view.seq = 0)
      \/ kept /\ base = view /\ ~a.reset /\ view.seq # 0
  BY DEF NewView
<1>7. f \in Nat  BY <1>1
<1> HIDE DEF w, e, f, base, kept
<1>8. base.seq \in Nat  BY <1>1, <1>6
<1>9. /\ w.seq \in Nat /\ a.latest <= w.seq /\ base.seq <= w.seq /\ (w.seq = base.seq \/ w.seq = a.latest)
      /\ low \in Nat /\ base.seq <= low /\ a.from <= low /\ (low = base.seq \/ low = a.from)
  BY <1>1, <1>5, <1>8 DEF Larger
<1>10. w.logs \subseteq 1..e /\ e \in w.logs
  <2>1. e \in 1..e  BY <1>1
  <2> QED BY <1>4, <1>5, <1>6, <2>1
<1>11. ~a.reset => view.seq <= w.seq  BY <1>1, <1>6, <1>9
<1>12. ASSUME NEW g \in Nat, kept => ShownFrom(view, e, g),
              \A s \in Nat : s > g /\ s > base.seq => s > a.from
       PROVE  ShownFrom(w, e, g)
  <2> SUFFICES ASSUME NEW s \in g + 1..w.seq PROVE <<e, s>> \in w.shown  BY DEF ShownFrom
  <2>1. s \in Nat /\ s > g /\ s <= w.seq  BY <1>9
  <2>2. CASE s <= base.seq
    <3>1. kept /\ base = view  BY <1>6, <2>1, <2>2
    <3>2. s \in g + 1..view.seq  BY <1>1, <2>1, <2>2, <3>1
    <3>3. <<e, s>> \in view.shown  BY <1>12, <3>1, <3>2 DEF ShownFrom
    <3> QED BY <1>5, <3>1, <3>3
  <2>3. CASE ~(s <= base.seq)
    <3>1. s > a.from  BY <1>8, <1>12, <2>1, <2>3
    <3>2. s \in low + 1..a.latest  BY <1>1, <1>8, <1>9, <2>1, <2>3, <3>1
    <3> QED BY <1>5, <3>2
  <2> QED BY <2>2, <2>3
<1>13. ShownWhole(w, log, f)
  <2> SUFFICES ASSUME w.logs = {e}
               PROVE  w.seq <= log.last /\ ShownFrom(w, e, log.evicted) /\ ShownFrom(w, e, f)
    BY DEF ShownWhole, e
  <2>1. kept => view.logs = {e}  BY <1>4, <1>5, <1>6
  <2>2. base.seq <= log.last  BY <1>1, <1>4, <1>6, <2>1
  <2>3. w.seq <= log.last  BY <1>2, <1>9, <2>2
  <2>4. ASSUME ~a.whole PROVE a.from <= base.seq
    <3>1. CASE kept  BY <1>1, <1>3, <1>4, <1>6, <2>4, <3>1
    <3>2. CASE ~kept /\ base.seq = 0 /\ (a.reset \/ view.seq = 0)
      BY <1>1, <1>2, <1>3, <1>4, <2>4, <3>2
    <3> QED BY <1>6, <3>1, <3>2
  <2>5. ShownFrom(w, e, log.evicted)
    <3>1. \A s \in Nat : s > log.evicted /\ s > base.seq => s > a.from  BY <1>1, <1>2, <1>8, <2>4
    <3> QED BY <1>1, <1>4, <1>12, <2>1, <3>1
  <2>6. ShownFrom(w, e, f)
    <3>1. \A s \in Nat : s > f /\ s > base.seq => s > a.from  BY <1>1, <1>8, <2>4 DEF f
    <3>2. kept => ShownFrom(view, e, f)
      <4>1. CASE a.whole  BY <1>3, <2>1, <4>1 DEF f
      <4>2. CASE ~a.whole
        <5>1. client.epoch = e /\ e # 0  BY <1>1, <1>2, <1>3, <4>2
        <5> QED BY <1>4, <2>1, <4>2, <5>1 DEF f
      <4> QED BY <4>1, <4>2
    <3> QED BY <1>7, <1>12, <3>1, <3>2
  <2> QED BY <2>3, <2>5, <2>6
<1> QED BY <1>9, <1>10, <1>11, <1>13 DEF w, e, f

(* What waited for the answer is shown after it. *)
LEMMA DrainedStory ==
    ASSUME WaitInv, NEW w \in ViewType, NEW q \in Seq(Seqs), NEW latest \in Seqs, NEW f \in Nat,
           latest <= w.seq, latest <= log.last, ShownWhole(w, log, f),
           \A k \in 1..Len(q) : q[k] \in 1..log.last,
           latest = 0 /\ q # <<>> => q[1] = 1
    PROVE  LET d == Drained([seq |-> latest, view |-> w, gap |-> FALSE], q) IN
           /\ d.view.logs = w.logs /\ d.view.seq \in Nat /\ d.seq \in Nat
           /\ d.seq <= d.view.seq /\ d.seq <= log.last /\ w.seq <= d.view.seq
           /\ d.seq = 0 => latest = 0 /\ q = <<>>
           /\ ShownWhole(d.view, log, f)
<1> DEFINE d0 == [seq |-> latest, view |-> w, gap |-> FALSE]
           P(n, x) == /\ x.view.logs = w.logs /\ x.seq <= x.view.seq /\ x.seq <= log.last
                      /\ w.seq <= x.view.seq /\ latest <= x.seq /\ (n # 0 => x.seq # 0)
                      /\ ShownWhole(x.view, log, f)
           I == {y \in Nat \X PassType : P(y[1], y[2])}
<1>1. /\ log.last \in Nat /\ log.evicted \in Nat /\ latest \in Nat /\ w.seq \in Nat
      /\ log \in [epoch : Epochs, last : Seqs, evicted : Seqs]
      /\ Len(q) \in Nat /\ (q # <<>> <=> Len(q) # 0) /\ \A k \in 1..Len(q) : q[k] \in Seqs
  BY Numbers, TypeFacts, SeqFacts, Bounds DEF ViewType, WaitInv
<1>2. \A x \in PassType : x.seq \in Nat /\ x.view \in ViewType /\ x.view.seq \in Nat
  BY Bounds DEF PassType, ViewType
<1>3. d0 \in PassType /\ d0.seq = latest /\ d0.view = w  BY DEF PassType
<1> HIDE DEF d0
<1>4. <<0, d0>> \in I
  <2>1. w.seq <= w.seq /\ latest <= latest  BY <1>1
  <2>2. P(0, d0)  BY <1>3, <2>1
  <2> HIDE DEF P
  <2> QED BY <1>3, <2>2
<1>5. ASSUME NEW n \in 0..Len(q) - 1, NEW x, <<n, x>> \in I
      PROVE  <<n + 1, DeliverEvent(x, q[n + 1])>> \in I
  <2> DEFINE s == q[n + 1]
             y == DeliverEvent(x, s)
  <2>1. n \in Nat /\ x \in PassType /\ P(n, x)  BY <1>5
  <2>2. s \in 1..log.last /\ s \in Seqs /\ n + 1 \in Nat /\ n + 1 # 0
    <3>1. n + 1 \in 1..Len(q)  BY <1>1
    <3> QED BY <1>1, <3>1
  <2> HIDE DEF s
  <2>3. y \in PassType  BY <1>1, <2>1, <2>2, DeliverType
  <2>4. x.seq \in Nat /\ x.view \in ViewType /\ x.view.seq \in Nat  BY <1>2, <2>1
  <2>5. P(n + 1, y)
    <3>1. CASE s <= x.seq
      <4>1. y = x  BY <3>1 DEF DeliverEvent
      <4>2. x.seq # 0  BY <2>2, <2>4, <3>1
      <4> HIDE DEF y
      <4> QED BY <2>1, <4>1, <4>2
    <3>2. CASE ~(s <= x.seq) /\ x.seq > 0 /\ s > x.seq + 1
      <4>1. y = [x EXCEPT !.gap = TRUE]  BY <3>2 DEF DeliverEvent
      <4>2. y.seq = x.seq /\ y.view = x.view  BY <2>1, <4>1 DEF PassType
      <4> HIDE DEF y
      <4>3. y.seq # 0  BY <2>4, <3>2, <4>2
      <4> QED BY <2>1, <4>2, <4>3
    <3>3. CASE ~(s <= x.seq) /\ ~(x.seq > 0 /\ s > x.seq + 1)
      <4>1. y = [x EXCEPT !.seq = s, !.view = Show(x.view, s)]  BY <3>3 DEF DeliverEvent
      <4>2. y.seq = s /\ y.view = Show(x.view, s)  BY <2>1, <4>1 DEF PassType
      <4> HIDE DEF y
      <4>3. s <= x.view.seq + 1
        <5>1. CASE x.seq > 0  BY <2>1, <2>2, <2>4, <3>3, <5>1
        <5>2. CASE x.seq = 0
          <6>1. n = 0 /\ latest = 0  BY <1>1, <2>1, <5>2
          <6>2. s = 1
            <7>1. q # <<>>  BY <1>1, <1>5
            <7> QED BY <6>1, <7>1 DEF s
          <6> QED BY <2>4, <6>2
        <5> QED BY <2>4, <5>1, <5>2
      <4>4. /\ y.view.logs = x.view.logs /\ y.view.seq \in Nat /\ x.view.seq <= y.view.seq
            /\ s <= y.view.seq /\ (y.view.seq = x.view.seq \/ y.view.seq = s)
            /\ \A g \in Nat : ShownFrom(x.view, log.epoch, g) => ShownFrom(y.view, log.epoch, g)
        BY <2>2, <2>4, <4>2, <4>3, ShowStory
      <4>5. ShownWhole(y.view, log, f)
        <5>1. ShownWhole(x.view, log, f)  BY <2>1
        <5>2. s <= log.last  BY <1>1, <2>2
        <5> QED BY <1>1, <4>4, <5>1, <5>2 DEF ShownWhole
      <4>6. y.seq <= y.view.seq /\ y.seq <= log.last /\ w.seq <= y.view.seq /\ latest <= y.seq /\ y.seq # 0
        BY <1>1, <2>1, <2>2, <2>4, <3>3, <4>2, <4>4
      <4>7. y.view.logs = w.logs  BY <2>1, <4>4
      <4> QED BY <4>5, <4>6, <4>7
    <3> QED BY <3>1, <3>2, <3>3
  <2> HIDE DEF P, y
  <2>6. <<n + 1, y>> \in I  BY <2>2, <2>3, <2>5
  <2> HIDE DEF I
  <2> QED BY <2>6 DEF y, s
<1> DEFINE d == Drained(d0, q)
<1>6. <<Len(q), d>> \in I
  <2> HIDE DEF I
  <2> QED BY <1>1, <1>4, <1>5, DrainedRule
<1> HIDE DEF d
<1>7. d \in PassType /\ P(Len(q), d)  BY <1>6
<1>8. d.seq \in Nat /\ d.view.seq \in Nat  BY <1>2, <1>7
<1>9. d.seq = 0 => latest = 0 /\ q = <<>>  BY <1>1, <1>7, <1>8
<1> QED BY <1>7, <1>8, <1>9 DEF d, d0

(* The answer that the client waits for. *)
LEMMA AppliedStory ==
    ASSUME WaitInv, StoryInv, data # <<>>, NEW a, a = data[1], a.id # 0, a.id = client.syncing,
           \A k \in 1..Len(Tail(data)) : Tail(data)[k].id = 0
    PROVE  Story(Applied(a), Pass(a).view, log, handling, Tail(data), subs)
<1> DEFINE c == client
           d == Pass(a)
           b == Applied(a)
           t == Tail(data)
           L == Len(data)
           f == IF a.whole THEN a.from ELSE client.from
           w == ApplySync(a)
<1>1. /\ L \in Nat \ {0} /\ Len(t) = L - 1 /\ \A k \in 1..L - 1 : t[k] = data[k + 1]
      /\ data \in Seq(Answer) /\ 1 \in 1..L /\ a \in Answer
  BY TypePieces, TailFacts
<1>2. Story(c, view, log, handling, data, subs)  BY DEF StoryInv
<1>3. Good(a, log) /\ Fits(a, c, view, log.epoch)
  <2>1. Sound(a, log)  BY <1>1 DEF StoryInv, AnswersInv
  <2>2. Fits(a, c, view, log.epoch)  BY <1>1, <1>2 DEF Story, Due
  <2> QED BY <2>1, <2>2 DEF Sound
<1>4. /\ log.last \in Nat /\ log.epoch \in Nat \ {0} /\ c.seq \in Nat /\ view.seq \in Nat
      /\ c.from \in Nat /\ a.from \in Nat /\ a.latest \in Nat /\ a.latest \in Seqs
      /\ c.pending \in Seq(Seqs)
  <2>1. a.latest \in Seqs  BY <1>1 DEF Answer
  <2> QED BY <1>1, <2>1, Numbers
<1>5. /\ w.logs \subseteq 1..log.epoch /\ log.epoch \in w.logs
      /\ a.latest <= w.seq /\ (~a.reset => view.seq <= w.seq)
      /\ ShownWhole(w, log, f) /\ w \in ViewType
  <2>1. w \in ViewType  BY <1>1, ApplyType, TypePieces
  <2> QED BY <1>1, <1>3, <2>1, AnswerStory
<1>6. /\ b.synced /\ b.syncing = 0 /\ b.pending = <<>>
      /\ b.epoch = log.epoch /\ b.seq = d.seq /\ b.from = f
  <2>1. a.epoch = log.epoch  BY <1>3 DEF Good
  <2> QED BY <1>1, <2>1, AppliedFacts DEF WaitInv
<1>7. a.latest = 0 => ZeroDue(c, handling, data)  BY <1>1 DEF ZeroDue
<1>8. /\ d.view.logs = w.logs /\ d.view.seq \in Nat /\ d.seq \in Nat
      /\ d.seq <= d.view.seq /\ d.seq <= log.last /\ w.seq <= d.view.seq
      /\ d.seq = 0 => a.latest = 0 /\ c.pending = <<>>
      /\ ShownWhole(d.view, log, f)
  <2>1. a.latest <= log.last  BY <1>3 DEF Good
  <2>2. \A k \in 1..Len(c.pending) : c.pending[k] \in 1..log.last  BY <1>2 DEF Story, Cursor
  <2>3. a.latest = 0 /\ c.pending # <<>> => c.pending[1] = 1
    <3>1. c.synced => c.pending = <<>>  BY <1>2 DEF Story, Cursor
    <3> QED BY <1>2, <1>7, <3>1 DEF Story, First
  <2>4. f \in Nat  BY <1>4
  <2> HIDE DEF w, f, c
  <2> QED BY <1>4, <1>5, <2>1, <2>2, <2>3, <2>4, DrainedStory DEF Pass, w, c
<1>9. w.seq \in Nat  BY <1>5, Bounds DEF ViewType
<1> HIDE DEF c, d, b, t, L, f, w
<1>10. Cursor(b, d.view, log)
  <2>1. Len(<<>>) = 0  BY EmptySeq
  <2>2. \A k \in 1..Len(b.pending) : b.pending[k] \in 1..log.last  BY <1>6, <2>1
  <2>3. b.epoch <= log.epoch /\ b.epoch # 0  BY <1>4, <1>6
  <2> QED BY <1>5, <1>6, <1>8, <2>2, <2>3 DEF Cursor
<1>11. Viewed(d.view, log, b)
  <2>1. d.view.logs \subseteq 1..log.epoch /\ log.epoch \in d.view.logs  BY <1>5, <1>8
  <2>2. d.view.logs \subseteq {log.epoch} => d.view.logs = {log.epoch}  BY <2>1
  <2> QED BY <1>6, <1>8, <2>1, <2>2 DEF Viewed, ShownWhole
<1>12. Due(b, d.view, handling, t, log.epoch) /\ First(b, handling, t) /\ ~ZeroDue(b, handling, t)
  BY <1>6 DEF Due, First, ZeroDue
<1>13. Order(b, d.view, handling, t, subs, log.last)
  <2> SUFFICES ASSUME b.seq = 0
               PROVE  DataOrder(b, d.view, handling, t) /\ SubsOrder(b, d.view, handling, t, subs, log.last)
    BY <1>12 DEF Order, Zero
  <2>1. a.latest = 0 /\ c.pending = <<>> /\ ZeroDue(c, handling, data)  BY <1>6, <1>7, <1>8 DEF c
  <2>2. /\ DataOrder(c, view, handling, data) /\ SubsOrder(c, view, handling, data, subs, log.last)
    BY <1>2, <2>1 DEF Story, Order, Zero, c
  <2>3. ASSUME NEW n \in Int, Come(n, c, view, handling, data) PROVE Come(n, b, d.view, handling, t)
    <3>1. c.synced /\ n <= c.seq  BY <2>1, <2>3 DEF Come
    <3>2. ~a.reset
      <4>1. a.reset /\ c.synced => a.latest > 0  BY <1>3 DEF Fits, c
      <4> QED BY <2>1, <3>1, <4>1
    <3>3. c.seq <= view.seq  BY <1>2 DEF Story, Cursor, c
    <3>4. n <= d.view.seq
      <4>1. c.seq \in Nat  BY <1>4 DEF c
      <4> QED BY <1>4, <1>5, <1>8, <1>9, <3>1, <3>2, <3>3, <4>1
    <3> QED BY <1>12, <3>4 DEF Come
  <2>4. ASSUME NEW n \in Int, NEW m \in 1..L, Ahead(n, m, c, handling, data)
        PROVE  Ahead(n, m - 1, b, handling, t)
    <3>1. PICK j \in 1..m : data[j].id = 0 /\ data[j].latest = n  BY <2>1, <2>4 DEF Ahead
    <3>2. j # 1  BY <3>1
    <3>3. j - 1 \in 1..m - 1 /\ j - 1 \in 1..L - 1 /\ j - 1 + 1 = j  BY <1>1, <3>2
    <3>4. t[j - 1] = data[j]  BY <1>1, <3>3
    <3> QED BY <3>1, <3>3, <3>4 DEF Ahead
  <2>5. DataOrder(b, d.view, handling, t)
    <3> SUFFICES ASSUME NEW k \in 1..L - 1, t[k].id = 0, NEW n, n = t[k].latest, n >= 2
                 PROVE  Come(n - 1, b, d.view, handling, t) \/ Ahead(n - 1, k - 1, b, handling, t)
      BY <1>1 DEF DataOrder
    <3>1. k + 1 \in 1..L /\ data[k + 1] = t[k] /\ k + 1 - 1 = k /\ k \in 1..L  BY <1>1
    <3>2. n - 1 \in Int
      <4>1. data[k + 1] \in Answer  BY <1>1, <3>1, SeqFacts DEF L
      <4>2. n \in Nat  BY <3>1, <4>1, Bounds DEF Answer
      <4> QED BY <4>2
    <3>3. Come(n - 1, c, view, handling, data) \/ Ahead(n - 1, k, c, handling, data)
      BY <2>2, <3>1 DEF DataOrder, L
    <3> QED BY <2>3, <2>4, <3>1, <3>2, <3>3
  <2>6. SubsOrder(b, d.view, handling, t, subs, log.last)
    <3> SUFFICES ASSUME NEW i \in 1..Len(subs), subs[i].state = "open" \/ subs[i].ch # <<>>,
                        NEW n, n = NextOf(subs[i], log.last), n >= 2
                 PROVE  Come(n - 1, b, d.view, handling, t) \/ Ahead(n - 1, Len(t), b, handling, t)
      BY DEF SubsOrder
    <3>1. NextOf(subs[i], log.last) >= 2  OBVIOUS
    <3>2. n - 1 \in Int
      <4>1. subs[i].ch # <<>> => subs[i].ch[1] \in Nat
        <5> SUFFICES ASSUME subs[i].ch # <<>> PROVE subs[i].ch[1] \in Nat  OBVIOUS
        <5>1. subs[i].ch \in Seq(Seqs)  BY SubsFacts DEF WaitInv
        <5>2. subs[i].ch[1] \in Seqs  BY <5>1, TailFacts
        <5> QED BY <5>2, Bounds
      <4>2. n \in Nat  BY <1>4, <4>1 DEF NextOf
      <4> QED BY <4>2
    <3>3. Come(n - 1, c, view, handling, data) \/ Ahead(n - 1, L, c, handling, data)
      BY <2>1, <2>2, <3>1 DEF SubsOrder, L
    <3>4. L \in 1..L /\ L - 1 = Len(t)  BY <1>1
    <3> QED BY <2>3, <2>4, <3>2, <3>3, <3>4
  <2> QED BY <2>5, <2>6
<1> QED BY <1>10, <1>11, <1>12, <1>13 DEF Story, d, b, t

LEMMA ReceiveAnswerStory == ASSUME WaitInv, StoryInv, ReceiveAnswer PROVE StoryInv'
<1> DEFINE a == Head(data)
<1>1. /\ data # <<>> /\ a.id # 0 /\ a \in Answer /\ data' = Tail(data)
      /\ UNCHANGED <<log, subs, handling>>
      /\ \/ a.id # client.syncing /\ UNCHANGED <<client, view, reqs>>
         \/ /\ a.id = client.syncing /\ view' = Pass(a).view
            /\ Sync(Applied(a)) \/ (client' = Applied(a) /\ UNCHANGED reqs)
            /\ \A k \in DOMAIN data' : data'[k].id = 0
  BY AnswerCases
<1>2. a = data[1] /\ DOMAIN data' = 1..Len(data')
  BY <1>1, TypePieces, TailFacts
<1>3. AnswersInv' /\ ChanInv'  BY <1>1, TailAnswers
<1>4. CASE a.id # client.syncing
  <2>1. UNCHANGED <<client, view, reqs>>  BY <1>1, <1>4
  <2>2. Story(client, view, log, handling, Tail(data), subs)  BY <1>1, <1>2, <1>4, IgnoredStory
  <2> QED BY <1>1, <1>3, <2>1, <2>2 DEF StoryInv, RequestInv
<1>5. CASE a.id = client.syncing
  <2>1. /\ view' = Pass(a).view
        /\ Sync(Applied(a)) \/ (client' = Applied(a) /\ UNCHANGED reqs)
        /\ \A k \in DOMAIN data' : data'[k].id = 0
    BY <1>1, <1>5
  <2>2. Story(Applied(a), view', log, handling, Tail(data), subs)
    BY <1>1, <1>2, <1>5, <2>1, AppliedStory
  <2>3. Applied(a) \in ClientType /\ Applied(a).syncing = 0  BY <1>1, AppliedFacts DEF WaitInv
  <2>4. CASE Sync(Applied(a))
    <3>1. Story(client', view', log, handling, Tail(data), subs) /\ RequestInv'
      BY <1>1, <2>2, <2>3, <2>4, SyncStory
    <3> QED BY <1>1, <1>3, <3>1 DEF StoryInv
  <2>5. CASE client' = Applied(a)
    <3>1. RequestInv'  BY <2>3, <2>5 DEF RequestInv
    <3> QED BY <1>1, <1>3, <2>2, <2>5, <3>1 DEF StoryInv
  <2> QED BY <2>1, <2>4, <2>5
<1> QED BY <1>4, <1>5

-----------------------------------------------------------------------------
LEMMA StoryStart == StreamInit => StoryInv
<1> SUFFICES ASSUME StreamInit PROVE StoryInv  OBVIOUS
<1>1. /\ log = [epoch |-> 1, last |-> 0, evicted |-> 0] /\ subs = <<>> /\ data = <<>>
      /\ handling = <<NoAnswer, "none">> /\ client = Newcomer /\ view = NewView
  BY DEF StreamInit
<1>2. Len(<<>>) = 0  BY EmptySeq
<1>3. AnswersInv /\ ChanInv /\ RequestInv
  BY <1>1, <1>2, NobodyIdle DEF AnswersInv, ChanInv, RequestInv, Handling
<1>4. view.seq = 0 /\ view.logs = {} /\ log.epoch = 1  BY <1>1 DEF NewView
<1>5. Viewed(view, log, client)
  <2>1. client.epoch = 0  BY <1>1, NobodyIdle
  <2>2. view.logs # {log.epoch}  BY <1>4
  <2> QED BY <1>4, <2>1, <2>2 DEF Viewed
<1>6. Story(client, view, log, handling, data, subs)
  <2>1. /\ client.syncing = 0 /\ ~client.synced /\ client.seq = 0 /\ client.epoch = 0
        /\ client.pending = <<>>
    BY <1>1, NobodyIdle
  <2>2. client.seq <= view.seq /\ client.epoch <= log.epoch  BY <1>4, <2>1
  <2>3. \A k \in 1..Len(client.pending) : client.pending[k] \in 1..log.last  BY <1>2, <2>1
  <2> QED BY <1>5, <2>1, <2>2, <2>3, Quit
<1> QED BY <1>3, <1>6 DEF StoryInv

LEMMA StoryStutter == ASSUME StoryInv, UNCHANGED streamVars PROVE StoryInv'
BY DEF StoryInv, AnswersInv, ChanInv, RequestInv, Handling, streamVars

LEMMA StoryNext == WaitInv /\ StoryInv /\ [StreamNext]_streamVars => StoryInv'
<1> SUFFICES ASSUME WaitInv, StoryInv, [StreamNext]_streamVars PROVE StoryInv'  OBVIOUS
<1>1. CASE Publish \/ Evict \/ Reap \/ Connect
  BY <1>1, PublishStory, EvictStory, ReapStory, ConnectStory
<1>2. CASE ConnectionLost \/ RestartStore
  BY <1>2, LoseStory DEF ConnectionLost, RestartStore
<1>3. CASE Subscribe \/ Replace \/ Respond \/ HandleUnsubscribe
  BY <1>3, SubscribeStory, ReplaceStory, RespondStory, UnsubscribeStory
<1>4. CASE \E i \in 1..MaxSubs : Forward(i) \/ End(i)
  <2>1. PICK i \in 1..MaxSubs : Forward(i) \/ End(i)  BY <1>4
  <2> QED BY <2>1, ForwardStory, EndStory
<1>5. CASE ReceiveEvent \/ ReceiveAnswer \/ ReceiveReset \/ TimeOut \/ Retry \/ Leave \/ Return
  BY <1>5, ReceiveEventStory, ReceiveAnswerStory, ReceiveResetStory, TimeOutStory, RetryStory,
     LeaveStory, ReturnStory
<1>6. CASE UNCHANGED streamVars  BY <1>6, StoryStutter
<1> QED BY <1>1, <1>2, <1>3, <1>4, <1>5, <1>6 DEF StreamNext

LEMMA StoryInvariant == StreamSpec => []StoryInv
<1> QED BY StoryStart, StoryNext, WaitInvariant, PTL DEF StreamSpec

(* A client in sync has shown every event from where it began up to its    *)
(* cursor, whatever was shed, evicted, lost, repeated or asked for again, when*)
(* its transcript was filled from the log it follows: no event is taken for*)
(* one that was applied already.                                           *)
THEOREM NothingMissedThm == StreamSpec => []NothingMissed
<1>1. WaitInv /\ StoryInv => NothingMissed
  <2> SUFFICES ASSUME WaitInv, StoryInv, view.logs \subseteq {client.epoch}, client.synced,
                      NEW s \in client.from + 1..client.seq
               PROVE  <<client.epoch, s>> \in view.shown
    BY DEF NothingMissed, SameLog, EverythingShown
  <2>1. /\ client.epoch = log.epoch /\ client.seq <= view.seq /\ log.epoch # 0
        /\ client.seq \in Nat /\ view.seq \in Nat /\ client.from \in Nat
    BY Numbers DEF StoryInv, Story, Cursor
  <2>2. ShownFrom(view, client.epoch, client.from)  BY <2>1 DEF StoryInv, Story, Viewed
  <2>3. s \in client.from + 1..view.seq  BY <2>1
  <2> QED BY <2>2, <2>3 DEF ShownFrom
<1> QED BY <1>1, WaitInvariant, StoryInvariant, PTL

-----------------------------------------------------------------------------
(* Opens no run. *)
Fewer(g, h) == \A r \in Runs : Open(h, r) => Open(g, r)
Mild(g, h) == Inv(h) /\ Sole(h) /\ Fewer(g, h)

LEMMA QuietMild ==
    ASSUME NEW g, NEW h, Inv(g), Sole(g), Quiet(g, h)
    PROVE  Mild(g, h)
BY QuietKeepsInv DEF Mild, Sole, Fewer, Quiet

LEMMA MildSelf == ASSUME NEW g, Inv(g), Sole(g) PROVE Mild(g, g)
BY DEF Mild, Fewer

LEMMA MildTrans ==
    ASSUME NEW g, NEW h, NEW k, Mild(g, h), Mild(h, k)
    PROVE  Mild(g, k)
BY DEF Mild, Fewer

(* What changes neither the log nor the activity. *)
LEMMA SameOpen ==
    ASSUME NEW g, NEW h, h.log = g.log, NEW r PROVE Open(h, r) <=> Open(g, r)
BY DEF Open

LEMMA NoneOpen ==
    ASSUME NEW g, Inv(g), Sole(g), g.act.state \notin {"running", "cancelling"}, NEW r \in Runs
    PROVE  ~Open(g, r)
<1> SUFFICES ASSUME Open(g, r) PROVE FALSE  OBVIOUS
<1>1. g.act.run = r /\ g.act.state # "queued"  BY DEF Sole
<1>2. g.act.state \in States  BY DEF Inv, StoreType
<1> QED BY <1>1, <1>2, NoneAssumption DEF Inv, IdleHasNoRun, States

LEMMA QueueMild ==
    ASSUME NEW g, Inv(g), Sole(g), NEW r \in Runs
    PROVE  Mild(g, Queue(g, r))
<1>1. Inv(Queue(g, r))  BY QueueKeepsInv
<1>2. CASE Remembered(g, r) \/ g.act.run # None
  BY <1>2, MildSelf DEF Queue
<1>3. CASE ~Remembered(g, r) /\ g.act.run = None
  <2> DEFINE a == [run |-> r, state |-> "queued", start |-> Len(g.log) + 1]
             h == [g EXCEPT !.act = a]
  <2>1. Queue(g, r) = h  BY <1>3 DEF Queue
  <2> HIDE DEF a
  <2>2. h.log = g.log  BY DEF Inv, StoreType
  <2> HIDE DEF h
  <2>3. ASSUME NEW q \in Runs PROVE ~Open(h, q)
    BY <1>3, <2>2, SameOpen, NoneAssumption DEF Sole
  <2> QED BY <1>1, <2>1, <2>3 DEF Mild, Sole, Fewer
<1> QED BY <1>2, <1>3

(* A run is closed, and only it. *)
LEMMA CloseMild ==
    ASSUME NEW g, Inv(g), Sole(g), NEW r \in Runs
    PROVE  Mild(g, Close(g, r)) /\ ~Open(Close(g, r), r)
<1>0. Inv(Close(g, r))  BY CloseKeepsInv
<1>1. CASE Remembered(g, r)
  BY <1>1, MildSelf DEF Close, Inv, RememberedIsClosed
<1>2. CASE ~Remembered(g, r)
  <2> DEFINE h == Close(g, r)
             told == Append(g.log, [kind |-> "run_finished", run |-> r])
  <2>1. h.log = told
    BY <1>2 DEF Close, Log, Inv, StoreType
  <2>2. (h.act = Idle /\ g.act.run = r) \/ (h.act = g.act /\ g.act.run # r)
    BY CloseKeepsInv
  <2> HIDE DEF h
  <2>3. ASSUME NEW q \in Runs PROVE Open(h, q) => Open(g, q) /\ q # r
    BY <2>1, AppendOpen DEF Kinds, Inv
  <2>4. Sole(h)
    <3> SUFFICES ASSUME NEW q \in Runs, Open(h, q)
                 PROVE  h.act.run = q /\ h.act.state # "queued"
      BY DEF Sole
    <3>1. q # r /\ g.act.run = q /\ g.act.state # "queued"  BY <2>3 DEF Sole
    <3> QED BY <2>2, <3>1
  <2>5. Mild(g, h) /\ ~Open(h, r)  BY <1>0, <2>3, <2>4 DEF Mild, Fewer, h
  <2> QED BY <2>5 DEF h
<1> QED BY <1>1, <1>2

(* A run is started, after the current one was closed. *)
LEMMA StartLone ==
    ASSUME NEW g, Inv(g), Sole(g), NEW r \in Runs
    PROVE  /\ Inv(Start(g, r)) /\ Sole(Start(g, r))
           /\ \A q \in Runs \ {r} : Open(Start(g, r), q) => Open(g, q)
<1>0. Inv(Start(g, r))  BY StartKeepsInv
<1>1. CASE Remembered(g, r) \/ (g.act.run = r /\ g.act.state # "queued")
  BY <1>0, <1>1 DEF Start
<1>2. CASE ~Remembered(g, r) /\ g.act.run # r
  <2> DEFINE u == Supersede(g)
             k == LogStart(u, r)
             a == [run |-> r, state |-> "running",
                   start |-> IF k.rec[r].first \in 1..Len(k.log)
                             THEN k.rec[r].first ELSE Len(k.log)]
             h == [k EXCEPT !.act = a]
  <2>1. Inv(u) /\ u.act.state \notin {"running", "cancelling"}  BY <1>2, SupersedeKeepsInv
  <2>2. Sole(u)
    <3>1. CASE g.act.state \in {"running", "cancelling"}
      <4>1. g.act.run \in Runs  BY <3>1 DEF Inv, StoreType, IdleHasNoRun
      <4> QED BY <3>1, <4>1, CloseMild DEF Supersede, Mild
    <3>2. CASE g.act.state \notin {"running", "cancelling"}  BY <3>2 DEF Supersede
    <3> QED BY <3>1, <3>2
  <2>3. Start(g, r) = h  BY <1>2 DEF Start, Activate
  <2> HIDE DEF u
  <2>4. /\ k \in StoreType
        /\ \A q \in Runs : Open(k, q) => Open(u, q) \/ q = r
    BY <2>1, LogStartFacts
  <2> HIDE DEF k
  <2>5. a.run = r /\ a.state = "running"  OBVIOUS
  <2> HIDE DEF a
  <2>6. h.log = k.log /\ h.act = a  BY <2>4 DEF StoreType
  <2> HIDE DEF h
  <2>7. ASSUME NEW q \in Runs, Open(h, q) PROVE q = r
    <3>1. Open(k, q)  BY <2>6, <2>7, SameOpen
    <3> QED BY <2>1, <2>2, <2>4, <3>1, NoneOpen
  <2>8. Sole(h)  BY <2>5, <2>6, <2>7 DEF Sole
  <2> QED BY <1>0, <2>3, <2>7, <2>8
<1>3. CASE ~Remembered(g, r) /\ g.act.run = r /\ g.act.state = "queued"
  <2> DEFINE k == LogStart(g, r)
             a == [k.act EXCEPT !.state = "running"]
             h == [k EXCEPT !.act = a]
  <2>1. Start(g, r) = h  BY <1>3 DEF Start
  <2>2. /\ k \in StoreType /\ k.act = g.act
        /\ \A q \in Runs : Open(k, q) => Open(g, q) \/ q = r
    BY LogStartFacts
  <2> HIDE DEF k
  <2>3. a.run = r /\ a.state = "running"  BY <1>3, <2>2 DEF StoreType
  <2> HIDE DEF a
  <2>4. h.log = k.log /\ h.act = a  BY <2>2 DEF StoreType
  <2> HIDE DEF h
  <2>5. ASSUME NEW q \in Runs, Open(h, q) PROVE q = r
    <3>1. Open(k, q)  BY <2>4, <2>5, SameOpen
    <3> QED BY <1>3, <2>2, <3>1, NoneOpen
  <2>6. Sole(h)  BY <2>3, <2>4, <2>5 DEF Sole
  <2> QED BY <1>0, <2>1, <2>5, <2>6
<1> QED BY <1>1, <1>2, <1>3

LEMMA FinishMild ==
    ASSUME NEW g, Inv(g), Sole(g), NEW r \in Runs
    PROVE  Mild(g, Finish(g, r))
<1> DEFINE s == Start(g, r)
<1>1. Inv(s) /\ Sole(s) /\ \A q \in Runs \ {r} : Open(s, q) => Open(g, q)  BY StartLone
<1>2. Finish(g, r) = IF g.act.run = None THEN Close(s, r) ELSE Close(g, r)  BY DEF Finish
<1> HIDE DEF s
<1>3. Mild(s, Close(s, r)) /\ ~Open(Close(s, r), r)  BY <1>1, CloseMild
<1>4. Mild(g, Close(s, r))  BY <1>1, <1>3 DEF Mild, Fewer
<1> QED BY <1>2, <1>4, CloseMild

(* Only a run that is not open may be parked. *)
LEMMA ParkMild ==
    ASSUME NEW g, Inv(g), Sole(g), NEW r \in Runs, ~Open(g, r)
    PROVE  Mild(g, Park(g, r))
<1> DEFINE d == [g.rec[r] EXCEPT !.bound = TRUE, !.parked = TRUE,
                                 !.deferred = FALSE, !.seeded = FALSE]
           h == [g EXCEPT !.rec[r] = d]
           k == IF g.rec[r].seeded THEN Log(h, "run_queued", r) ELSE h
<1>0. Inv(Park(g, r))  BY ParkKeepsInv
<1>1. CASE Remembered(g, r)
  BY <1>1, MildSelf DEF Park
<1>2. CASE ~Remembered(g, r)
  <2>1. Park(g, r) = IF g.act.run = r THEN [k EXCEPT !.act = Idle] ELSE k
    BY <1>2 DEF Park
  <2>2. d \in RecordType /\ d.parked  BY DEF Inv, StoreType, RecordType
  <2> HIDE DEF d
  <2>3. Quiet(g, h)  BY <2>2, RecordQuiet DEF Inv
  <2> HIDE DEF h
  <2>4. Mild(g, h) /\ h \in StoreType  BY <2>3, QuietMild DEF Quiet
  <2>5. Mild(g, k) /\ k.act = g.act
    <3>1. Quiet(h, Log(h, "run_queued", r))  BY <2>4, LogQuiet DEF Kinds
    <3>2. Mild(h, Log(h, "run_queued", r))  BY <2>4, <3>1, QuietMild DEF Mild
    <3>3. Mild(g, Log(h, "run_queued", r))  BY <2>4, <3>2, MildTrans
    <3>4. Log(h, "run_queued", r).act = h.act /\ h.act = g.act  BY <2>3, <3>1 DEF Quiet
    <3> QED BY <2>4, <3>3, <3>4
  <2> HIDE DEF k
  <2>6. CASE g.act.run = r
    <3> DEFINE n == [k EXCEPT !.act = Idle]
    <3>1. n.log = k.log  BY <2>5 DEF Mild, Inv, StoreType
    <3>2. Park(g, r) = n  BY <2>1, <2>6
    <3> HIDE DEF n
    <3>3. ASSUME NEW q \in Runs PROVE ~Open(n, q)
      <4>1. Open(n, q) => Open(g, q)  BY <2>5, <3>1, SameOpen DEF Mild, Fewer
      <4> QED BY <2>6, <4>1 DEF Sole
    <3> QED BY <1>0, <3>2, <3>3 DEF Mild, Sole, Fewer
  <2> QED BY <2>1, <2>5, <2>6
<1> QED BY <1>1, <1>2

LEMMA RecordMild ==
    ASSUME NEW g, Inv(g), Sole(g), NEW r \in Runs, NEW d \in RecordType,
           g.rec[r].parked => d.parked
    PROVE  Mild(g, [g EXCEPT !.rec[r] = d])
BY RecordQuiet, QuietMild DEF Inv

LEMMA SeedNowMild ==
    ASSUME NEW g, Inv(g), Sole(g), NEW r \in Runs
    PROVE  Mild(g, SeedNow(g, r))
<1> DEFINE b == Bind(g, r)
           q == Queue(b, r)
           k == Seed(q, "user_message", r)
           d == [k.rec[r] EXCEPT !.seeded = TRUE]
<1>1. Mild(g, b)  BY BindQuiet, QuietMild DEF Inv
<1> HIDE DEF b
<1>2. Mild(b, q)  BY <1>1, QueueMild DEF Mild
<1> HIDE DEF q
<1>3. Mild(q, k)
  <2>1. Quiet(q, k)  BY <1>2, SeedQuiet DEF Mild, Inv, Kinds
  <2> QED BY <1>2, <2>1, QuietMild DEF Mild
<1>4. SeedNow(g, r) = [k EXCEPT !.rec[r] = d]  BY DEF SeedNow, b, q
<1> HIDE DEF k
<1>5. d \in RecordType /\ (k.rec[r].parked => d.parked)
  BY <1>3 DEF Mild, Inv, StoreType, RecordType
<1> HIDE DEF d
<1>6. Mild(k, [k EXCEPT !.rec[r] = d])  BY <1>3, <1>5, RecordMild DEF Mild
<1> QED BY <1>1, <1>2, <1>3, <1>4, <1>6, MildTrans

LEMMA SeedLaterMild ==
    ASSUME NEW g, Inv(g), Sole(g), NEW r \in Runs
    PROVE  Mild(g, SeedLater(g, r))
<1> DEFINE k == Bind(g, r)
           d == [k.rec[r] EXCEPT !.deferred = TRUE]
<1>1. Mild(g, k)  BY BindQuiet, QuietMild DEF Inv
<1>2. SeedLater(g, r) = [k EXCEPT !.rec[r] = d]  BY DEF SeedLater
<1> HIDE DEF k
<1>3. d \in RecordType /\ (k.rec[r].parked => d.parked)
  BY <1>1 DEF Mild, Inv, StoreType, RecordType
<1> HIDE DEF d
<1>4. Mild(k, [k EXCEPT !.rec[r] = d])  BY <1>1, <1>3, RecordMild DEF Mild
<1> QED BY <1>1, <1>2, <1>4, MildTrans

LEMMA PendingMild ==
    ASSUME NEW g, Inv(g), Sole(g), NEW p \in SUBSET Runs
    PROVE  Mild(g, [g EXCEPT !.pending = p])
<1> DEFINE h == [g EXCEPT !.pending = p]
<1>1. /\ h \in StoreType /\ h.log = g.log /\ h.act = g.act /\ h.ring = g.ring
      /\ h.fin = g.fin /\ h.rec = g.rec
  BY DEF Inv, StoreType
<1> HIDE DEF h
<1>2. Mild(g, h)  BY <1>1, SameLogQuiet, QuietMild DEF Inv
<1> QED BY <1>2 DEF h

LEMMA ResolveMild ==
    ASSUME NEW g, Inv(g), Sole(g), NEW r \in Runs
    PROVE  Mild(g, Resolve(g, r))
<1>1. Mild(g, Bind(g, r))  BY BindQuiet, QuietMild DEF Inv
<1> DEFINE p == [g EXCEPT !.pending = @ \ {r}]
<1>2. Mild(g, p)
  <2>1. g.pending \ {r} \in SUBSET Runs  BY DEF Inv, StoreType
  <2> QED BY <2>1, PendingMild
<1>3. Resolve(g, r) = IF r \in g.pending THEN SeedNow(p, r) ELSE Bind(g, r)  BY DEF Resolve
<1> HIDE DEF p
<1>4. Mild(p, SeedNow(p, r))  BY <1>2, SeedNowMild DEF Mild
<1> QED BY <1>1, <1>2, <1>3, <1>4, MildTrans

LEMMA AcceptMild ==
    ASSUME NEW g, Inv(g), Sole(g), NEW r \in Runs, NEW draft \in BOOLEAN
    PROVE  Mild(g, Accept(g, r, draft))
<1>1. Mild(g, [g EXCEPT !.pending = @ \cup {r}])
  <2>1. g.pending \cup {r} \in SUBSET Runs  BY DEF Inv, StoreType
  <2> QED BY <2>1, PendingMild
<1> QED BY <1>1, SeedNowMild, SeedLaterMild DEF Accept

LEMMA FailCommandMild ==
    ASSUME NEW g, Inv(g), Sole(g), NEW r \in Runs
    PROVE  Mild(g, FailCommand(g, r))
<1>1. Mild(g, [g EXCEPT !.pending = @ \ {r}])
  <2>1. g.pending \ {r} \in SUBSET Runs  BY DEF Inv, StoreType
  <2> QED BY <2>1, PendingMild
<1> DEFINE k == Flush(g, r)
<1>2. Mild(g, k)  BY FlushQuiet, QuietMild DEF Inv
<1>3. FailCommand(g, r) \in {[g EXCEPT !.pending = @ \ {r}], Finish(k, r), g}
  BY DEF FailCommand
<1> HIDE DEF k
<1>4. Mild(g, Finish(k, r))
  <2>1. Mild(k, Finish(k, r))  BY <1>2, FinishMild DEF Mild
  <2> QED BY <1>2, <2>1, MildTrans
<1> QED BY <1>1, <1>3, <1>4, MildSelf

LEMMA MarkCancellingMild ==
    ASSUME NEW g, Inv(g), Sole(g), g.act.run # None
    PROVE  Mild(g, MarkCancelling(g))
<1> DEFINE a == [g.act EXCEPT !.state = "cancelling"]
           h == [g EXCEPT !.act = a]
<1>1. MarkCancelling(g) = h /\ Inv(MarkCancelling(g))
  BY MarkCancellingKeepsInv DEF MarkCancelling
<1>2. a.run = g.act.run /\ a.state = "cancelling"  BY DEF Inv, StoreType
<1> HIDE DEF a
<1>3. h.log = g.log /\ h.act = a  BY DEF Inv, StoreType
<1> HIDE DEF h
<1>4. \A q \in Runs : Open(h, q) <=> Open(g, q)  BY <1>3, SameOpen
<1> QED BY <1>1, <1>2, <1>3, <1>4 DEF Mild, Sole, Fewer

LEMMA RebaseMild ==
    ASSUME NEW g, Inv(g), Sole(g), NEW r \in Runs
    PROVE  Mild(g, Rebase(g, r))
<1> DEFINE d == [g.rec[r] EXCEPT !.rebased = TRUE]
           k == [g EXCEPT !.rec[r] = d]
<1>1. d \in RecordType /\ (g.rec[r].parked => d.parked)  BY DEF Inv, StoreType, RecordType
<1>2. Rebase(g, r) = IF g.rec[r].rebased THEN g ELSE Seed(k, "rebased", r)  BY DEF Rebase
<1> HIDE DEF d
<1>3. Mild(g, k)  BY <1>1, RecordMild
<1> HIDE DEF k
<1>4. Quiet(k, Seed(k, "rebased", r))  BY <1>3, SeedQuiet DEF Mild, Inv, Kinds
<1>5. Mild(k, Seed(k, "rebased", r))  BY <1>3, <1>4, QuietMild DEF Mild
<1> QED BY <1>2, <1>3, <1>5, MildSelf, MildTrans

LEMMA StreamMild ==
    ASSUME NEW g, Inv(g), Sole(g), NEW r \in Runs, NEW kind \in {"user_message", "token"}
    PROVE  Mild(g, Stream(g, r, kind))
<1>1. Mild(g, Log(g, kind, r))  BY LogQuiet, QuietMild DEF Inv, Kinds
<1> QED BY <1>1, MildSelf DEF Stream

(* What a message of the desktop does: it opens no run but its own, and     *)
(* that only if it is one that starts runs.                                *)
Opens(g, h, m) ==
    /\ Inv(h) /\ Sole(h)
    /\ \A q \in Runs : Open(h, q) => Open(g, q) \/ (q = m.run /\ m.type \in Starters)

LEMMA HandleOpens ==
    ASSUME NEW m \in Message, Inv(gw), Sole(gw), m.type = "queued_in_gui" => ~Open(gw, m.run)
    PROVE  Opens(gw, Handle(m), m)
<1> DEFINE r == m.run
           h == Resolve(gw, r)
<1>0. r \in Runs /\ m.type \in AgentEvents \cup Controls  BY DEF Message
<1>1. Mild(gw, h)  BY <1>0, ResolveMild
<1>2. Opens(gw, gw, m)  BY DEF Opens
<1>3. ASSUME NEW k, Mild(gw, k) PROVE Opens(gw, k, m)  BY <1>3 DEF Opens, Mild, Fewer
<1>4. Mild(gw, Finish(h, r)) /\ Mild(gw, Queue(h, r))
  <2> HIDE DEF h
  <2> QED BY <1>0, <1>1, FinishMild, QueueMild, MildTrans DEF Mild
<1>5. CASE m.type \in Controls
  <2>1. m.type = "queued_in_gui" => Mild(gw, Park(h, r))
    <3> SUFFICES ASSUME m.type = "queued_in_gui" PROVE Mild(gw, Park(h, r))  OBVIOUS
    <3>1. ~Open(h, r)  BY <1>0, <1>1 DEF Mild, Fewer
    <3> HIDE DEF h
    <3>2. Mild(h, Park(h, r))  BY <1>0, <1>1, <3>1, ParkMild DEF Mild
    <3> QED BY <1>1, <3>2, MildTrans
  <2>2. m.type = "started" => Opens(gw, Start(h, r), m)
    <3> SUFFICES ASSUME m.type = "started" PROVE Opens(gw, Start(h, r), m)  OBVIOUS
    <3> HIDE DEF h
    <3>1. /\ Inv(Start(h, r)) /\ Sole(Start(h, r))
          /\ \A q \in Runs \ {r} : Open(Start(h, r), q) => Open(h, q)
      BY <1>0, <1>1, StartLone DEF Mild
    <3> QED BY <1>1, <3>1 DEF Opens, Mild, Fewer, Starters
  <2>3. Opens(gw, Control(gw, r, m.type), m)
    <3>1. Control(gw, r, m.type) =
            CASE m.type = "started" -> Start(h, r)
              [] m.type = "terminal" -> Finish(h, r)
              [] m.type = "queued_in_gui" -> Park(h, r)
              [] m.type = "pending" -> Queue(h, r)
      BY DEF Control
    <3> HIDE DEF h
    <3> QED BY <1>3, <1>4, <1>5, <2>1, <2>2, <3>1 DEF Controls
  <2>4. m.type \notin AgentEvents  BY <1>5 DEF Controls, AgentEvents
  <2>5. Handle(m) = gw \/ Handle(m) = Control(gw, r, m.type)  BY <2>4 DEF Handle
  <2> QED BY <1>2, <2>3, <2>5
<1>6. CASE m.type \in AgentEvents
  <2> DEFINE kind == IF m.type \in {"user_message", "edit"} THEN "user_message" ELSE "token"
             e == IF m.type = "edit" THEN Rebase(h, r) ELSE h
             s == Start(e, r)
  <2>1. ChatEvent(gw, r, m.type) =
          IF m.type = "done" THEN Finish(h, r)
          ELSE IF (m.type \in {"user_message", "edit"} /\ h.rec[r].seeded) \/ Remembered(h, r)
               THEN h ELSE Stream(s, r, kind)
    BY DEF ChatEvent
  <2> HIDE DEF h
  <2>2. Mild(gw, e)
    <3>1. Mild(h, Rebase(h, r))  BY <1>0, <1>1, RebaseMild DEF Mild
    <3>2. Mild(gw, Rebase(h, r))  BY <1>1, <3>1, MildTrans
    <3> QED BY <1>1, <3>2
  <2> HIDE DEF e
  <2>3. Inv(s) /\ Sole(s) /\ \A q \in Runs \ {r} : Open(s, q) => Open(e, q)
    BY <1>0, <2>2, StartLone DEF Mild
  <2> HIDE DEF s
  <2>4. Mild(s, Stream(s, r, kind))  BY <1>0, <2>3, StreamMild
  <2>5. m.type # "done" => Opens(gw, Stream(s, r, kind), m)
    <3> SUFFICES ASSUME m.type # "done" PROVE Opens(gw, Stream(s, r, kind), m)  OBVIOUS
    <3>1. m.type \in Starters  BY <1>6 DEF AgentEvents, Starters
    <3> HIDE DEF kind
    <3> QED BY <2>2, <2>3, <2>4, <3>1 DEF Opens, Mild, Fewer
  <2>6. Opens(gw, ChatEvent(gw, r, m.type), m)
    <3> HIDE DEF kind
    <3> QED BY <1>1, <1>3, <1>4, <2>1, <2>5
  <2>7. Handle(m) = gw \/ Handle(m) = ChatEvent(gw, r, m.type)  BY <1>6 DEF Handle
  <2> QED BY <1>2, <2>6, <2>7
<1> QED BY <1>0, <1>5, <1>6

-----------------------------------------------------------------------------
LEMMA AppendQuiescent ==
    ASSUME NEW s \in Seq(Message), NEW m \in Message, NEW r, Quiescent(s, r),
           m.run = r => m.type \notin Starters
    PROVE  Quiescent(Append(s, m), r)
<1> DEFINE a == Append(s, m)
<1>1. /\ Len(a) = Len(s) + 1 /\ Len(s) \in Nat /\ a[Len(s) + 1] = m
      /\ \A k \in 1..Len(s) : a[k] = s[k]
  BY AppendFacts
<1> HIDE DEF a
<1>2. ASSUME NEW k \in 1..Len(s) + 1, a[k].run = r PROVE a[k].type \notin Starters
  <2>1. CASE k \in 1..Len(s)  BY <1>1, <1>2, <2>1 DEF Quiescent
  <2>2. CASE k = Len(s) + 1  BY <1>1, <1>2, <2>2
  <2> QED BY <1>1, <2>1, <2>2
<1>3. Quiescent(a, r)  BY <1>1, <1>2 DEF Quiescent
<1> QED BY <1>3 DEF a

LEMMA TailQuiescent ==
    ASSUME NEW s \in Seq(Message), s # <<>>, NEW r, Quiescent(s, r)
    PROVE  Quiescent(Tail(s), r)
<1> DEFINE t == Tail(s)
<1>1. /\ Len(t) = Len(s) - 1 /\ Len(s) \in Nat /\ \A k \in 1..Len(s) - 1 : t[k] = s[k + 1]
  BY TailFacts
<1> HIDE DEF t
<1>2. \A k \in 1..Len(s) - 1 : k + 1 \in 1..Len(s)  BY <1>1
<1>3. Quiescent(t, r)  BY <1>1, <1>2 DEF Quiescent
<1> QED BY <1>3 DEF t

(* A message that is put on the wire. *)
LEMMA PushOrder ==
    ASSUME OpenInv, NEW m \in Message, Push(<<m>>), UNCHANGED gw,
           m.type = "queued_in_gui" => Silent(m.run)
    PROVE  ParkOrder(up)' /\ up' = Append(up, m)
<1>0. up \in Seq(Message)  BY DEF OpenInv, ChatInv, Wires
<1>1. up' = Append(up, m)  BY <1>0 DEF Push
<1>2. /\ Len(up') = Len(up) + 1 /\ Len(up) \in Nat /\ up'[Len(up) + 1] = m
      /\ \A k \in 1..Len(up) : up'[k] = up[k]
  BY <1>0, <1>1, AppendFacts
<1>3. ASSUME NEW k \in 1..Len(up) + 1, up'[k].type = "queued_in_gui"
      PROVE  /\ ~Open(gw, up'[k].run)
             /\ \A j \in 1..k - 1 : up'[j].run = up'[k].run => up'[j].type \notin Starters
  <2>1. \A j \in 1..k - 1 : j \in 1..Len(up)  BY <1>2
  <2>2. CASE k \in 1..Len(up)
    <3>1. /\ ~Open(gw, up[k].run)
          /\ \A j \in 1..k - 1 : up[j].run = up[k].run => up[j].type \notin Starters
      BY <1>2, <1>3, <2>2 DEF OpenInv, ParkOrder
    <3> QED BY <1>2, <2>1, <2>2, <3>1
  <2>3. CASE k = Len(up) + 1
    <3>1. up'[k] = m /\ Silent(m.run)  BY <1>2, <1>3, <2>3
    <3>2. \A j \in 1..k - 1 : up'[j] = up[j] /\ j \in 1..Len(up)  BY <1>2, <2>1
    <3> QED BY <3>1, <3>2 DEF Silent, Quiescent
  <2> QED BY <1>2, <2>2, <2>3
<1> QED BY <1>1, <1>2, <1>3 DEF ParkOrder

LEMMA SameOrder ==
    ASSUME OpenInv, UNCHANGED up, Fewer(gw, gw')
    PROVE  ParkOrder(up)'
<1>1. \A k \in 1..Len(up) : up[k].run \in Runs
  <2>1. up \in Seq(Message)  BY DEF OpenInv, ChatInv, Wires
  <2>2. \A k \in 1..Len(up) : up[k] \in Message  BY <2>1, SeqFacts
  <2> QED BY <2>2 DEF Message
<1> QED BY <1>1 DEF OpenInv, ParkOrder, Fewer

(* The steps that start nothing. *)
Tame ==
    /\ Sole(gw)' /\ Fewer(gw, gw') /\ ParkOrder(up)'
    /\ \A r \in Runs : Quiescent(up, r) => Quiescent(up, r)'
    /\ UNCHANGED chain \/ chain' = <<>>
    /\ starts' \subseteq starts
    /\ \A r \in Runs : /\ exec'[r] \in {"started", "streaming"} => exec[r] \in {"started", "streaming"}
                       /\ ledger'[r] = "running" => ledger[r] = "running"
                       /\ Token(r)' /\ (Early(r)' => Early(r))

LEMMA TameKeeps == ASSUME OpenInv, ChatInv', Tame PROVE OpenInv'
<1>1. Len(chain') = 0 \/ chain' = chain
  BY DEF Tame
<1>2. OnlyEvents'  BY <1>1 DEF OpenInv, OnlyEvents
<1>3. ASSUME NEW r \in Runs, Early(r)' PROVE Silent(r)'
  <2>1. Silent(r)  BY <1>3 DEF OpenInv, Tame
  <2>2. ~Open(gw', r) /\ r \notin starts' /\ Quiescent(up, r)'
    BY <2>1 DEF Silent, Tame, Fewer
  <2>3. exec'[r] \notin {"started", "streaming"} /\ ledger'[r] # "running"
    BY <2>1 DEF Silent, Tame
  <2>4. Quiescent(chain, r)'  BY <1>1, <2>1 DEF Silent, Quiescent
  <2> QED BY <2>2, <2>3, <2>4 DEF Silent
<1>4. Sole(gw)' /\ ParkOrder(up)' /\ \A r \in Runs : Token(r)'  BY DEF Tame
<1> QED BY <1>2, <1>3, <1>4 DEF OpenInv

(* The inbox moves on. *)
Onward ==
    /\ UNCHANGED <<sort, watch, down>>
    /\ \A r \in Runs : /\ inbox[r] = "none" => inbox'[r] = "none"
                       /\ inbox'[r] \in {"queued", "claimed"} => inbox[r] \in {"queued", "claimed"}

LEMMA OnwardToken ==
    ASSUME OpenInv, Onward, NEW r \in Runs
    PROVE  Token(r)' /\ (Early(r)' => Early(r))
BY DEF OpenInv, Onward, Token, Early

(* The gateway's own steps, which leave the desktop alone. *)
LEMMA GateTame ==
    ASSUME OpenInv, Mild(gw, gw'), UNCHANGED <<deskVars, up, starts>>,
           \A r \in Runs : Token(r)' /\ (Early(r)' => Early(r))
    PROVE  Tame
<1>1. ParkOrder(up)'  BY SameOrder DEF Mild
<1>2. \A r \in Runs : Quiescent(up, r) => Quiescent(up, r)'  OBVIOUS
<1>3. UNCHANGED <<exec, ledger, chain, starts>>  BY DEF deskVars
<1> QED BY <1>1, <1>2, <1>3 DEF Mild, Tame

LEMMA PushTame ==
    ASSUME OpenInv, UNCHANGED gw, NEW m \in Message, Push(<<m>>), m.type \notin Starters,
           m.type = "queued_in_gui" => Silent(m.run)
    PROVE  ParkOrder(up)' /\ \A r \in Runs : Quiescent(up, r) => Quiescent(up, r)'
<1>1. up \in Seq(Message)  BY DEF OpenInv, ChatInv, Wires
<1>2. ParkOrder(up)' /\ up' = Append(up, m)  BY PushOrder
<1>3. \A r \in Runs : Quiescent(up, r) => Quiescent(Append(up, m), r)
  BY <1>1, AppendQuiescent
<1> QED BY <1>2, <1>3

LEMMA TellTame ==
    ASSUME OpenInv, UNCHANGED gw, NEW r \in Runs,
           NEW type \in {"pending", "terminal", "queued_in_gui"},
           type = "queued_in_gui" => Silent(r), Tell(r, type)
    PROVE  ParkOrder(up)' /\ \A q \in Runs : Quiescent(up, q) => Quiescent(up, q)'
<1> DEFINE m == Msg(r, type)
<1>1. m \in Message /\ m.type = type /\ m.run = r
  BY MsgType DEF Msg, Controls
<1>2. Push(<<m>>) \/ UNCHANGED up  BY DEF Tell
<1> HIDE DEF m
<1>3. CASE Push(<<m>>)  BY <1>1, <1>3, PushTame DEF Starters
<1>4. CASE UNCHANGED up
  <2>1. ParkOrder(up)'  BY <1>4, SameOrder DEF Fewer
  <2> QED BY <1>4, <2>1
<1> QED BY <1>2, <1>3, <1>4

LEMMA DeskTame ==
    ASSUME OpenInv, Onward, UNCHANGED <<gw, chain>>, starts' \subseteq starts,
           ParkOrder(up)', \A r \in Runs : Quiescent(up, r) => Quiescent(up, r)',
           \A r \in Runs :
              /\ exec'[r] \in {"started", "streaming"} => exec[r] \in {"started", "streaming"}
              /\ ledger'[r] = "running" => ledger[r] = "running"
    PROVE  Tame
<1>1. Sole(gw)' /\ Fewer(gw, gw')  BY DEF OpenInv, Fewer
<1>2. \A r \in Runs : Token(r)' /\ (Early(r)' => Early(r))  BY OnwardToken
<1> QED BY <1>1, <1>2 DEF Tame

LEMMA WireFacts ==
    ASSUME OpenInv
    PROVE  /\ down \in Seq(Command) /\ up \in Seq(Message) /\ chain \in Seq(Message)
           /\ Len(down) \in Nat /\ Len(up) \in Nat /\ Len(chain) \in Nat
           /\ \A k \in 1..Len(down) : down[k] \in Command
           /\ \A k \in 1..Len(up) : up[k] \in Message /\ up[k].run \in Runs
<1>1. down \in Seq(Command) /\ up \in Seq(Message) /\ chain \in Seq(Message)
  BY DEF OpenInv, ChatInv, Wires
<1>2. Len(down) \in Nat /\ \A k \in 1..Len(down) : down[k] \in Command  BY <1>1, SeqFacts
<1>3. Len(up) \in Nat /\ \A k \in 1..Len(up) : up[k] \in Message  BY <1>1, SeqFacts
<1>4. Len(chain) \in Nat  BY <1>1, SeqFacts
<1>5. \A k \in 1..Len(up) : up[k].run \in Runs  BY <1>3 DEF Message
<1> QED BY <1>1, <1>2, <1>3, <1>4, <1>5

(* A command is put on the stream. *)
LEMMA SendFacts ==
    ASSUME OpenInv, NEW c \in Command, down' = Append(down, c)
    PROVE  \A r \in Runs :
              /\ Coming(down, r)' <=> Coming(down, r) \/ c = [run |-> r, cancel |-> FALSE]
              /\ (~Coming(down, r) \/ c # [run |-> r, cancel |-> FALSE]) =>
                   \A j, k \in 1..Len(down') :
                      down'[j] = [run |-> r, cancel |-> FALSE] /\ down'[k] = down'[j] => j = k
<1> SUFFICES ASSUME NEW r \in Runs
             PROVE  /\ Coming(down, r)' <=> Coming(down, r) \/ c = [run |-> r, cancel |-> FALSE]
                    /\ (~Coming(down, r) \/ c # [run |-> r, cancel |-> FALSE]) =>
                         \A j, k \in 1..Len(down') :
                            down'[j] = [run |-> r, cancel |-> FALSE] /\ down'[k] = down'[j] => j = k
  OBVIOUS
<1> DEFINE e == [run |-> r, cancel |-> FALSE]
           n == Len(down)
<1>1. /\ Len(down') = n + 1 /\ n \in Nat /\ down'[n + 1] = c
      /\ \A k \in 1..n : down'[k] = down[k]
  BY WireFacts, AppendFacts
<1>2. \A j, k \in 1..n : down[j] = e /\ down[k] = down[j] => j = k
  BY DEF OpenInv, Token
<1> HIDE DEF e
<1>3. Coming(down, r) <=> \E k \in 1..n : down[k] = e  BY DEF Coming, e
<1>4. Coming(down, r)' <=> \E k \in 1..Len(down') : down'[k] = e  BY DEF Coming, e
<1> HIDE DEF n
<1>5. Coming(down, r)' <=> Coming(down, r) \/ c = e
  <2>1. ASSUME NEW k \in 1..n + 1, down'[k] = e PROVE Coming(down, r) \/ c = e
    <3>1. CASE k \in 1..n  BY <1>1, <1>3, <2>1, <3>1
    <3>2. CASE k = n + 1  BY <1>1, <2>1, <3>2
    <3> QED BY <1>1, <3>1, <3>2
  <2>2. ASSUME NEW k \in 1..n, down[k] = e PROVE k \in 1..n + 1 /\ down'[k] = e
    BY <1>1, <2>2
  <2>3. n + 1 \in 1..n + 1  BY <1>1
  <2> QED BY <1>1, <1>3, <1>4, <2>1, <2>2, <2>3
<1>6. ASSUME ~Coming(down, r) \/ c # e, NEW j \in 1..n + 1, NEW k \in 1..n + 1,
             down'[j] = e, down'[k] = down'[j]
      PROVE  j = k
  <2>1. CASE j \in 1..n /\ k \in 1..n  BY <1>1, <1>2, <1>6, <2>1
  <2>2. CASE ~(j \in 1..n /\ k \in 1..n)
    <3>1. j = n + 1 \/ k = n + 1  BY <1>1, <2>2
    <3>2. c = e /\ ~Coming(down, r)  BY <1>1, <1>6, <3>1
    <3>3. j \notin 1..n /\ k \notin 1..n  BY <1>1, <1>3, <1>6, <3>2
    <3> QED BY <1>1, <3>3
  <2> QED BY <2>1, <2>2
<1> QED BY <1>1, <1>5, <1>6 DEF e

LEMMA SubmitTame == ASSUME OpenInv, NEW r \in Runs, NEW draft \in BOOLEAN, Submit(r, draft) PROVE Tame
<1>1. Mild(gw, gw')  BY AcceptMild DEF OpenInv, ChatInv, Submit
<1>2. UNCHANGED <<deskVars, up, starts, down, inbox>>  BY DEF Submit, netVars, deskVars
<1>3. /\ sort[r] = "unused" /\ sort'[r] # "unused" /\ \A q \in Runs \ {r} : sort'[q] = sort[q]
      /\ \A q \in Runs \ {r} : watch'[q] = watch[q]
  BY DEF Submit, Watch, OpenInv, ChatInv, Rest
<1>4. ASSUME NEW q \in Runs PROVE Token(q)' /\ (Early(q)' => Early(q))
  <2>1. Token(q)  BY DEF OpenInv
  <2>2. CASE q = r  BY <1>2, <1>3, <2>1, <2>2 DEF Token, Early, Coming
  <2>3. CASE q # r  BY <1>2, <1>3, <2>1, <2>3 DEF Token, Early, Coming
  <2> QED BY <2>2, <2>3
<1> QED BY <1>1, <1>2, <1>4, GateTame

LEMMA DispatchTame == ASSUME OpenInv, NEW r \in Runs, Dispatch(r) PROVE Tame
<1> DEFINE c == [run |-> r, cancel |-> FALSE]
<1>1. /\ UNCHANGED <<deskVars, up, starts, sort, inbox>> /\ watch[r] = "dispatch"
      /\ watch'[r] # "dispatch" /\ watch'[r] \in {"off", "wait"}
      /\ \A q \in Runs \ {r} : watch'[q] = watch[q]
  BY DEF Dispatch, deskVars, Watch, OpenInv, ChatInv, Rest
<1>2. sort[r] # "unused" /\ ~Coming(down, r) /\ inbox[r] = "none"
  BY <1>1 DEF OpenInv, Token
<1>3. CASE online
  <2>1. down' = Append(down, c) /\ UNCHANGED gw  BY <1>3 DEF Dispatch
  <2>2. Mild(gw, gw')  BY <2>1, MildSelf DEF OpenInv, ChatInv
  <2>3. c \in Command /\ \A q \in Runs \ {r} : c # [run |-> q, cancel |-> FALSE]
    BY DEF Command
  <2>4. ASSUME NEW q \in Runs PROVE Token(q)' /\ (Early(q)' => Early(q))
    <3>1. /\ Coming(down, q)' <=> Coming(down, q) \/ q = r
          /\ \A j, k \in 1..Len(down') :
                down'[j] = [run |-> q, cancel |-> FALSE] /\ down'[k] = down'[j] => j = k
      BY <1>2, <2>1, <2>3, SendFacts
    <3>2. Token(q)  BY DEF OpenInv
    <3>3. CASE q = r  BY <1>1, <1>2, <3>1, <3>2, <3>3 DEF Token, Early
    <3>4. CASE q # r  BY <1>1, <3>1, <3>2, <3>4 DEF Token, Early
    <3> QED BY <3>3, <3>4
  <2> QED BY <1>1, <2>2, <2>4, GateTame
<1>4. CASE ~online
  <2>1. gw' = FailCommand(gw, r) /\ UNCHANGED down  BY <1>4 DEF Dispatch
  <2>2. Mild(gw, gw')  BY <2>1, FailCommandMild DEF OpenInv, ChatInv
  <2>3. ASSUME NEW q \in Runs PROVE Token(q)' /\ (Early(q)' => Early(q))
    <3>1. Token(q)  BY DEF OpenInv
    <3>2. CASE q = r  BY <1>1, <1>2, <2>1, <3>1, <3>2 DEF Token, Early, Coming
    <3>3. CASE q # r  BY <1>1, <2>1, <3>1, <3>3 DEF Token, Early, Coming
    <3> QED BY <3>2, <3>3
  <2> QED BY <1>1, <2>2, <2>3, GateTame
<1> QED BY <1>3, <1>4

LEMMA WatchTame ==
    ASSUME OpenInv, NEW r \in Runs, CheckStartup(r) \/ FailStartup(r) \/ ForceCancel(r)
    PROVE  Tame
<1>1. Mild(gw, gw')
  <2>1. CASE CheckStartup(r)  BY <2>1, MildSelf DEF CheckStartup, OpenInv, ChatInv
  <2>2. CASE FailStartup(r)  BY <2>2, FailCommandMild DEF FailStartup, OpenInv, ChatInv
  <2>3. CASE ForceCancel(r)
    BY <2>3, FinishMild, MildSelf DEF ForceCancel, ForceFinish, OpenInv, ChatInv
  <2> QED BY <2>1, <2>2, <2>3
<1>2. UNCHANGED <<deskVars, up, starts, sort, inbox, down>>
  BY DEF CheckStartup, FailStartup, ForceCancel, deskVars, netVars
<1>3. \/ UNCHANGED watch
      \/ watch[r] \in {"wait", "late"} /\ watch' = [watch EXCEPT ![r] = "off"]
      \/ watch[r] \in {"wait", "late"} /\ watch' = [watch EXCEPT ![r] = "late"]
  BY DEF CheckStartup, FailStartup, ForceCancel, Watch
<1>4. ASSUME NEW q \in Runs PROVE Token(q)' /\ (Early(q)' => Early(q))
  <2>1. Token(q)  BY DEF OpenInv
  <2>2. watch'[q] = watch[q] \/ (watch[q] \in {"wait", "late"} /\ watch'[q] # "dispatch")
    BY <1>3 DEF OpenInv, ChatInv, Rest
  <2> QED BY <1>2, <2>1, <2>2 DEF Token, Early, Coming
<1> QED BY <1>1, <1>2, <1>4, GateTame

LEMMA CancelTame == ASSUME OpenInv, Cancel PROVE Tame
<1> DEFINE c == [run |-> gw.act.run, cancel |-> TRUE]
<1>1. Mild(gw, gw')  BY MarkCancellingMild DEF Cancel, OpenInv, ChatInv
<1>2. UNCHANGED <<deskVars, up, starts, sort, watch, inbox>> /\ down' = Append(down, c)
  BY DEF Cancel, deskVars
<1>3. c \in Command /\ \A q \in Runs : c # [run |-> q, cancel |-> FALSE]
  <2>1. gw.act.run \in Runs  BY DEF Cancel, OpenInv, ChatInv, Inv, StoreType
  <2> QED BY <2>1 DEF Command
<1>4. ASSUME NEW q \in Runs PROVE Token(q)' /\ (Early(q)' => Early(q))
  <2>1. /\ Coming(down, q)' <=> Coming(down, q)
        /\ \A j, k \in 1..Len(down') :
              down'[j] = [run |-> q, cancel |-> FALSE] /\ down'[k] = down'[j] => j = k
    BY <1>2, <1>3, SendFacts
  <2>2. Token(q)  BY DEF OpenInv
  <2> QED BY <1>2, <2>1, <2>2 DEF Token, Early
<1> QED BY <1>1, <1>2, <1>4, GateTame

LEMMA LoseRunTame == ASSUME OpenInv, LoseRun PROVE Tame
<1>1. gw.act.run \in Runs /\ gw' = Finish(gw, gw.act.run)
  BY DEF LoseRun, OpenInv, ChatInv, Inv, StoreType
<1>2. Mild(gw, gw')  BY <1>1, FinishMild DEF OpenInv, ChatInv
<1>3. UNCHANGED <<deskVars, up, starts, sort, watch, inbox, down>>
  BY DEF LoseRun, deskVars, netVars
<1>4. ASSUME NEW q \in Runs PROVE Token(q)' /\ (Early(q)' => Early(q))
  <2>1. Token(q)  BY DEF OpenInv
  <2> QED BY <1>3, <2>1 DEF Token, Early, Coming
<1> QED BY <1>2, <1>3, <1>4, GateTame

(* What was under way is gone. *)
LEMMA CutTame == ASSUME OpenInv, Disconnect \/ RestartGateway PROVE Tame
<1>1. /\ up' = <<>> /\ down' = <<>> /\ starts' = {} /\ UNCHANGED <<deskVars, sort>>
      /\ UNCHANGED <<exec, ledger, chain, inbox>>
  BY DEF Disconnect, RestartGateway, Cut, deskVars
<1>2. Sole(gw)' /\ Fewer(gw, gw')
  <2>1. CASE Disconnect
    BY <2>1 DEF Disconnect, gateVars, OpenInv, Fewer
  <2>2. CASE RestartGateway
    <3>1. gw'.log = <<>>  BY <2>2 DEF RestartGateway, EmptyStore
    <3>2. \A r : ~Open(gw', r)  BY <3>1 DEF Open
    <3> QED BY <3>2 DEF Sole, Fewer
  <2> QED BY <2>1, <2>2
<1>3. \A r \in Runs : watch'[r] = watch[r] \/ watch'[r] = "off"
  BY DEF Disconnect, RestartGateway, gateVars
<1>4. Len(up') = 0 /\ Len(down') = 0  BY <1>1
<1>5. ASSUME NEW q \in Runs PROVE Token(q)' /\ (Early(q)' => Early(q))
  <2>1. Token(q)  BY DEF OpenInv
  <2>2. ~Coming(down, q)'  BY <1>4 DEF Coming
  <2>3. \A j, k \in 1..Len(down') : j = k  BY <1>4
  <2> QED BY <1>1, <1>3, <2>1, <2>2, <2>3 DEF Token, Early
<1>6. ParkOrder(up)' /\ \A r \in Runs : Quiescent(up, r)'  BY <1>4 DEF ParkOrder, Quiescent
<1> QED BY <1>1, <1>2, <1>5, <1>6 DEF Tame

-----------------------------------------------------------------------------
(* The desktop's steps that start nothing. *)
LEMMA UpSame == ASSUME OpenInv, UNCHANGED <<gw, up>>
                PROVE  ParkOrder(up)' /\ \A r \in Runs : Quiescent(up, r) => Quiescent(up, r)'
<1>1. ParkOrder(up)'  BY SameOrder DEF Fewer
<1> QED BY <1>1

LEMMA ConcludeTame ==
    ASSUME OpenInv, UNCHANGED gw, NEW r \in Runs, Conclude(r)
    PROVE  /\ ParkOrder(up)' /\ \A q \in Runs : Quiescent(up, q) => Quiescent(up, q)'
           /\ \A q \in Runs : ledger'[q] = "running" => ledger[q] = "running"
<1>1. Tell(r, "terminal")  BY DEF Conclude
<1>2. \A q \in Runs : ledger'[q] = "running" => ledger[q] = "running"
  BY DEF Conclude, Mark, OpenInv, ChatInv, Rest
<1> QED BY <1>1, <1>2, TellTame

LEMMA ReconnectTame == ASSUME OpenInv, Reconnect PROVE Tame
<1>1. UNCHANGED <<gw, up, chain, starts, exec, ledger, sort, watch, down, inbox>>
  BY DEF Reconnect, gateVars, deskVars
<1>2. Onward  BY <1>1 DEF Onward
<1> QED BY <1>1, <1>2, UpSame, DeskTame

LEMMA SweepTame == ASSUME OpenInv, NEW r \in Runs, Sweep(r) PROVE Tame
<1>1. UNCHANGED <<gw, up, chain, starts, exec, sort, watch, down, inbox>>
  BY DEF Sweep, gateVars, netVars
<1>2. Onward  BY <1>1 DEF Onward
<1>3. \A q \in Runs : ledger'[q] = "running" => ledger[q] = "running"
  BY DEF Sweep, Mark, OpenInv, ChatInv, Rest
<1> QED BY <1>1, <1>2, <1>3, UpSame, DeskTame

LEMMA AgeTame == ASSUME OpenInv, NEW r \in Runs, Age(r) PROVE Tame
<1>1. UNCHANGED <<gw, up, chain, starts, exec, sort, watch, down, inbox>>
  BY DEF Age, gateVars, netVars
<1>2. Onward  BY <1>1 DEF Onward
<1>3. \A q \in Runs : ledger'[q] = "running" => ledger[q] = "running"
  BY DEF Age, OpenInv, ChatInv, Rest
<1> QED BY <1>1, <1>2, <1>3, UpSame, DeskTame

LEMMA FlushEndTame == ASSUME OpenInv, NEW r \in Runs, FlushEnd(r) PROVE Tame
<1>1. UNCHANGED <<gw, chain, starts, exec, ledger, sort, watch, down, inbox>>
  BY DEF FlushEnd, gateVars, Lane
<1>2. Onward  BY <1>1 DEF Onward
<1>3. Push(<<Msg(r, "terminal")>>) /\ online  BY DEF FlushEnd
<1>4. Tell(r, "terminal")  BY <1>3 DEF Tell
<1>5. ParkOrder(up)' /\ \A q \in Runs : Quiescent(up, q) => Quiescent(up, q)'
  BY <1>1, <1>4, TellTame
<1> QED BY <1>1, <1>2, <1>5, DeskTame

(* The inbox and the lane of a step that says nothing but m. *)
LEMMA InboxTame ==
    ASSUME OpenInv, NEW r \in Runs,
           Claim(r) \/ Release(r) \/ Expire(r) \/ ParkInGUI(r) \/ Reject(r) \/ RemoveParked(r)
           \/ Complete(r)
    PROVE  Tame
<1>0. /\ inbox \in [Runs -> {"none", "queued", "claimed", "parked", "running"}]
      /\ exec \in [Runs -> {"none", "owned", "started", "streaming", "ended", "over"}]
      /\ ledger \in [Runs -> {"none", "running", "ended", "old"}]
  BY DEF OpenInv, ChatInv, Rest
<1>1. UNCHANGED <<gw, chain, starts, sort, watch, down>>
  BY DEF Claim, Release, Expire, ParkInGUI, Reject, RemoveParked, Complete, gateVars, Lane,
         netVars
<1>2. /\ ParkOrder(up)' /\ \A q \in Runs : Quiescent(up, q) => Quiescent(up, q)'
      /\ \A q \in Runs : ledger'[q] = "running" => ledger[q] = "running"
  <2>1. CASE Claim(r)
    <3>1. Tell(r, "pending") /\ UNCHANGED ledger  BY <2>1 DEF Claim
    <3> QED BY <1>1, <3>1, TellTame
  <2>2. CASE Release(r)
    <3>1. UNCHANGED <<up, ledger>>  BY <2>2 DEF Release, netVars
    <3> QED BY <1>1, <3>1, UpSame
  <2>3. CASE Expire(r)
    <3>1. UNCHANGED <<up, ledger>> \/ Conclude(r)  BY <2>3 DEF Expire
    <3> QED BY <1>1, <3>1, UpSame, ConcludeTame
  <2>4. CASE ParkInGUI(r)
    <3>1. Tell(r, "queued_in_gui") /\ UNCHANGED ledger /\ inbox[r] = "claimed"
      BY <2>4 DEF ParkInGUI
    <3>2. Silent(r)  BY <3>1 DEF OpenInv, Early
    <3> QED BY <1>1, <3>1, <3>2, TellTame
  <2>5. CASE Reject(r)
    <3>1. UNCHANGED <<up, ledger>> \/ Conclude(r)  BY <2>5 DEF Reject
    <3> QED BY <1>1, <3>1, UpSame, ConcludeTame
  <2>6. CASE RemoveParked(r)
    <3>1. Conclude(r)  BY <2>6 DEF RemoveParked
    <3> QED BY <1>1, <3>1, ConcludeTame
  <2>7. CASE Complete(r)
    <3>1. UNCHANGED <<up, ledger>> \/ Conclude(r)  BY <2>7 DEF Complete
    <3> QED BY <1>1, <3>1, UpSame, ConcludeTame
  <2> QED BY <2>1, <2>2, <2>3, <2>4, <2>5, <2>6, <2>7
<1>3. \A q \in Runs : exec'[q] \in {"started", "streaming"} => exec[q] \in {"started", "streaming"}
  <2>1. UNCHANGED exec \/ \E e \in {"none", "owned", "over"} : exec' = [exec EXCEPT ![r] = e]
    BY DEF Claim, Release, Expire, ParkInGUI, Reject, RemoveParked, Complete, Exec
  <2> QED BY <1>0, <2>1
<1>4. ASSUME NEW q \in Runs
      PROVE  /\ inbox[q] = "none" => inbox'[q] = "none"
             /\ inbox'[q] \in {"queued", "claimed"} => inbox[q] \in {"queued", "claimed"}
  <2>1. \/ UNCHANGED inbox
        \/ inbox[r] = "queued" /\ inbox' = [inbox EXCEPT ![r] = "claimed"]
        \/ inbox[r] = "claimed" /\ inbox' = [inbox EXCEPT ![r] = "queued"]
        \/ inbox[r] = "claimed" /\ inbox' = [inbox EXCEPT ![r] = "parked"]
        \/ inbox' = [inbox EXCEPT ![r] = "none"]
    BY DEF Claim, Release, Expire, ParkInGUI, Reject, RemoveParked, Complete, Inbox
  <2> QED BY <1>0, <2>1
<1>5. Onward  BY <1>1, <1>4 DEF Onward
<1> QED BY <1>1, <1>2, <1>3, <1>5, DeskTame

(* A command leaves the stream. *)
LEMMA ReceiveFacts ==
    ASSUME OpenInv, down # <<>>, down' = Tail(down)
    PROVE  \A r \in Runs :
              /\ Coming(down, r)' => Coming(down, r)
              /\ Head(down) = [run |-> r, cancel |-> FALSE] => Coming(down, r) /\ ~Coming(down, r)'
              /\ \A j, k \in 1..Len(down') :
                    down'[j] = [run |-> r, cancel |-> FALSE] /\ down'[k] = down'[j] => j = k
<1> SUFFICES ASSUME NEW r \in Runs
             PROVE  /\ Coming(down, r)' => Coming(down, r)
                    /\ Head(down) = [run |-> r, cancel |-> FALSE]
                         => Coming(down, r) /\ ~Coming(down, r)'
                    /\ \A j, k \in 1..Len(down') :
                          down'[j] = [run |-> r, cancel |-> FALSE] /\ down'[k] = down'[j] => j = k
  OBVIOUS
<1> DEFINE e == [run |-> r, cancel |-> FALSE]
           n == Len(down)
<1>1. /\ Len(down') = n - 1 /\ n \in Nat \ {0} /\ Head(down) = down[1]
      /\ \A k \in 1..n - 1 : down'[k] = down[k + 1]
  BY WireFacts, TailFacts
<1>2. \A j, k \in 1..n : down[j] = e /\ down[k] = down[j] => j = k  BY DEF OpenInv, Token
<1> HIDE DEF e
<1>3. Coming(down, r) <=> \E k \in 1..n : down[k] = e  BY DEF Coming, e
<1>4. Coming(down, r)' <=> \E k \in 1..Len(down') : down'[k] = e  BY DEF Coming, e
<1> HIDE DEF n
<1>5. \A k \in 1..n - 1 : k + 1 \in 1..n /\ k + 1 # 1  BY <1>1
<1>6. 1 \in 1..n  BY <1>1
<1>7. Coming(down, r)' => Coming(down, r)  BY <1>1, <1>3, <1>4, <1>5
<1>8. ASSUME Head(down) = e PROVE Coming(down, r) /\ ~Coming(down, r)'
  BY <1>1, <1>2, <1>3, <1>4, <1>5, <1>6, <1>8
<1>9. ASSUME NEW j \in 1..n - 1, NEW k \in 1..n - 1, down'[j] = e, down'[k] = down'[j]
      PROVE  j = k
  <2>1. j + 1 = k + 1  BY <1>1, <1>2, <1>5, <1>9
  <2>2. j \in Int /\ k \in Int  OBVIOUS
  <2> QED BY <2>1, <2>2
<1> QED BY <1>1, <1>7, <1>8, <1>9 DEF e

LEMMA ReceiveTame == ASSUME OpenInv, Receive PROVE Tame
<1> DEFINE c == Head(down)
<1>1. /\ down # <<>> /\ down' = Tail(down)
      /\ UNCHANGED <<gw, chain, starts, sort, watch, ledger, exec>>
  BY DEF Receive, gateVars, ReceiveCancel, ReceiveCommand
<1>2. c \in Command /\ c.run \in Runs
  <2>1. c \in Command  BY <1>1, WireFacts, TailFacts
  <2> QED BY <2>1 DEF Command
<1>3. IF c.cancel THEN ReceiveCancel(c.run) ELSE ReceiveCommand(c.run)  BY DEF Receive
<1>4. /\ "pending" \in AgentEvents \cup Controls /\ "terminal" \in AgentEvents \cup Controls
  BY DEF Controls
<1>5. \A q \in Runs : /\ Coming(down, q)' => Coming(down, q)
                      /\ c = [run |-> q, cancel |-> FALSE] => Coming(down, q) /\ ~Coming(down, q)'
                      /\ \A j, k \in 1..Len(down') :
                            down'[j] = [run |-> q, cancel |-> FALSE] /\ down'[k] = down'[j] => j = k
  BY <1>1, ReceiveFacts
<1>6. c = [run |-> c.run, cancel |-> c.cancel]  BY <1>2 DEF Command
<1> DEFINE m == IF c.cancel THEN [Msg(c.run, "terminal") EXCEPT !.named = TRUE]
                ELSE Msg(c.run, "pending")
<1>7. m \in Message /\ m.type \in {"terminal", "pending"}
  BY <1>2, <1>4, MsgType DEF Msg
<1>8. Push(<<m>>)  BY <1>3 DEF ReceiveCancel, ReceiveCommand
<1> HIDE DEF c, m
<1>9. ParkOrder(up)' /\ \A q \in Runs : Quiescent(up, q) => Quiescent(up, q)'
  BY <1>1, <1>7, <1>8, PushTame DEF Starters
<1>10. ASSUME NEW q \in Runs PROVE Token(q)' /\ (Early(q)' => Early(q))
  <2>0. inbox \in [Runs -> {"none", "queued", "claimed", "parked", "running"}] /\ Token(q)
    BY DEF OpenInv, ChatInv, Rest
  <2>1. CASE c.cancel
    <3>1. inbox'[q] = "none" \/ inbox'[q] = inbox[q]  BY <1>3, <2>1 DEF ReceiveCancel
    <3> QED BY <1>1, <1>5, <2>0, <3>1 DEF Token, Early
  <2>2. CASE ~c.cancel
    <3>1. inbox' = [inbox EXCEPT ![c.run] = "queued"]  BY <1>3, <2>2 DEF ReceiveCommand, Inbox
    <3>2. c = [run |-> c.run, cancel |-> FALSE]  BY <1>2, <1>6, <2>2 DEF Command
    <3>3. CASE q = c.run
      <4>1. Coming(down, q) /\ ~Coming(down, q)'  BY <1>5, <3>2, <3>3
      <4>2. sort[q] # "unused" /\ watch[q] # "dispatch"  BY <2>0, <4>1 DEF Token
      <4> QED BY <1>1, <1>5, <4>1, <4>2 DEF Token, Early
    <3>4. CASE q # c.run
      <4>1. inbox'[q] = inbox[q]  BY <2>0, <3>1, <3>4
      <4> QED BY <1>1, <1>5, <2>0, <4>1 DEF Token, Early
    <3> QED BY <3>3, <3>4
  <2> QED BY <2>1, <2>2
<1>11. Sole(gw)' /\ Fewer(gw, gw')  BY <1>1 DEF OpenInv, Fewer
<1> QED BY <1>1, <1>9, <1>10, <1>11 DEF Tame

LEMMA ReloadTame == ASSUME OpenInv, Reload PROVE Tame
<1>1. UNCHANGED <<gw, up, starts, ledger, sort, watch, down, inbox>> /\ chain' = <<>>
  BY DEF Reload, gateVars, netVars
<1>2. \A q \in Runs : exec'[q] \notin {"started", "streaming"}  BY DEF Reload
<1>3. Onward  BY <1>1 DEF Onward
<1>4. \A r \in Runs : Token(r)' /\ (Early(r)' => Early(r))  BY <1>3, OnwardToken
<1>5. Sole(gw)' /\ Fewer(gw, gw')  BY <1>1 DEF OpenInv, Fewer
<1> QED BY <1>1, <1>2, <1>4, <1>5, UpSame DEF Tame

LEMMA RestartDesktopTame == ASSUME OpenInv, RestartDesktop PROVE Tame
<1>1. /\ up' = <<>> /\ down' = <<>> /\ chain' = <<>> /\ starts' = {}
      /\ UNCHANGED <<gw, sort, watch>>
  BY DEF RestartDesktop, Cut, gateVars
<1>2. \A q \in Runs : /\ exec'[q] \notin {"started", "streaming"}
                      /\ ledger'[q] = "none" /\ inbox'[q] = "none"
  BY DEF RestartDesktop
<1>3. Sole(gw)' /\ Fewer(gw, gw')  BY <1>1 DEF OpenInv, Fewer
<1>4. Len(up') = 0 /\ Len(down') = 0  BY <1>1
<1>5. ASSUME NEW q \in Runs PROVE Token(q)' /\ (Early(q)' => Early(q))
  <2>1. Token(q)  BY DEF OpenInv
  <2>2. ~Coming(down, q)'  BY <1>4 DEF Coming
  <2>3. \A j, k \in 1..Len(down') : j = k  BY <1>4
  <2> QED BY <1>1, <1>2, <2>1, <2>2, <2>3 DEF Token, Early
<1>6. ParkOrder(up)' /\ \A r \in Runs : Quiescent(up, r)'  BY <1>4 DEF ParkOrder, Quiescent
<1> QED BY <1>1, <1>2, <1>3, <1>5, <1>6 DEF Tame

-----------------------------------------------------------------------------
(* The steps that start a run: it is not early, or no longer. *)
LEMMA StartKeeps ==
    ASSUME OpenInv, ChatInv', Sole(gw)', ParkOrder(up)', OnlyEvents',
           \A r \in Runs : Token(r)' /\ (Early(r)' => Early(r) /\ (Silent(r) => Silent(r)'))
    PROVE  OpenInv'
BY DEF OpenInv

LEMMA StartedKeeps ==
    ASSUME OpenInv, ChatInv', NEW r \in Runs, NEW m \in Message, m.run = r,
           m.type # "queued_in_gui",
           UNCHANGED <<gw, chain>>, starts' \subseteq starts, Push(<<m>>) \/ UNCHANGED up, ~Early(r)',
           \A q \in Runs \ {r} : exec'[q] = exec[q] /\ ledger'[q] = ledger[q],
           \A q \in Runs : Token(q)' /\ (Early(q)' => Early(q))
    PROVE  OpenInv'
<1>1. up \in Seq(Message)  BY WireFacts
<1>2. ParkOrder(up)' /\ (up' = Append(up, m) \/ UNCHANGED up)
  <2>1. CASE Push(<<m>>)  BY <2>1, PushOrder
  <2>2. CASE UNCHANGED up  BY <2>2, UpSame
  <2> QED BY <2>1, <2>2
<1>3. Sole(gw)' /\ OnlyEvents'  BY DEF OpenInv, OnlyEvents
<1>4. ASSUME NEW q \in Runs, Early(q)', Silent(q) PROVE Silent(q)'
  <2>1. q # r  BY <1>4
  <2>2. Quiescent(Append(up, m), q)  BY <1>1, <1>4, <2>1, AppendQuiescent DEF Silent
  <2>3. Quiescent(up, q)'  BY <1>2, <1>4, <2>2 DEF Silent
  <2> QED BY <1>4, <2>1, <2>3 DEF Silent
<1> QED BY <1>2, <1>3, <1>4, StartKeeps

LEMMA ReplayKeeps == ASSUME OpenInv, ChatInv', NEW r \in Runs, Replay(r) PROVE OpenInv'
<1>1. UNCHANGED <<gw, chain, exec, ledger, sort, watch, down, inbox>> /\ starts' \subseteq starts
  BY DEF Replay, gateVars
<1>2. Onward  BY <1>1 DEF Onward
<1>3. \A q \in Runs : Token(q)' /\ (Early(q)' => Early(q))  BY <1>2, OnwardToken
<1>4. /\ "started" \in AgentEvents \cup Controls /\ "terminal" \in AgentEvents \cup Controls
  BY DEF Controls
<1>5. CASE r \in starts /\ Push(<<Msg(r, "started")>>)
  <2>1. ~Early(r)'  BY <1>3, <1>5 DEF OpenInv, Silent
  <2>2. Msg(r, "started") \in Message /\ Msg(r, "started").run = r
        /\ Msg(r, "started").type # "queued_in_gui"
    BY <1>4, MsgType DEF Msg
  <2> QED BY <1>1, <1>3, <1>5, <2>1, <2>2, StartedKeeps
<1>6. CASE Push(<<Msg(r, "terminal")>>)
  <2>1. Msg(r, "terminal") \in Message /\ Msg(r, "terminal").type = "terminal"
    BY <1>4, MsgType DEF Msg
  <2>2. ParkOrder(up)' /\ \A q \in Runs : Quiescent(up, q) => Quiescent(up, q)'
    BY <1>1, <1>6, <2>1, PushTame DEF Starters
  <2> QED BY <1>1, <1>2, <2>2, DeskTame, TameKeeps
<1> QED BY <1>5, <1>6 DEF Replay

LEMMA ReconcileKeeps == ASSUME OpenInv, ChatInv', Reconcile PROVE OpenInv'
<1>1. /\ UNCHANGED <<gw, up, chain, exec, ledger, sort, watch, down, inbox>>
      /\ \A q \in starts' : ledger[q] = "running"
  BY DEF Reconcile, gateVars, deskVars
<1>2. Onward  BY <1>1 DEF Onward
<1>3. \A q \in Runs : Token(q)' /\ (Early(q)' => Early(q))  BY <1>2, OnwardToken
<1>4. ASSUME NEW q \in Runs, Silent(q) PROVE Silent(q)'
  <2>1. q \notin starts'  BY <1>1, <1>4 DEF Silent
  <2> QED BY <1>1, <1>4, <2>1 DEF Silent, Quiescent
<1>5. Sole(gw)' /\ OnlyEvents' /\ ParkOrder(up)'  BY <1>1, UpSame DEF OpenInv, OnlyEvents
<1> QED BY <1>3, <1>4, <1>5, StartKeeps

LEMMA StartRunKeeps == ASSUME OpenInv, ChatInv', NEW r \in Runs, StartRun(r) PROVE OpenInv'
<1>0. /\ inbox \in [Runs -> {"none", "queued", "claimed", "parked", "running"}]
      /\ exec \in [Runs -> {"none", "owned", "started", "streaming", "ended", "over"}]
      /\ ledger \in [Runs -> {"none", "running", "ended", "old"}]
      /\ sort \in [Runs -> {"unused", "web", "draft", "local"}]
  BY DEF OpenInv, ChatInv, Rest
<1>1. inbox[r] \in {"claimed", "parked"}  BY DEF StartRun
<1>2. sort[r] # "unused" /\ watch[r] # "dispatch" /\ ~Coming(down, r)
  BY <1>1 DEF OpenInv, Token
<1>3. UNCHANGED <<gw, chain, starts, watch, down>>  BY DEF StartRun, gateVars, Lane
<1>4. /\ sort' = [sort EXCEPT ![r] = "web"]
      /\ inbox' = [inbox EXCEPT ![r] = "running"] \/ inbox' = [inbox EXCEPT ![r] = "none"]
  BY DEF StartRun, MarkStarted, Inbox
<1>5. ~Early(r)'
  <2>1. sort'[r] = "web" /\ inbox'[r] \in {"running", "none"}  BY <1>0, <1>4
  <2> QED BY <1>2, <1>3, <2>1 DEF Early, Coming
<1>6. ASSUME NEW q \in Runs PROVE Token(q)' /\ (Early(q)' => Early(q))
  <2>1. Token(q)  BY DEF OpenInv
  <2>2. CASE q = r
    <3>1. sort'[r] = "web"  BY <1>0, <1>4
    <3> QED BY <1>2, <1>3, <1>5, <2>1, <2>2, <3>1 DEF Token, Coming
  <2>3. CASE q # r
    <3>1. sort'[q] = sort[q] /\ inbox'[q] = inbox[q]  BY <1>0, <1>4, <2>3
    <3> QED BY <1>3, <2>1, <3>1 DEF Token, Early, Coming
  <2> QED BY <2>2, <2>3
<1>7. /\ "started" \in AgentEvents \cup Controls /\ "terminal" \in AgentEvents \cup Controls
  BY DEF Controls
<1>8. \A q \in Runs \ {r} : exec'[q] = exec[q] /\ ledger'[q] = ledger[q]
  BY <1>0 DEF StartRun, MarkStarted, Exec, Mark, Conclude
<1>9. CASE online
  <2> DEFINE m == [Msg(r, "started") EXCEPT !.named = TRUE]
  <2>1. Push(<<m>>)  BY <1>9 DEF StartRun, MarkStarted
  <2>2. m \in Message /\ m.run = r /\ m.type # "queued_in_gui"  BY <1>7, MsgType DEF Msg
  <2> HIDE DEF m
  <2> QED BY <1>3, <1>5, <1>6, <1>8, <2>1, <2>2, StartedKeeps
<1>10. CASE ~online
  <2> DEFINE m == Msg(r, "terminal")
  <2>1. UNCHANGED up  BY <1>10 DEF StartRun, Conclude, Tell
  <2>2. m \in Message /\ m.run = r /\ m.type # "queued_in_gui"  BY <1>7, MsgType DEF Msg
  <2> HIDE DEF m
  <2> QED BY <1>3, <1>5, <1>6, <1>8, <2>1, <2>2, StartedKeeps
<1> QED BY <1>9, <1>10

LEMMA StartLocalKeeps == ASSUME OpenInv, ChatInv', NEW r \in Runs, StartLocal(r) PROVE OpenInv'
<1>0. /\ exec \in [Runs -> {"none", "owned", "started", "streaming", "ended", "over"}]
      /\ ledger \in [Runs -> {"none", "running", "ended", "old"}]
      /\ sort \in [Runs -> {"unused", "web", "draft", "local"}]
  BY DEF OpenInv, ChatInv, Rest
<1>1. /\ sort[r] = "unused" /\ sort' = [sort EXCEPT ![r] = "local"]
      /\ UNCHANGED <<gw, chain, starts, watch, down, inbox>>
  BY DEF StartLocal, gateVars, Lane
<1>2. watch[r] = "off" /\ ~Coming(down, r) /\ inbox[r] = "none"  BY <1>1 DEF OpenInv, Token
<1>3. sort'[r] = "local" /\ \A q \in Runs \ {r} : sort'[q] = sort[q]  BY <1>0, <1>1
<1>4. ~Early(r)'  BY <1>1, <1>2, <1>3 DEF Early, Coming
<1>5. ASSUME NEW q \in Runs PROVE Token(q)' /\ (Early(q)' => Early(q))
  <2>1. Token(q)  BY DEF OpenInv
  <2>2. CASE q = r  BY <1>1, <1>2, <1>3, <1>4, <2>1, <2>2 DEF Token, Coming
  <2>3. CASE q # r  BY <1>1, <1>3, <2>1, <2>3 DEF Token, Early, Coming
  <2> QED BY <2>2, <2>3
<1>6. \A q \in Runs \ {r} : exec'[q] = exec[q] /\ ledger'[q] = ledger[q]
  BY <1>0 DEF StartLocal, Exec, Mark
<1> DEFINE m == Msg(r, "started")
<1>7. Push(<<m>>) \/ UNCHANGED up  BY DEF StartLocal, Tell
<1>8. m \in Message /\ m.run = r /\ m.type # "queued_in_gui"
  BY MsgType DEF Msg, Controls
<1> HIDE DEF m
<1> QED BY <1>1, <1>4, <1>5, <1>6, <1>7, <1>8, StartedKeeps

LEMMA EmitKeeps == ASSUME OpenInv, ChatInv', NEW r \in Runs, Emit(r) PROVE OpenInv'
<1>1. UNCHANGED <<gw, up, starts, ledger, sort, watch, down, inbox>>
  BY DEF Emit, gateVars, netVars
<1>2. Onward  BY <1>1 DEF Onward
<1>3. \A q \in Runs : Token(q)' /\ (Early(q)' => Early(q))  BY <1>2, OnwardToken
<1>4. PICK step \in {<<"started", "user_message", "streaming">>, <<"streaming", "done", "ended">>} :
         exec[r] = step[1] /\ chain' = Append(chain, Msg(r, step[2])) /\ Exec(r, step[3])
  BY DEF Emit
<1> DEFINE m == Msg(r, step[2])
<1>5. m \in Message /\ m.run = r /\ m.type \in AgentEvents
  <2>1. step[2] = "user_message" \/ step[2] = "done"  BY <1>4
  <2>2. step[2] \in AgentEvents  BY <2>1 DEF AgentEvents
  <2>3. m.run = r /\ m.type = step[2]  BY DEF Msg
  <2> QED BY <2>2, <2>3, MsgType
<1>6. exec[r] \in {"started", "streaming"} /\ chain' = Append(chain, m)
      /\ \A q \in Runs \ {r} : exec'[q] = exec[q]
  BY <1>4 DEF Exec, OpenInv, ChatInv, Rest
<1> HIDE DEF m
<1>7. ~Early(r)'  BY <1>3, <1>6 DEF OpenInv, Silent
<1>8. chain \in Seq(Message)  BY WireFacts
<1>9. ASSUME NEW q \in Runs, Early(q)', Silent(q) PROVE Silent(q)'
  <2>1. q # r  BY <1>7, <1>9
  <2>2. Quiescent(Append(chain, m), q)
    BY <1>5, <1>8, <1>9, <2>1, AppendQuiescent DEF Silent
  <2>3. Quiescent(chain, q)'  BY <1>6, <2>2
  <2>4. Quiescent(up, q)'  BY <1>1, <1>9 DEF Silent
  <2> QED BY <1>1, <1>6, <1>9, <2>1, <2>3, <2>4 DEF Silent
<1>10. OnlyEvents'
  <2>1. /\ Len(chain') = Len(chain) + 1 /\ Len(chain) \in Nat /\ chain'[Len(chain) + 1] = m
        /\ \A k \in 1..Len(chain) : chain'[k] = chain[k]
    BY <1>5, <1>6, <1>8, AppendFacts
  <2> SUFFICES ASSUME NEW k \in 1..Len(chain) + 1 PROVE chain'[k].type \in AgentEvents
    BY <2>1 DEF OnlyEvents
  <2>2. CASE k \in 1..Len(chain)  BY <2>1, <2>2 DEF OpenInv, OnlyEvents
  <2>3. CASE k = Len(chain) + 1  BY <1>5, <2>1, <2>3
  <2> QED BY <2>1, <2>2, <2>3
<1>11. Sole(gw)' /\ ParkOrder(up)'  BY <1>1, UpSame DEF OpenInv
<1> QED BY <1>3, <1>9, <1>10, <1>11, StartKeeps

LEMMA SendEventKeeps == ASSUME OpenInv, ChatInv', SendEvent PROVE OpenInv'
<1> DEFINE m == Head(chain)
<1>1. /\ chain # <<>> /\ chain' = Tail(chain)
      /\ UNCHANGED <<gw, exec, starts, sort, watch, down, inbox>>
  BY DEF SendEvent, gateVars, Lane
<1>2. Onward  BY <1>1 DEF Onward
<1>3. \A q \in Runs : Token(q)' /\ (Early(q)' => Early(q))  BY <1>2, OnwardToken
<1>4. chain \in Seq(Message) /\ up \in Seq(Message)  BY WireFacts
<1>5. /\ Len(chain) \in Nat \ {0} /\ m = chain[1] /\ m \in Message
      /\ Len(chain') = Len(chain) - 1 /\ \A k \in 1..Len(chain) - 1 : chain'[k] = chain[k + 1]
  BY <1>1, <1>4, TailFacts
<1>6. Push(<<m>>) \/ UNCHANGED up  BY DEF SendEvent
<1>7. m.type \in AgentEvents /\ m.run \in Runs
  <2>1. 1 \in 1..Len(chain)  BY <1>5
  <2> QED BY <1>5, <2>1 DEF OpenInv, OnlyEvents, Message
<1>8. ASSUME NEW q \in Runs, q = m.run => m.type \notin Starters
      PROVE  ledger'[q] = "running" => ledger[q] = "running"
  <2>1. Mark(m.run, "ended") \/ (Mark(m.run, "running") /\ m.type # "done")  BY DEF SendEvent
  <2>2. q # m.run \/ m.type = "done"  BY <1>7, <1>8 DEF AgentEvents, Starters
  <2> QED BY <2>1, <2>2 DEF Mark, OpenInv, ChatInv, Rest
<1> HIDE DEF m
<1>9. ParkOrder(up)' /\ (up' = Append(up, m) \/ UNCHANGED up)
  <2>1. CASE Push(<<m>>)
    <3>1. m.type # "queued_in_gui"  BY <1>7 DEF AgentEvents
    <3> QED BY <1>1, <1>5, <2>1, <3>1, PushOrder
  <2>2. CASE UNCHANGED up  BY <1>1, <2>2, UpSame
  <2> QED BY <1>6, <2>1, <2>2
<1>10. ASSUME NEW q \in Runs, Silent(q) PROVE Silent(q)'
  <2>1. Quiescent(chain, q)'  BY <1>1, <1>4, <1>10, TailQuiescent DEF Silent
  <2>2. m.run = q => m.type \notin Starters
    <3>1. 1 \in 1..Len(chain)  BY <1>5
    <3> QED BY <1>5, <1>10, <3>1 DEF Silent, Quiescent
  <2>3. Quiescent(Append(up, m), q)  BY <1>4, <1>5, <1>10, <2>2, AppendQuiescent DEF Silent
  <2>4. Quiescent(up, q)'  BY <1>9, <1>10, <2>3 DEF Silent
  <2> QED BY <1>1, <1>8, <1>10, <2>1, <2>2, <2>4 DEF Silent
<1>11. OnlyEvents'
  <2>1. \A k \in 1..Len(chain) - 1 : k + 1 \in 1..Len(chain)  BY <1>5
  <2> QED BY <1>5, <2>1 DEF OpenInv, OnlyEvents
<1>12. Sole(gw)'  BY <1>1 DEF OpenInv
<1> QED BY <1>3, <1>9, <1>10, <1>11, <1>12, StartKeeps

LEMMA DeliverKeeps == ASSUME OpenInv, ChatInv', Deliver PROVE OpenInv'
<1> DEFINE m == Head(up)
<1>1. /\ up # <<>> /\ up' = Tail(up) /\ gw' = Handle(m)
      /\ UNCHANGED <<exec, ledger, chain, starts, sort, watch, down, inbox>>
  BY DEF Deliver, deskVars
<1>2. Onward  BY <1>1 DEF Onward
<1>3. \A q \in Runs : Token(q)' /\ (Early(q)' => Early(q))  BY <1>2, OnwardToken
<1>4. up \in Seq(Message)  BY WireFacts
<1>5. /\ Len(up) \in Nat \ {0} /\ m = up[1] /\ m \in Message
      /\ Len(up') = Len(up) - 1 /\ \A k \in 1..Len(up) - 1 : up'[k] = up[k + 1]
  BY <1>1, <1>4, TailFacts
<1>6. 1 \in 1..Len(up) /\ \A k \in 1..Len(up) - 1 : k + 1 \in 1..Len(up)  BY <1>5
<1> HIDE DEF m
<1>7. m.type = "queued_in_gui" => ~Open(gw, m.run)  BY <1>5, <1>6 DEF OpenInv, ParkOrder
<1>8. Opens(gw, gw', m)  BY <1>1, <1>5, <1>7, HandleOpens DEF OpenInv, ChatInv
<1>9. ASSUME NEW q \in Runs, Silent(q) PROVE Silent(q)'
  <2>1. m.run = q => m.type \notin Starters  BY <1>5, <1>6, <1>9 DEF Silent, Quiescent
  <2>2. ~Open(gw', q)  BY <1>8, <1>9, <2>1 DEF Opens, Silent
  <2>3. Quiescent(up, q)'  BY <1>1, <1>4, <1>9, TailQuiescent DEF Silent
  <2> QED BY <1>1, <1>9, <2>2, <2>3 DEF Silent
<1>10. ParkOrder(up)'
  <2> SUFFICES ASSUME NEW k \in 1..Len(up) - 1, up'[k].type = "queued_in_gui"
               PROVE  /\ ~Open(gw', up'[k].run)
                      /\ \A j \in 1..k - 1 :
                            up'[j].run = up'[k].run => up'[j].type \notin Starters
    BY <1>5 DEF ParkOrder
  <2>1. up'[k] = up[k + 1] /\ k + 1 \in 1..Len(up) /\ up[k + 1].run \in Runs
    BY <1>5, <1>6, WireFacts
  <2>2. /\ ~Open(gw, up[k + 1].run)
        /\ \A j \in 1..k : up[j].run = up[k + 1].run => up[j].type \notin Starters
    <3>1. k + 1 - 1 = k  OBVIOUS
    <3> QED BY <2>1, <3>1 DEF OpenInv, ParkOrder
  <2>3. 1 \in 1..k /\ \A j \in 1..k - 1 : j \in 1..Len(up) - 1 /\ j + 1 \in 1..k  BY <1>5
  <2>4. ~Open(gw', up[k + 1].run)  BY <1>5, <1>8, <2>1, <2>2, <2>3 DEF Opens
  <2> QED BY <1>5, <2>1, <2>2, <2>3, <2>4
<1>11. Sole(gw)' /\ OnlyEvents'  BY <1>1, <1>8 DEF Opens, OpenInv, OnlyEvents
<1> QED BY <1>3, <1>9, <1>10, <1>11, StartKeeps

-----------------------------------------------------------------------------
LEMMA OpenInit == Init => OpenInv
<1> SUFFICES ASSUME Init PROVE OpenInv  OBVIOUS
<1>1. ChatInv  BY ChatInit
<1>2. gw.log = <<>> /\ chain = <<>> /\ up = <<>> /\ down = <<>>
  BY DEF Init, StoreInit, EmptyStore
<1>3. Len(chain) = 0 /\ Len(up) = 0 /\ Len(down) = 0  BY <1>2
<1>4. \A r : ~Open(gw, r)  BY <1>2 DEF Open
<1>5. Sole(gw) /\ ParkOrder(up) /\ OnlyEvents  BY <1>3, <1>4 DEF Sole, ParkOrder, OnlyEvents
<1>6. ASSUME NEW r \in Runs PROVE Token(r) /\ Silent(r)
  <2>1. /\ watch[r] = "off" /\ inbox[r] = "none" /\ exec[r] = "none" /\ ledger[r] = "none"
        /\ r \notin starts
    BY DEF Init
  <2>2. ~Coming(down, r) /\ Quiescent(up, r) /\ Quiescent(chain, r)
    BY <1>3 DEF Coming, Quiescent
  <2> QED BY <1>3, <1>4, <2>1, <2>2 DEF Token, Silent
<1> QED BY <1>1, <1>5, <1>6 DEF OpenInv

LEMMA OpenStep == OpenInv /\ [Next]_vars => OpenInv'
<1> SUFFICES ASSUME OpenInv, [Next]_vars PROVE OpenInv'  OBVIOUS
<1>1. ChatInv'  BY ChatStep DEF OpenInv
<1>2. Tame => OpenInv'  BY <1>1, TameKeeps
<1>3. ASSUME NEW r \in Runs, \E draft \in BOOLEAN : Submit(r, draft) PROVE OpenInv'
  BY <1>2, <1>3, SubmitTame
<1>4. ASSUME NEW r \in Runs,
             Dispatch(r) \/ CheckStartup(r) \/ FailStartup(r) \/ ForceCancel(r) \/ Sweep(r)
             \/ Age(r) \/ FlushEnd(r) \/ Claim(r) \/ Release(r) \/ Expire(r) \/ ParkInGUI(r) \/ Reject(r)
             \/ RemoveParked(r) \/ Complete(r)
      PROVE  OpenInv'
  BY <1>2, <1>4, DispatchTame, WatchTame, SweepTame, AgeTame, FlushEndTame, InboxTame
<1>5. ASSUME NEW r \in Runs, Replay(r) \/ StartRun(r) \/ StartLocal(r) \/ Emit(r) PROVE OpenInv'
  BY <1>1, <1>5, ReplayKeeps, StartRunKeeps, StartLocalKeeps, EmitKeeps
<1>6. Cancel \/ LoseRun \/ Disconnect \/ RestartGateway \/ Reconnect \/ Receive \/ Reload
      \/ RestartDesktop => OpenInv'
  BY <1>2, CancelTame, LoseRunTame, CutTame, ReconnectTame, ReceiveTame, ReloadTame,
     RestartDesktopTame
<1>7. Reconcile \/ SendEvent \/ Deliver => OpenInv'
  BY <1>1, ReconcileKeeps, SendEventKeeps, DeliverKeeps
<1>8. UNCHANGED vars => OpenInv'
  <2> SUFFICES ASSUME UNCHANGED vars PROVE OpenInv'  OBVIOUS
  <2>1. UNCHANGED <<gw, up, chain, starts, exec, ledger, sort, watch, down, inbox>>
    BY DEF vars, gateVars, deskVars, netVars
  <2>2. Onward  BY <2>1 DEF Onward
  <2>3. Tame  BY <2>1, <2>2, UpSame, DeskTame
  <2> QED BY <1>2, <2>3
<1> QED BY <1>3, <1>4, <1>5, <1>6, <1>7, <1>8 DEF Next

(* No viewer ever sees two runs open, and the one it sees is the activity's: *)
(* the desktop never parks a run after it said that it started.            *)
THEOREM OneOpenRunThm == Spec => []OneOpenRun
<1>1. OpenInv => OneOpenRun  BY DEF OpenInv, Sole, OneOpenRun
<1> QED BY <1>1, OpenInit, OpenStep, PTL DEF Spec

-----------------------------------------------------------------------------
LEMMA AppendCount ==
    ASSUME NEW g \in StoreType, NEW h, NEW e \in EventType, h.log = Append(g.log, e),
           NEW kind, NEW r
    PROVE  /\ Count(g, kind, r) \in Nat
           /\ e = [kind |-> kind, run |-> r] => Count(h, kind, r) = Count(g, kind, r) + 1
           /\ e # [kind |-> kind, run |-> r] => Count(h, kind, r) = Count(g, kind, r)
<1> DEFINE n == Len(g.log)
           w == [kind |-> kind, run |-> r]
           S == {i \in DOMAIN g.log : g.log[i] = w}
           T == {i \in DOMAIN h.log : h.log[i] = w}
<1>1. g.log \in Seq(EventType)  BY DEF StoreType
<1>2. /\ n \in Nat /\ DOMAIN g.log = 1..n /\ DOMAIN h.log = 1..n + 1 /\ h.log[n + 1] = e
      /\ \A k \in 1..n : h.log[k] = g.log[k]
  BY <1>1, AppendFacts
<1>3. Count(g, kind, r) = Cardinality(S) /\ Count(h, kind, r) = Cardinality(T)  BY DEF Count
<1> HIDE DEF w, n
<1>4. IsFiniteSet(S)
  <2>1. S \subseteq 1..n  BY <1>2
  <2>2. n \in Int  BY <1>2
  <2>3. IsFiniteSet(1..n)  BY <2>2, FS_Interval
  <2> QED BY <2>1, <2>3, FS_Subset
<1>5. n + 1 \notin S  BY <1>2
<1>6. e = w => T = S \cup {n + 1}  BY <1>2
<1>7. e # w => T = S  BY <1>2
<1> HIDE DEF S, T
<1>8. Cardinality(S) \in Nat /\ Cardinality(S \cup {n + 1}) = Cardinality(S) + 1
  BY <1>4, <1>5, FS_AddElement, FS_CardinalityType
<1> QED BY <1>3, <1>6, <1>7, <1>8 DEF w

LEMMA AppendNet ==
    ASSUME NEW g \in StoreType, NEW h, NEW kind \in Kinds, NEW q \in Runs,
           h.log = Append(g.log, [kind |-> kind, run |-> q]), NEW r \in Runs
    PROVE  /\ Net(g, r) \in Int
           /\ q # r \/ kind \notin {"user_message", "run_queued"} => Net(h, r) = Net(g, r)
           /\ q = r /\ kind = "user_message" => Net(h, r) = Net(g, r) + 1
           /\ q = r /\ kind = "run_queued" => Net(h, r) = Net(g, r) - 1
<1> DEFINE e == [kind |-> kind, run |-> q]
<1>1. e \in EventType  BY DEF EventType
<1>2. /\ e = [kind |-> "user_message", run |-> r] <=> kind = "user_message" /\ q = r
      /\ e = [kind |-> "run_queued", run |-> r] <=> kind = "run_queued" /\ q = r
  OBVIOUS
<1> HIDE DEF e
<1>3. h.log = Append(g.log, e)  BY DEF e
<1>4. /\ Count(g, "user_message", r) \in Nat
      /\ e = [kind |-> "user_message", run |-> r] =>
            Count(h, "user_message", r) = Count(g, "user_message", r) + 1
      /\ e # [kind |-> "user_message", run |-> r] =>
            Count(h, "user_message", r) = Count(g, "user_message", r)
  BY <1>1, <1>3, AppendCount
<1>5. /\ Count(g, "run_queued", r) \in Nat
      /\ e = [kind |-> "run_queued", run |-> r] =>
            Count(h, "run_queued", r) = Count(g, "run_queued", r) + 1
      /\ e # [kind |-> "run_queued", run |-> r] =>
            Count(h, "run_queued", r) = Count(g, "run_queued", r)
  BY <1>1, <1>3, AppendCount
<1> QED BY <1>2, <1>4, <1>5 DEF Net

LEMMA SameNet == ASSUME NEW g, NEW h, h.log = g.log, NEW r PROVE Net(h, r) = Net(g, r)
BY DEF Net, Count

(* What a step on the store keeps of a run, unless it is pushed out of the  *)
(* ring; q is the run that the step is about.                              *)
Longer(g, h) == \A r \in Runs : PushedOut(g, r) => PushedOut(h, r)
Keeps(g, h, r) ==
    One(g, r) => One(h, r) /\ (Free(g, r) => Free(h, r)) /\ (Clear(g, r) => Clear(h, r))
Others(g, h, q) ==
    /\ h \in StoreType /\ Longer(g, h)
    /\ \A r \in Runs \ {q} : /\ PushedOut(h, r) \/ Keeps(g, h, r)
                             /\ New(g, r) => New(h, r)
Kept(g, h, q) == Others(g, h, q) /\ (q \in Runs => PushedOut(h, q) \/ Keeps(g, h, q))

LEMMA SameLonger == ASSUME NEW g, NEW h, h.fin = g.fin PROVE Longer(g, h)
BY DEF Longer, PushedOut

LEMMA OthersTrans ==
    ASSUME NEW g, NEW h, NEW k, NEW q, Others(g, h, q), Others(h, k, q)
    PROVE  Others(g, k, q)
<1>1. k \in StoreType /\ Longer(g, k)  BY DEF Others, Longer
<1>2. ASSUME NEW r \in Runs \ {q}
      PROVE  (PushedOut(k, r) \/ Keeps(g, k, r)) /\ (New(g, r) => New(k, r))
  <2>1. PushedOut(h, r) \/ Keeps(g, h, r)  BY DEF Others
  <2>2. PushedOut(k, r) \/ Keeps(h, k, r)  BY DEF Others
  <2>3. PushedOut(h, r) => PushedOut(k, r)  BY DEF Others, Longer
  <2>4. Keeps(g, h, r) /\ Keeps(h, k, r) => Keeps(g, k, r)  BY DEF Keeps
  <2>5. New(g, r) => New(k, r)  BY DEF Others
  <2> QED BY <2>1, <2>2, <2>3, <2>4, <2>5
<1> QED BY <1>1, <1>2 DEF Others

LEMMA KeptSelf == ASSUME NEW g \in StoreType, NEW q PROVE Kept(g, g, q)
BY DEF Kept, Others, Longer, Keeps

LEMMA KeptTrans ==
    ASSUME NEW g, NEW h, NEW k, NEW q, Kept(g, h, q), Kept(h, k, q)
    PROVE  Kept(g, k, q)
<1>1. Others(g, k, q)  BY OthersTrans DEF Kept, Others
<1>2. q \in Runs => PushedOut(k, q) \/ Keeps(g, k, q)  BY DEF Kept, Others, Longer, Keeps
<1> QED BY <1>1, <1>2 DEF Kept, Others

(* Nothing is shown, marked or deferred. *)
SameRun(g, h, r) ==
    /\ Net(h, r) = Net(g, r) /\ h.rec[r].seeded = g.rec[r].seeded
    /\ h.rec[r].deferred = g.rec[r].deferred
    /\ Remembered(g, r) => Remembered(h, r)
    /\ r \in h.pending => r \in g.pending
Activity(g, h, q) ==
    \/ h.act = g.act \/ h.act.run = None
    \/ h.act.run = q /\ (h.act.state = "queued" \/ ~h.rec[q].deferred)

(* A run that is pushed out loses its record. *)
LosesRecord(g, h, r) ==
    /\ PushedOut(h, r) /\ Net(h, r) = Net(g, r) /\ h.rec[r] = NoRecord
    /\ r \in h.pending => r \in g.pending

LEMMA SteadyKept ==
    ASSUME NEW g \in StoreType, NEW h \in StoreType, NEW q, Longer(g, h), Activity(g, h, q),
           \A r \in Runs : SameRun(g, h, r) \/ LosesRecord(g, h, r)
    PROVE  Kept(g, h, q)
<1> SUFFICES ASSUME NEW r \in Runs
             PROVE  (PushedOut(h, r) \/ Keeps(g, h, r)) /\ (r # q /\ New(g, r) => New(h, r))
  BY DEF Kept, Others
<1>1. Activity(g, h, q) /\ None # r  BY NoneAssumption
<1>2. CASE SameRun(g, h, r)
  <2>1. One(g, r) => One(h, r)  BY <1>1, <1>2 DEF SameRun, Activity, One
  <2>2. Free(g, r) => Free(h, r)  BY <1>2 DEF SameRun, Free
  <2>3. Clear(g, r) => Clear(h, r)  BY <1>2 DEF SameRun, Clear
  <2>4. r # q /\ New(g, r) => New(h, r)  BY <1>1, <1>2 DEF SameRun, Activity, New
  <2> QED BY <2>1, <2>2, <2>3, <2>4 DEF Keeps
<1>3. CASE LosesRecord(g, h, r)
  BY <1>1, <1>3 DEF LosesRecord, NoRecord, Activity, New
<1> QED BY <1>2, <1>3

(* The log and the records. *)
LEMMA RecordKept ==
    ASSUME NEW g \in StoreType, NEW r \in Runs, NEW d \in RecordType,
           d.seeded = g.rec[r].seeded, d.deferred = g.rec[r].deferred
    PROVE  Kept(g, [g EXCEPT !.rec[r] = d], r)
<1> DEFINE h == [g EXCEPT !.rec[r] = d]
<1>1. /\ h \in StoreType /\ h.log = g.log /\ h.act = g.act /\ h.ring = g.ring
      /\ h.fin = g.fin /\ h.pending = g.pending /\ h.rec = [g.rec EXCEPT ![r] = d]
      /\ g.rec \in [Runs -> RecordType]
  BY LenProperties DEF StoreType
<1> HIDE DEF h
<1>2. ASSUME NEW q \in Runs PROVE SameRun(g, h, q)
  <2>1. Net(h, q) = Net(g, q)  BY <1>1, SameNet
  <2>2. h.rec[q].seeded = g.rec[q].seeded  BY <1>1
  <2>3. h.rec[q].deferred = g.rec[q].deferred  BY <1>1
  <2> QED BY <1>1, <2>1, <2>2, <2>3 DEF SameRun, Remembered
<1>3. Activity(g, h, r) /\ Longer(g, h)  BY <1>1, SameLonger DEF Activity
<1>4. Kept(g, h, r)  BY <1>1, <1>2, <1>3, SteadyKept
<1> QED BY <1>4 DEF h

LEMMA BindKept ==
    ASSUME NEW g \in StoreType, NEW r \in Runs
    PROVE  Kept(g, Bind(g, r), r)
<1> DEFINE d == [g.rec[r] EXCEPT !.bound = TRUE]
<1>1. d \in RecordType /\ d.seeded = g.rec[r].seeded /\ d.deferred = g.rec[r].deferred
  BY DEF StoreType, RecordType
<1>2. Bind(g, r) = [g EXCEPT !.rec[r] = d]  BY DEF Bind, StoreType
<1> HIDE DEF d
<1> QED BY <1>1, <1>2, RecordKept

LEMMA LogKept ==
    ASSUME NEW g \in StoreType, NEW r \in Runs,
           NEW kind \in Kinds \ {"user_message", "run_queued"}
    PROVE  Kept(g, Log(g, kind, r), r)
<1> DEFINE h == Log(g, kind, r)
<1>1. /\ h \in StoreType /\ h.log = Append(g.log, [kind |-> kind, run |-> r])
      /\ h.act = g.act /\ h.ring = g.ring /\ h.fin = g.fin /\ h.rec = g.rec
      /\ h.pending = g.pending
  BY LogType
<1> HIDE DEF h
<1>2. ASSUME NEW q \in Runs PROVE SameRun(g, h, q)
  <2>1. Net(h, q) = Net(g, q)  BY <1>1, AppendNet
  <2> QED BY <1>1, <2>1 DEF SameRun, Remembered
<1>3. Activity(g, h, r) /\ Longer(g, h)  BY <1>1, SameLonger DEF Activity
<1>4. Kept(g, h, r)  BY <1>1, <1>2, <1>3, SteadyKept
<1> QED BY <1>4 DEF h

(* A seed, and what it says in the record. *)
LEMMA SeedFacts ==
    ASSUME NEW g \in StoreType, NEW r \in Runs, NEW kind \in Kinds
    PROVE  LET h == Seed(g, kind, r)
           IN  /\ h \in StoreType /\ h.log = Append(g.log, [kind |-> kind, run |-> r])
               /\ h.act = g.act /\ h.ring = g.ring /\ h.fin = g.fin /\ h.pending = g.pending
               /\ \A q \in Runs : /\ h.rec[q].seeded = g.rec[q].seeded
                                  /\ h.rec[q].deferred = g.rec[q].deferred
<1> DEFINE k == Log(g, kind, r)
           n == IF k.rec[r].first = 0 THEN Len(g.log) + 1 ELSE k.rec[r].first
           c == [k.rec EXCEPT ![r] = [@ EXCEPT !.first = n]]
           h == [k EXCEPT !.rec = c]
<1>1. /\ k \in StoreType /\ k.log = Append(g.log, [kind |-> kind, run |-> r])
      /\ k.act = g.act /\ k.ring = g.ring /\ k.fin = g.fin /\ k.rec = g.rec
      /\ k.pending = g.pending
  BY LogType
<1>2. Seed(g, kind, r) = h  BY DEF Seed
<1> HIDE DEF k
<1>3. k.rec \in [Runs -> RecordType] /\ Len(g.log) \in Nat  BY <1>1, LenProperties DEF StoreType
<1>4. /\ c \in [Runs -> RecordType]
      /\ \A q \in Runs : c[q].seeded = k.rec[q].seeded /\ c[q].deferred = k.rec[q].deferred
  BY <1>3 DEF RecordType
<1> HIDE DEF c
<1>5. /\ h \in StoreType /\ h.log = k.log /\ h.act = k.act /\ h.ring = k.ring
      /\ h.fin = k.fin /\ h.rec = c /\ h.pending = k.pending
  BY <1>1, <1>4, RecType
<1> HIDE DEF h
<1>6. \A q \in Runs : /\ h.rec[q].seeded = g.rec[q].seeded
                      /\ h.rec[q].deferred = g.rec[q].deferred
  BY <1>1, <1>4, <1>5
<1> QED BY <1>1, <1>2, <1>5, <1>6

LEMMA SeedPlainKept ==
    ASSUME NEW g \in StoreType, NEW r \in Runs
    PROVE  Kept(g, Seed(g, "rebased", r), r)
<1> DEFINE h == Seed(g, "rebased", r)
<1>1. /\ h \in StoreType /\ h.log = Append(g.log, [kind |-> "rebased", run |-> r])
      /\ h.act = g.act /\ h.ring = g.ring /\ h.fin = g.fin /\ h.pending = g.pending
      /\ \A q \in Runs : /\ h.rec[q].seeded = g.rec[q].seeded
                         /\ h.rec[q].deferred = g.rec[q].deferred
  <2>1. "rebased" \in Kinds  BY DEF Kinds
  <2> QED BY <2>1, SeedFacts
<1> HIDE DEF h
<1>2. ASSUME NEW q \in Runs PROVE SameRun(g, h, q)
  <2>1. Net(h, q) = Net(g, q)  BY <1>1, AppendNet DEF Kinds
  <2> QED BY <1>1, <2>1 DEF SameRun, Remembered
<1>3. Activity(g, h, r) /\ Longer(g, h)  BY <1>1, SameLonger DEF Activity
<1>4. Kept(g, h, r)  BY <1>1, <1>2, <1>3, SteadyKept
<1> QED BY <1>4 DEF h

(* The run's message is shown and marked: of a run that was not shown. *)
LEMMA ShownKept ==
    ASSUME NEW g \in StoreType, NEW h \in StoreType, NEW r \in Runs,
           h.log = Append(g.log, [kind |-> "user_message", run |-> r]),
           h.ring = g.ring, h.pending = g.pending,
           h.act = g.act,
           \A q \in Runs \ {r} : /\ h.rec[q].seeded = g.rec[q].seeded
                                 /\ h.rec[q].deferred = g.rec[q].deferred,
           h.fin = g.fin
    PROVE  /\ Others(g, h, r)
           /\ /\ h.rec[r].seeded /\ ~h.rec[r].deferred
              /\ One(g, r) => Net(g, r) = 0 /\ r \notin g.pending
              => Kept(g, h, r)
<1>1. Longer(g, h)  BY SameLonger
<1>2. /\ Net(g, r) \in Int /\ Net(h, r) = Net(g, r) + 1
      /\ \A q \in Runs \ {r} : Net(h, q) = Net(g, q)
  BY AppendNet DEF Kinds
<1>3. ASSUME h.rec[r].seeded, ~h.rec[r].deferred,
             One(g, r) => Net(g, r) = 0 /\ r \notin g.pending
      PROVE  Keeps(g, h, r)
  <2> SUFFICES ASSUME One(g, r)
               PROVE  One(h, r) /\ Free(h, r) /\ Clear(h, r)  BY DEF Keeps
  <2>1. Net(h, r) = 1 /\ r \notin h.pending  BY <1>2, <1>3
  <2> QED BY <1>3, <2>1 DEF One, Free, Clear
<1>4. ASSUME NEW q \in Runs \ {r} PROVE Keeps(g, h, q) /\ (New(g, q) => New(h, q))
  <2>1. Net(h, q) = Net(g, q) /\ (Remembered(h, q) <=> Remembered(g, q))
    BY <1>2 DEF Remembered
  <2>2. One(g, q) => One(h, q)  BY <2>1 DEF One
  <2>3. Free(g, q) => Free(h, q)  BY <2>1 DEF Free
  <2>4. Clear(g, q) => Clear(h, q)  BY <2>1 DEF Clear
  <2>5. New(g, q) => New(h, q)  BY <2>1 DEF New
  <2> QED BY <2>2, <2>3, <2>4, <2>5 DEF Keeps
<1> QED BY <1>1, <1>3, <1>4 DEF Kept, Others

LEMMA FlushKept ==
    ASSUME NEW g \in StoreType, NEW r \in Runs
    PROVE  /\ Kept(g, Flush(g, r), r) /\ ~Flush(g, r).rec[r].deferred
           /\ Flush(g, r).act = g.act /\ Flush(g, r).ring = g.ring /\ Flush(g, r).fin = g.fin
<1> DEFINE k == Seed(g, "user_message", r)
           c == [k.rec EXCEPT ![r] = [@ EXCEPT !.deferred = FALSE, !.seeded = TRUE]]
           h == [k EXCEPT !.rec = c]
<1>1. CASE ~g.rec[r].deferred  BY <1>1, KeptSelf DEF Flush
<1>2. CASE g.rec[r].deferred
  <2>1. Flush(g, r) = h  BY <1>2 DEF Flush
  <2>2. "user_message" \in Kinds  BY DEF Kinds
  <2>3. /\ k \in StoreType /\ k.log = Append(g.log, [kind |-> "user_message", run |-> r])
        /\ k.act = g.act /\ k.ring = g.ring /\ k.fin = g.fin /\ k.pending = g.pending
        /\ \A q \in Runs : /\ k.rec[q].seeded = g.rec[q].seeded
                           /\ k.rec[q].deferred = g.rec[q].deferred
    BY <2>2, SeedFacts
  <2> HIDE DEF k
  <2>4. k.rec \in [Runs -> RecordType]  BY <2>3 DEF StoreType
  <2>5. /\ c \in [Runs -> RecordType] /\ c[r].seeded /\ ~c[r].deferred
        /\ \A q \in Runs \ {r} : c[q] = k.rec[q]
    BY <2>4 DEF RecordType
  <2> HIDE DEF c
  <2>6. /\ h \in StoreType /\ h.log = k.log /\ h.act = k.act /\ h.ring = k.ring
        /\ h.fin = k.fin /\ h.rec = c /\ h.pending = k.pending
    BY <2>3, <2>5, RecType
  <2> HIDE DEF h
  <2>7. One(g, r) => Net(g, r) = 0 /\ r \notin g.pending  BY <1>2 DEF One
  <2>8. Kept(g, h, r)  BY <2>3, <2>5, <2>6, <2>7, ShownKept
  <2> QED BY <2>1, <2>3, <2>5, <2>6, <2>8
<1> QED BY <1>1, <1>2

LEMMA QueueKept ==
    ASSUME NEW g \in StoreType, NEW r \in Runs
    PROVE  /\ Kept(g, Queue(g, r), r)
           /\ Queue(g, r).log = g.log /\ Queue(g, r).rec = g.rec
           /\ Queue(g, r).pending = g.pending /\ Queue(g, r).fin = g.fin
<1>1. CASE Remembered(g, r) \/ g.act.run # None  BY <1>1, KeptSelf DEF Queue
<1>2. CASE ~(Remembered(g, r) \/ g.act.run # None)
  <2> DEFINE a == [run |-> r, state |-> "queued", start |-> Len(g.log) + 1]
             h == [g EXCEPT !.act = a]
  <2>1. Queue(g, r) = h  BY <1>2 DEF Queue
  <2>2. a \in [run : Runs \cup {None}, state : States, start : Nat]
    BY LenProperties DEF StoreType, States
  <2>3. a.run = r /\ a.state = "queued"  OBVIOUS
  <2> HIDE DEF a
  <2>4. /\ h \in StoreType /\ h.log = g.log /\ h.act = a /\ h.ring = g.ring
        /\ h.fin = g.fin /\ h.rec = g.rec /\ h.pending = g.pending
    BY <2>2, ActType
  <2> HIDE DEF h
  <2>5. Longer(g, h) /\ Activity(g, h, r)
    BY <2>3, <2>4, SameLonger DEF Activity
  <2>6. \A q \in Runs : SameRun(g, h, q)  BY <2>4, SameNet DEF SameRun, Remembered
  <2>7. Kept(g, h, r)  BY <2>4, <2>5, <2>6, SteadyKept
  <2> QED BY <2>1, <2>4, <2>7
<1> QED BY <1>1, <1>2

(* A run is closed; the one that this pushes out of the ring loses its record. *)
LEMMA CloseLonger ==
    ASSUME NEW g \in StoreType, NEW h \in StoreType, NEW r \in Runs, h.fin = Append(g.fin, r)
    PROVE  Longer(g, h)
<1>1. /\ Len(g.fin) \in Nat /\ Len(h.fin) = Len(g.fin) + 1
      /\ DOMAIN g.fin = 1..Len(g.fin) /\ DOMAIN h.fin = 1..Len(g.fin) + 1
      /\ \A k \in 1..Len(g.fin) : h.fin[k] = g.fin[k]
  <2>1. g.fin \in Seq(Runs)  BY DEF StoreType
  <2> QED BY <2>1, AppendFacts
<1> SUFFICES ASSUME NEW p \in Runs, PushedOut(g, p) PROVE PushedOut(h, p)  BY DEF Longer
<1>2. PICK i \in DOMAIN g.fin : g.fin[i] = p /\ Len(g.fin) - i >= Memory  BY DEF PushedOut
<1>3. i \in DOMAIN h.fin /\ h.fin[i] = p /\ Len(h.fin) - i >= Memory
  BY <1>1, <1>2, MemoryAssumption
<1> QED BY <1>3 DEF PushedOut

LEMMA CloseKept ==
    ASSUME NEW g, Inv(g), NEW r \in Runs, NEW q
    PROVE  Kept(g, Close(g, r), q) /\ Remembered(Close(g, r), r)
<1>0. g \in StoreType  BY DEF Inv
<1>1. CASE Remembered(g, r)  BY <1>0, <1>1, KeptSelf DEF Close
<1>2. CASE ~Remembered(g, r)
  <2> DEFINE h == Close(g, r)
             ring == Remember(g.ring, r)
             rec == IF Len(g.ring) < Memory THEN g.rec
                    ELSE [g.rec EXCEPT ![Head(g.ring)] = NoRecord]
             act == IF g.act.run = r THEN Idle ELSE g.act
             told == Append(g.log, [kind |-> "run_finished", run |-> r])
  <2>1. /\ h.log = told /\ h.ring = ring /\ h.fin = Append(g.fin, r) /\ h.rec = rec /\ h.act = act
        /\ h.pending = g.pending
    BY <1>0, <1>2 DEF Close, Log, StoreType
  <2>2. h \in StoreType  BY CloseKeepsInv DEF Inv
  <2>3. /\ g.ring \in Seq(Runs) /\ g.fin \in Seq(Runs) /\ Len(g.ring) \in Nat
        /\ Len(g.fin) \in Nat /\ DOMAIN g.ring = 1..Len(g.ring)
        /\ Len(g.ring) = IF Len(g.fin) < Memory THEN Len(g.fin) ELSE Memory
        /\ \A k \in DOMAIN g.ring : g.ring[k] = g.fin[Len(g.fin) - Len(g.ring) + k]
    BY <1>0, LenProperties DEF StoreType, Inv, RingIsTail
  <2>4. act = g.act \/ act.run = None  BY DEF Idle
  <2>5. Len(g.ring) < Memory => rec = g.rec /\ ring = Append(g.ring, r)
    BY DEF Remember
  <2>6. Len(g.ring) <= Memory  BY <2>3, MemoryAssumption
  <2>7. /\ ring \in Seq(Runs)
        /\ Len(ring) = IF Len(g.ring) < Memory THEN Len(g.ring) + 1 ELSE Memory
        /\ ring[Len(ring)] = r
        /\ \A k \in 1..(Len(ring) - 1) : ring[k] = g.ring[Len(g.ring) - Len(ring) + 1 + k]
    BY <2>3, <2>6, RememberRing
  <2>8. Len(g.ring) >= Memory =>
            rec = [g.rec EXCEPT ![g.ring[1]] = NoRecord] /\ g.rec \in [Runs -> RecordType]
    <3>1. g.rec \in [Runs -> RecordType]  BY <1>0 DEF StoreType
    <3>2. Len(g.ring) >= Memory => Head(g.ring) = g.ring[1]
      BY <2>3, EmptySeq, HeadTailProperties, MemoryAssumption
    <3>3. Len(g.ring) >= Memory => ~(Len(g.ring) < Memory)  BY <2>3, MemoryAssumption
    <3> QED BY <3>1, <3>2, <3>3
  <2>9. DOMAIN ring = 1..Len(ring) /\ Len(ring) \in Nat \ {0}
    BY <2>3, <2>7, LenProperties, MemoryAssumption
  <2>10. Longer(g, h)  BY <1>0, <2>1, <2>2, CloseLonger
  <2>11. \A p \in Runs : Net(h, p) = Net(g, p)  BY <1>0, <2>1, AppendNet DEF Kinds
  <2> HIDE DEF h, ring, rec, act
  <2>12. Remembered(h, r)  BY <2>1, <2>7, <2>9 DEF Remembered
  <2>13. Activity(g, h, q)  BY <2>1, <2>4 DEF Activity
  <2>14. ASSUME NEW p \in Runs, ~(Len(g.ring) >= Memory /\ p = g.ring[1])
         PROVE  SameRun(g, h, p)
    <3>1. h.rec[p] = g.rec[p]  BY <2>1, <2>3, <2>5, <2>8, <2>14, MemoryAssumption
    <3>2. ASSUME Remembered(g, p) PROVE Remembered(h, p)
      <4>1. PICK k \in 1..Len(g.ring) : g.ring[k] = p  BY <2>3, <3>2 DEF Remembered
      <4> DEFINE i == k - (Len(g.ring) - Len(ring) + 1)
      <4>2. Len(g.ring) >= Memory => k # 1  BY <2>14, <4>1
      <4>3. i \in 1..(Len(ring) - 1) /\ Len(g.ring) - Len(ring) + 1 + i = k
        <5>1. CASE Len(g.ring) < Memory  BY <2>3, <2>7, <4>1, <5>1
        <5>2. CASE Len(g.ring) = Memory  
          <6>1. Len(ring) = Memory /\ Memory \in Nat /\ k # 1 /\ k \in 1..Memory
            BY <2>7, <4>1, <4>2, <5>2, MemoryAssumption
          <6>2. i = k - 1  BY <5>2, <6>1
          <6> HIDE DEF i
          <6> QED BY <5>2, <6>1, <6>2
        <5> QED BY <2>3, <2>6, <5>1, <5>2, MemoryAssumption
      <4>4. ring[i] = p /\ i \in DOMAIN ring  BY <2>7, <2>9, <4>1, <4>3
      <4> QED BY <2>1, <4>4 DEF Remembered
    <3> QED BY <2>1, <2>11, <3>1, <3>2 DEF SameRun
  <2>15. ASSUME NEW p \in Runs, Len(g.ring) >= Memory, p = g.ring[1]
         PROVE  LosesRecord(g, h, p)
    <3>1. h.rec[p] = NoRecord  BY <2>1, <2>8, <2>15
    <3> DEFINE i == Len(g.fin) - Memory + 1
    <3>2. /\ 1 \in DOMAIN g.ring /\ Len(g.ring) = Memory /\ Memory \in Nat \ {0}
          /\ i \in 1..Len(g.fin) /\ Len(g.fin) + 1 - i = Memory
      BY <2>3, <2>6, <2>15, MemoryAssumption
    <3>3. g.fin[i] = p  BY <2>3, <2>15, <3>2
    <3>4. /\ Len(h.fin) = Len(g.fin) + 1 /\ DOMAIN h.fin = 1..Len(g.fin) + 1
          /\ \A k \in 1..Len(g.fin) : h.fin[k] = g.fin[k]
      BY <2>1, <2>3, AppendFacts
    <3> HIDE DEF i
    <3>5. i \in DOMAIN h.fin /\ h.fin[i] = p /\ Len(h.fin) - i >= Memory
      BY <2>3, <3>2, <3>3, <3>4
    <3>6. PushedOut(h, p)  BY <3>5 DEF PushedOut
    <3> QED BY <2>1, <2>11, <3>1, <3>6 DEF LosesRecord
  <2>16. Kept(g, h, q)  BY <1>0, <2>2, <2>10, <2>13, <2>14, <2>15, SteadyKept
  <2> QED BY <2>12, <2>16 DEF h
<1> QED BY <1>1, <1>2

LEMMA SupersedeKept ==
    ASSUME NEW g, Inv(g), NEW q
    PROVE  Kept(g, Supersede(g), q)
<1>1. CASE g.act.state \in {"running", "cancelling"}
  <2>1. g.act.run \in Runs  BY <1>1 DEF Inv, StoreType, IdleHasNoRun
  <2> QED BY <1>1, <2>1, CloseKept DEF Supersede
<1>2. CASE g.act.state \notin {"running", "cancelling"}
  BY <1>2, KeptSelf DEF Supersede, Inv
<1> QED BY <1>1, <1>2

LEMMA LogStartKept ==
    ASSUME NEW g \in StoreType, NEW r \in Runs
    PROVE  /\ Kept(g, LogStart(g, r), r) /\ ~LogStart(g, r).rec[r].deferred
           /\ LogStart(g, r).act = g.act /\ LogStart(g, r) \in StoreType
           /\ LogStart(g, r).fin = g.fin
<1> DEFINE b == Bind(g, r)
           k == Flush(b, r)
           h == Log(k, "run_started", r)
<1>1. Kept(g, b, r) /\ b \in StoreType /\ b.act = g.act /\ b.fin = g.fin
  BY BindKept, BindQuiet DEF Quiet
<1> HIDE DEF b
<1>2. /\ Kept(b, k, r) /\ ~k.rec[r].deferred /\ k.act = b.act /\ k \in StoreType
      /\ k.fin = b.fin
  BY <1>1, FlushKept DEF Kept, Others
<1> HIDE DEF k
<1>3. "run_started" \in Kinds \ {"user_message", "run_queued"}  BY DEF Kinds
<1>4. /\ Kept(k, h, r) /\ h.rec = k.rec /\ h.act = k.act /\ h \in StoreType /\ h.fin = k.fin
  BY <1>2, <1>3, LogKept, LogType
<1>5. LogStart(g, r) = h  BY DEF LogStart, b, k
<1> HIDE DEF h
<1> QED BY <1>1, <1>2, <1>4, <1>5, KeptTrans

(* A run is started: nothing of it is deferred any more. *)
LEMMA ActivatedKept ==
    ASSUME NEW g \in StoreType, NEW r \in Runs, ~g.rec[r].deferred,
           NEW a \in [run : Runs \cup {None}, state : States, start : Nat], a.run = r
    PROVE  Kept(g, [g EXCEPT !.act = a], r)
<1> DEFINE h == [g EXCEPT !.act = a]
<1>1. /\ h \in StoreType /\ h.log = g.log /\ h.act = a /\ h.ring = g.ring
      /\ h.fin = g.fin /\ h.rec = g.rec /\ h.pending = g.pending
  BY ActType
<1> HIDE DEF h
<1>2. Longer(g, h) /\ Activity(g, h, r)
  BY <1>1, SameLonger DEF Activity
<1>3. \A q \in Runs : SameRun(g, h, q)  BY <1>1, SameNet DEF SameRun, Remembered
<1>4. Kept(g, h, r)  BY <1>1, <1>2, <1>3, SteadyKept
<1> QED BY <1>4 DEF h

LEMMA StartKept ==
    ASSUME NEW g, Inv(g), NEW r \in Runs
    PROVE  /\ Kept(g, Start(g, r), r)
           /\ One(g, r) => Clear(Start(g, r), r)
<1>0. g \in StoreType  BY DEF Inv
<1>1. CASE Remembered(g, r)  BY <1>0, <1>1, KeptSelf DEF Start, Clear
<1>2. CASE ~Remembered(g, r) /\ g.act.run = r /\ g.act.state # "queued"
  BY <1>0, <1>2, KeptSelf DEF Start, Clear, One
<1>3. CASE ~Remembered(g, r) /\ g.act.run # r
  <2> DEFINE u == Supersede(g)
             k == LogStart(u, r)
             a == [run |-> r, state |-> "running",
                   start |-> IF k.rec[r].first \in 1..Len(k.log)
                             THEN k.rec[r].first ELSE Len(k.log)]
             h == [k EXCEPT !.act = a]
  <2>1. Inv(u) /\ Kept(g, u, r)  BY <1>3, SupersedeKeepsInv, SupersedeKept
  <2>2. Start(g, r) = h  BY <1>3 DEF Start, Activate
  <2> HIDE DEF u
  <2>3. Kept(u, k, r) /\ ~k.rec[r].deferred /\ k \in StoreType
    BY <2>1, LogStartKept DEF Inv
  <2> HIDE DEF k
  <2>4. a \in [run : Runs \cup {None}, state : States, start : Nat]
    BY <2>3, LenProperties DEF StoreType, States, RecordType
  <2>5. a.run = r  OBVIOUS
  <2> HIDE DEF a
  <2>6. Kept(k, h, r) /\ h.rec = k.rec  BY <2>3, <2>4, <2>5, ActivatedKept, ActType
  <2> HIDE DEF h
  <2>7. Kept(g, k, r)  BY <1>0, <2>1, <2>3, KeptTrans
  <2>8. Kept(g, h, r)  BY <1>0, <2>6, <2>7, KeptTrans
  <2> QED BY <2>2, <2>3, <2>6, <2>8 DEF Clear
<1>4. CASE ~Remembered(g, r) /\ g.act.run = r /\ g.act.state = "queued"
  <2> DEFINE k == LogStart(g, r)
             a == [k.act EXCEPT !.state = "running"]
             h == [k EXCEPT !.act = a]
  <2>1. Start(g, r) = h  BY <1>4 DEF Start
  <2>2. Kept(g, k, r) /\ ~k.rec[r].deferred /\ k \in StoreType /\ k.act = g.act
    BY <1>0, LogStartKept
  <2> HIDE DEF k
  <2>3. a \in [run : Runs \cup {None}, state : States, start : Nat] /\ a.run = r
    BY <1>4, <2>2 DEF StoreType, States
  <2> HIDE DEF a
  <2>4. Kept(k, h, r) /\ h.rec = k.rec  BY <2>2, <2>3, ActivatedKept, ActType
  <2> HIDE DEF h
  <2>5. Kept(g, h, r)  BY <1>0, <2>2, <2>4, KeptTrans
  <2> QED BY <2>1, <2>2, <2>4, <2>5 DEF Clear
<1> QED BY <1>1, <1>2, <1>3, <1>4

LEMMA FinishKept ==
    ASSUME NEW g, Inv(g), NEW r \in Runs
    PROVE  Kept(g, Finish(g, r), r)
<1> DEFINE s == Start(g, r)
<1>1. Inv(s) /\ Kept(g, s, r) /\ g \in StoreType  BY StartKeepsInv, StartKept DEF Inv
<1>2. Finish(g, r) = IF g.act.run = None THEN Close(s, r) ELSE Close(g, r)  BY DEF Finish
<1> HIDE DEF s
<1>3. Kept(s, Close(s, r), r) /\ Kept(g, Close(g, r), r)  BY <1>1, CloseKept
<1>4. Kept(g, Close(s, r), r)  BY <1>1, <1>3, KeptTrans
<1> QED BY <1>2, <1>3, <1>4

(* A parked run's message is taken back. *)
LEMMA ParkKept ==
    ASSUME NEW g \in StoreType, NEW r \in Runs
    PROVE  Others(g, Park(g, r), r) /\ (r \notin g.pending => Kept(g, Park(g, r), r))
<1>1. CASE Remembered(g, r)  BY <1>1, KeptSelf DEF Park, Kept
<1>2. CASE ~Remembered(g, r)
  <2> DEFINE d == [g.rec[r] EXCEPT !.bound = TRUE, !.parked = TRUE,
                                   !.deferred = FALSE, !.seeded = FALSE]
             h == [g EXCEPT !.rec[r] = d]
             k == IF g.rec[r].seeded THEN Log(h, "run_queued", r) ELSE h
             n == Park(g, r)
  <2>1. n = IF g.act.run = r THEN [k EXCEPT !.act = Idle] ELSE k
    BY <1>2 DEF Park
  <2>2. d \in RecordType /\ ~d.seeded /\ ~d.deferred  BY DEF StoreType, RecordType
  <2> HIDE DEF d
  <2>3. /\ h \in StoreType /\ h.log = g.log /\ h.act = g.act /\ h.ring = g.ring
        /\ h.fin = g.fin /\ h.pending = g.pending /\ h.rec[r] = d
        /\ \A q \in Runs \ {r} : h.rec[q] = g.rec[q]
    BY <2>2 DEF StoreType
  <2> HIDE DEF h
  <2>4. /\ k \in StoreType /\ k.act = g.act /\ k.ring = g.ring /\ k.fin = g.fin
        /\ k.pending = g.pending /\ k.rec = h.rec
        /\ g.rec[r].seeded => k.log = Append(g.log, [kind |-> "run_queued", run |-> r])
        /\ ~g.rec[r].seeded => k.log = g.log
    BY <2>3, LogType DEF Kinds
  <2> HIDE DEF k
  <2>5. Idle \in [run : Runs \cup {None}, state : States, start : Nat] /\ Idle.run = None
    BY DEF Idle, States
  <2>6. /\ n \in StoreType /\ n.log = k.log /\ n.ring = k.ring /\ n.fin = k.fin
        /\ n.pending = k.pending /\ n.rec = k.rec
        /\ n.act = k.act \/ n.act.run = None
    BY <2>1, <2>4, <2>5, ActType
  <2>7. ~n.rec[r].seeded /\ ~n.rec[r].deferred /\ \A q \in Runs \ {r} : n.rec[q] = g.rec[q]
    BY <2>2, <2>3, <2>4, <2>6
  <2>8. /\ n.act = g.act \/ n.act.run = None
        /\ n.pending = g.pending /\ n.ring = g.ring /\ n.fin = g.fin
    BY <2>4, <2>6
  <2>9. \A q \in Runs \ {r} : Net(n, q) = Net(g, q)
    BY <2>4, <2>6, AppendNet, SameNet DEF Kinds
  <2>10. One(g, r) => Net(n, r) \in 0..1 /\ (Free(g, r) => Net(n, r) = 0)
    <3>1. CASE g.rec[r].seeded
      <4>1. Net(n, r) = Net(g, r) - 1  BY <2>4, <2>6, <3>1, AppendNet DEF Kinds
      <4> QED BY <3>1, <4>1 DEF One
    <3>2. CASE ~g.rec[r].seeded
      <4>1. Net(n, r) = Net(g, r)  BY <2>4, <2>6, <3>2, SameNet
      <4> QED BY <3>2, <4>1 DEF One, Free
    <3> QED BY <3>1, <3>2
  <2> HIDE DEF n
  <2>11. r \notin g.pending => Keeps(g, n, r)
    BY <2>7, <2>8, <2>10 DEF Keeps, One, Free, Clear
  <2>12. ASSUME NEW q \in Runs \ {r} PROVE Keeps(g, n, q) /\ (New(g, q) => New(n, q))
    <3>0. Remembered(g, q) <=> Remembered(n, q)  BY <2>8 DEF Remembered
    <3>1. One(g, q) => One(n, q)  BY <2>7, <2>8, <2>9, NoneAssumption DEF One
    <3>2. Free(g, q) => Free(n, q)  BY <2>7, <2>9 DEF Free
    <3>3. Clear(g, q) => Clear(n, q)  BY <2>7, <3>0 DEF Clear
    <3>4. New(g, q) => New(n, q)  BY <2>7, <2>8, <2>9, NoneAssumption DEF New
    <3> QED BY <3>1, <3>2, <3>3, <3>4 DEF Keeps
  <2>13. Others(g, n, r)  BY <2>6, <2>8, <2>12, SameLonger DEF Others
  <2>14. r \notin g.pending => Kept(g, n, r)  BY <2>11, <2>13 DEF Kept
  <2> QED BY <2>13, <2>14 DEF n
<1> QED BY <1>1, <1>2

(* A command's message is shown at once. *)
LEMMA SeedNowKept ==
    ASSUME NEW g \in StoreType, NEW r \in Runs
    PROVE  /\ Others(g, SeedNow(g, r), r) /\ SeedNow(g, r).pending = g.pending
           /\ ~g.rec[r].deferred /\ r \notin g.pending /\ Net(g, r) = 0
              => Kept(g, SeedNow(g, r), r)
<1> DEFINE b == Bind(g, r)
           u == Queue(b, r)
           k == Seed(u, "user_message", r)
           d == [k.rec[r] EXCEPT !.seeded = TRUE]
           h == [k EXCEPT !.rec[r] = d]
<1>1. /\ Kept(g, b, r) /\ b \in StoreType /\ b.log = g.log /\ b.pending = g.pending
      /\ b.rec[r].deferred = g.rec[r].deferred
  <2>1. Kept(g, b, r) /\ b \in StoreType  BY BindKept DEF Kept, Others
  <2>2. b.log = g.log /\ b.pending = g.pending  BY DEF Bind, StoreType
  <2>3. b.rec[r].deferred = g.rec[r].deferred  BY DEF Bind, StoreType, RecordType
  <2> QED BY <2>1, <2>2, <2>3
<1> HIDE DEF b
<1>2. /\ Kept(b, u, r) /\ u \in StoreType /\ u.log = b.log /\ u.rec = b.rec
      /\ u.pending = b.pending
  BY <1>1, QueueKept DEF Kept, Others
<1> HIDE DEF u
<1>3. "user_message" \in Kinds  BY DEF Kinds
<1>4. /\ k \in StoreType /\ k.log = Append(u.log, [kind |-> "user_message", run |-> r])
      /\ k.act = u.act /\ k.ring = u.ring /\ k.fin = u.fin /\ k.pending = u.pending
      /\ \A q \in Runs : /\ k.rec[q].seeded = u.rec[q].seeded
                         /\ k.rec[q].deferred = u.rec[q].deferred
  BY <1>2, <1>3, SeedFacts
<1>5. SeedNow(g, r) = h  BY DEF SeedNow, b, u
<1> HIDE DEF k
<1>6. d \in RecordType /\ d.seeded /\ d.deferred = k.rec[r].deferred
  <2>1. k.rec[r] \in RecordType  BY <1>4 DEF StoreType
  <2> QED BY <2>1 DEF RecordType
<1> HIDE DEF d
<1>7. /\ h \in StoreType /\ h.log = k.log /\ h.act = k.act /\ h.ring = k.ring
      /\ h.fin = k.fin /\ h.pending = k.pending /\ h.rec[r] = d
      /\ \A q \in Runs \ {r} : h.rec[q] = k.rec[q]
  BY <1>4, <1>6 DEF StoreType
<1> HIDE DEF h
<1>8. Kept(g, u, r) /\ u.pending = g.pending  BY <1>1, <1>2, KeptTrans
<1>9. Net(u, r) = Net(g, r)  BY <1>1, <1>2, SameNet
<1>10. h.rec[r].seeded /\ (~g.rec[r].deferred => ~h.rec[r].deferred)
  BY <1>1, <1>2, <1>4, <1>6, <1>7
<1>11. \A q \in Runs \ {r} : /\ h.rec[q].seeded = u.rec[q].seeded
                             /\ h.rec[q].deferred = u.rec[q].deferred
  BY <1>4, <1>7
<1>12. /\ Others(u, h, r)
       /\ ~g.rec[r].deferred /\ r \notin u.pending /\ Net(u, r) = 0 => Kept(u, h, r)
  BY <1>2, <1>4, <1>7, <1>10, <1>11, ShownKept
<1>13. /\ Others(g, h, r)
       /\ ~g.rec[r].deferred /\ r \notin g.pending /\ Net(g, r) = 0 => Kept(g, h, r)
  BY <1>8, <1>9, <1>12, KeptTrans, OthersTrans DEF Kept
<1> QED BY <1>1, <1>2, <1>4, <1>5, <1>7, <1>13

(* A draft is no longer pending. *)
LEMMA UnpendKept ==
    ASSUME NEW g \in StoreType, NEW r \in Runs, NEW q \in Runs
    PROVE  LET h == [g EXCEPT !.pending = @ \ {q}]
           IN  /\ Kept(g, h, r) /\ h \in StoreType /\ h.log = g.log /\ h.rec = g.rec
               /\ h.act = g.act /\ h.pending = g.pending \ {q} /\ h.fin = g.fin
<1> DEFINE h == [g EXCEPT !.pending = @ \ {q}]
<1>1. /\ h \in StoreType /\ h.log = g.log /\ h.act = g.act /\ h.ring = g.ring
      /\ h.fin = g.fin /\ h.rec = g.rec /\ h.pending = g.pending \ {q}
  BY DEF StoreType
<1> HIDE DEF h
<1>2. Longer(g, h) /\ Activity(g, h, r)
  BY <1>1, SameLonger DEF Activity
<1>3. \A p \in Runs : SameRun(g, h, p)  BY <1>1, SameNet DEF SameRun, Remembered
<1>4. Kept(g, h, r)  BY <1>1, <1>2, <1>3, SteadyKept
<1> QED BY <1>1, <1>4 DEF h

LEMMA ResolveKept ==
    ASSUME NEW g, Inv(g), NEW r \in Runs
    PROVE  /\ Others(g, Resolve(g, r), r) /\ Inv(Resolve(g, r)) /\ r \notin Resolve(g, r).pending
           /\ One(g, r) => Kept(g, Resolve(g, r), r)
<1>0. g \in StoreType /\ Inv(Resolve(g, r))  BY ResolveKeepsInv DEF Inv
<1>1. CASE r \notin g.pending
  <2>1. Resolve(g, r) = Bind(g, r) /\ Bind(g, r).pending = g.pending
    BY <1>0, <1>1 DEF Resolve, Bind, StoreType
  <2> QED BY <1>0, <1>1, <2>1, BindKept DEF Kept
<1>2. CASE r \in g.pending
  <2> DEFINE p == [g EXCEPT !.pending = @ \ {r}]
  <2>1. /\ Kept(g, p, r) /\ p \in StoreType /\ p.log = g.log /\ p.rec = g.rec
        /\ p.pending = g.pending \ {r}
    BY <1>0, UnpendKept
  <2>2. Resolve(g, r) = SeedNow(p, r)  BY <1>2 DEF Resolve
  <2> HIDE DEF p
  <2>3. One(g, r) => Net(g, r) = 0 /\ ~g.rec[r].deferred  BY <1>2 DEF One
  <2>4. One(g, r) => Net(p, r) = 0 /\ ~p.rec[r].deferred  BY <2>1, <2>3, SameNet
  <2>5. /\ Others(p, SeedNow(p, r), r) /\ r \notin SeedNow(p, r).pending
        /\ One(g, r) => Kept(p, SeedNow(p, r), r)
    BY <2>1, <2>4, SeedNowKept
  <2>6. Others(g, SeedNow(p, r), r)  BY <2>1, <2>5, OthersTrans DEF Kept
  <2>7. One(g, r) => Kept(g, SeedNow(p, r), r)  BY <2>1, <2>5, KeptTrans
  <2> QED BY <1>0, <2>2, <2>5, <2>6, <2>7
<1> QED BY <1>1, <1>2

(* A step that is about run r, which it leaves shown as it should be. *)
Spared(g, h, r) == Others(g, h, r) /\ (PushedOut(h, r) \/ One(h, r))

(* A command is accepted: what is deferred is of a run that is new. *)
LEMMA AcceptKept ==
    ASSUME NEW g, Inv(g), NEW r \in Runs, NEW draft \in BOOLEAN, New(g, r)
    PROVE  LET h == Accept(g, r, draft)
           IN  Spared(g, h, r) /\ (PushedOut(h, r) \/ Free(h, r))
<1>0. g \in StoreType  BY DEF Inv
<1>1. CASE draft
  <2> DEFINE h == [g EXCEPT !.pending = @ \cup {r}]
  <2>1. /\ h.log = g.log /\ h.rec = g.rec /\ h.act = g.act /\ h.ring = g.ring /\ h.fin = g.fin
        /\ h.pending = g.pending \cup {r} /\ h \in StoreType
    BY <1>0 DEF StoreType
  <2>2. Accept(g, r, draft) = h  BY <1>1 DEF Accept
  <2> HIDE DEF h
  <2>3. \A q \in Runs : Net(h, q) = Net(g, q)  BY <2>1, SameNet
  <2>4. One(h, r) /\ Free(h, r)  BY <2>1, <2>3 DEF One, Free, New
  <2>5. ASSUME NEW q \in Runs \ {r} PROVE Keeps(g, h, q) /\ (New(g, q) => New(h, q))
    <3>0. Remembered(g, q) <=> Remembered(h, q)  BY <2>1 DEF Remembered
    <3>1. One(g, q) => One(h, q)  BY <2>1, <2>3 DEF One
    <3>2. Free(g, q) => Free(h, q)  BY <2>1, <2>3 DEF Free
    <3>3. Clear(g, q) => Clear(h, q)  BY <2>1, <3>0 DEF Clear
    <3>4. New(g, q) => New(h, q)  BY <2>1, <2>3 DEF New
    <3> QED BY <3>1, <3>2, <3>3, <3>4 DEF Keeps
  <2>6. Others(g, h, r)  BY <2>1, <2>5, SameLonger DEF Others
  <2> QED BY <2>2, <2>4, <2>6 DEF Spared
<1>2. CASE ~draft /\ g.act.run = None
  <2>1. Accept(g, r, draft) = SeedNow(g, r)  BY <1>2 DEF Accept
  <2>2. Kept(g, SeedNow(g, r), r)  BY <1>0, SeedNowKept DEF New
  <2>3. One(g, r) /\ Free(g, r)  BY DEF New, One, Free
  <2> QED BY <2>1, <2>2, <2>3 DEF Kept, Keeps, Spared
<1>3. CASE ~draft /\ g.act.run # None
  <2> DEFINE b == Bind(g, r)
             d == [b.rec[r] EXCEPT !.deferred = TRUE]
             h == [b EXCEPT !.rec[r] = d]
  <2>1. Accept(g, r, draft) = h  BY <1>3 DEF Accept, SeedLater
  <2>2. /\ b \in StoreType /\ b.log = g.log /\ b.act = g.act /\ b.ring = g.ring
        /\ b.fin = g.fin /\ b.pending = g.pending
        /\ \A q \in Runs \ {r} : b.rec[q] = g.rec[q]
    <3>1. b \in StoreType  BY <1>0, BindKept DEF Kept, Others
    <3> QED BY <1>0, <3>1 DEF Bind, StoreType
  <2>3. b.rec[r].seeded = g.rec[r].seeded  BY <1>0 DEF Bind, StoreType, RecordType
  <2> HIDE DEF b
  <2>4. b.rec[r] \in RecordType  BY <2>2 DEF StoreType
  <2>5. d \in RecordType /\ d.seeded = g.rec[r].seeded /\ d.deferred
    BY <2>3, <2>4 DEF RecordType
  <2> HIDE DEF d
  <2>6. /\ h \in StoreType /\ h.log = b.log /\ h.act = b.act /\ h.ring = b.ring
        /\ h.fin = b.fin /\ h.pending = b.pending /\ h.rec[r] = d
        /\ \A q \in Runs \ {r} : h.rec[q] = b.rec[q]
    BY <2>2, <2>5 DEF StoreType
  <2> HIDE DEF h
  <2>7. \A q \in Runs : Net(h, q) = Net(g, q)  BY <2>2, <2>6, SameNet
  <2>8. One(h, r) /\ Free(h, r)  BY <2>2, <2>5, <2>6, <2>7 DEF One, Free, New
  <2>9. ASSUME NEW q \in Runs \ {r} PROVE Keeps(g, h, q) /\ (New(g, q) => New(h, q))
    <3>0. Remembered(g, q) <=> Remembered(h, q)  BY <2>2, <2>6 DEF Remembered
    <3>1. One(g, q) => One(h, q)  BY <2>2, <2>6, <2>7 DEF One
    <3>2. Free(g, q) => Free(h, q)  BY <2>2, <2>6, <2>7 DEF Free
    <3>3. Clear(g, q) => Clear(h, q)  BY <2>2, <2>6, <3>0 DEF Clear
    <3>4. New(g, q) => New(h, q)  BY <2>2, <2>6, <2>7 DEF New
    <3> QED BY <3>1, <3>2, <3>3, <3>4 DEF Keeps
  <2>10. Others(g, h, r)  BY <2>2, <2>6, <2>9, SameLonger DEF Others
  <2> QED BY <2>1, <2>8, <2>10 DEF Spared
<1> QED BY <1>1, <1>2, <1>3

LEMMA FailCommandKept ==
    ASSUME NEW g, Inv(g), NEW r \in Runs
    PROVE  Kept(g, FailCommand(g, r), r)
<1> DEFINE k == Flush(g, r)
<1>0. g \in StoreType  BY DEF Inv
<1>1. Kept(g, [g EXCEPT !.pending = @ \ {r}], r)  BY <1>0, UnpendKept
<1>2. Kept(g, k, r)  BY <1>0, FlushKept
<1>3. Inv(k)  BY <1>0, FlushQuiet, QuietKeepsInv
<1>4. FailCommand(g, r) \in {[g EXCEPT !.pending = @ \ {r}], Finish(k, r), g}
  BY DEF FailCommand
<1> HIDE DEF k
<1>5. Kept(k, Finish(k, r), r)  BY <1>3, FinishKept
<1>6. Kept(g, Finish(k, r), r)  BY <1>0, <1>2, <1>5, KeptTrans
<1>7. Kept(g, g, r)  BY <1>0, KeptSelf
<1> QED BY <1>1, <1>4, <1>6, <1>7

LEMMA RebaseKept ==
    ASSUME NEW g \in StoreType, NEW r \in Runs
    PROVE  Kept(g, Rebase(g, r), r)
<1> DEFINE d == [g.rec[r] EXCEPT !.rebased = TRUE]
           k == [g EXCEPT !.rec[r] = d]
<1>1. d \in RecordType /\ d.seeded = g.rec[r].seeded /\ d.deferred = g.rec[r].deferred
  BY DEF StoreType, RecordType
<1>2. Rebase(g, r) = IF g.rec[r].rebased THEN g ELSE Seed(k, "rebased", r)  BY DEF Rebase
<1> HIDE DEF d
<1>3. Kept(g, k, r)  BY <1>1, RecordKept
<1> HIDE DEF k
<1>4. Kept(k, Seed(k, "rebased", r), r)  BY <1>3, SeedPlainKept DEF Kept, Others
<1>5. Kept(g, Seed(k, "rebased", r), r)  BY <1>3, <1>4, KeptTrans
<1> QED BY <1>2, <1>5, KeptSelf

-----------------------------------------------------------------------------
(* A message of the desktop, of a run whose message is shown as it should:  *)
(* "started" leaves nothing deferred, and the echo, coming after it, is     *)
(* swallowed or the first that is shown.                                   *)
LEMMA ControlKept ==
    ASSUME NEW g, Inv(g), NEW r \in Runs, NEW type \in Controls
    PROVE  LET h == Control(g, r, type)
           IN  /\ Others(g, h, r)
               /\ One(g, r) => /\ Kept(g, h, r)
                               /\ type = "started" => PushedOut(h, r) \/ Clear(h, r)
<1> DEFINE k == Resolve(g, r)
           h == Control(g, r, type)
<1>1. /\ Others(g, k, r) /\ Inv(k) /\ r \notin k.pending /\ k \in StoreType /\ g \in StoreType
      /\ One(g, r) => Kept(g, k, r)
  BY ResolveKept DEF Inv
<1>2. h = CASE type = "started" -> Start(k, r)
            [] type = "terminal" -> Finish(k, r)
            [] type = "queued_in_gui" -> Park(k, r)
            [] type = "pending" -> Queue(k, r)
  BY DEF Control
<1> HIDE DEF k, h
<1>3. Kept(k, h, r)
  <2>1. CASE type = "started"  BY <1>1, <1>2, <2>1, StartKept
  <2>2. CASE type = "terminal"  BY <1>1, <1>2, <2>2, FinishKept
  <2>3. CASE type = "queued_in_gui"  BY <1>1, <1>2, <2>3, ParkKept
  <2>4. CASE type = "pending"  BY <1>1, <1>2, <2>4, QueueKept
  <2> QED BY <2>1, <2>2, <2>3, <2>4 DEF Controls
<1>4. Others(g, h, r)  BY <1>1, <1>3, OthersTrans DEF Kept
<1>5. One(g, r) => Kept(g, h, r)  BY <1>1, <1>3, KeptTrans
<1>6. ASSUME One(g, r), type = "started" PROVE PushedOut(h, r) \/ Clear(h, r)
  <2>1. h = Start(k, r)  BY <1>2, <1>6
  <2>2. CASE PushedOut(k, r)  BY <1>3, <2>2 DEF Kept, Others, Longer
  <2>3. CASE One(k, r)  BY <1>1, <2>1, <2>3, StartKept
  <2> QED BY <1>1, <1>6, <2>2, <2>3 DEF Kept, Keeps
<1> QED BY <1>4, <1>5, <1>6 DEF h

(* A run that is not shown yet, by no mark either, is started without it. *)
Unshown(g, r) ==
    /\ Net(g, r) = 0 /\ ~g.rec[r].seeded /\ ~g.rec[r].deferred /\ r \notin g.pending

LEMMA LogStartUnshown ==
    ASSUME NEW g \in StoreType, NEW r \in Runs, Unshown(g, r)
    PROVE  Unshown(LogStart(g, r), r)
<1> DEFINE b == Bind(g, r)
           h == Log(b, "run_started", r)
<1>1. b \in StoreType  BY BindKept DEF Kept, Others
<1>2. b.log = g.log /\ b.pending = g.pending  BY DEF Bind, StoreType
<1>3. b.rec[r].seeded = g.rec[r].seeded /\ b.rec[r].deferred = g.rec[r].deferred
  BY DEF Bind, StoreType, RecordType
<1> HIDE DEF b
<1>4. Flush(b, r) = b  BY <1>3 DEF Flush, Unshown
<1>5. LogStart(g, r) = h  BY <1>4 DEF LogStart, b
<1>6. /\ h.log = Append(b.log, [kind |-> "run_started", run |-> r])
      /\ h.rec = b.rec /\ h.pending = b.pending
  BY <1>1, LogType DEF Kinds
<1> HIDE DEF h
<1>7. Net(h, r) = Net(b, r) /\ Net(b, r) = Net(g, r)
  BY <1>1, <1>2, <1>6, AppendNet, SameNet DEF Kinds
<1> QED BY <1>2, <1>3, <1>5, <1>6, <1>7 DEF Unshown

LEMMA StartUnshown ==
    ASSUME NEW g, Inv(g), NEW r \in Runs, Unshown(g, r)
    PROVE  Unshown(Start(g, r), r)
<1>0. g \in StoreType  BY DEF Inv
<1>1. CASE Remembered(g, r) \/ (g.act.run = r /\ g.act.state # "queued")  BY <1>1 DEF Start
<1>2. CASE ~Remembered(g, r) /\ g.act.run # r
  <2> DEFINE u == Supersede(g)
             k == LogStart(u, r)
             a == [run |-> r, state |-> "running",
                   start |-> IF k.rec[r].first \in 1..Len(k.log)
                             THEN k.rec[r].first ELSE Len(k.log)]
             h == [k EXCEPT !.act = a]
  <2>1. Inv(u) /\ Kept(g, u, None)  BY <1>2, SupersedeKeepsInv, SupersedeKept
  <2>2. Start(g, r) = h  BY <1>2 DEF Start, Activate
  <2> HIDE DEF u
  <2>3. k \in StoreType  BY <2>1, LogStartKept DEF Inv
  <2>4. Unshown(u, r) => Unshown(k, r)  BY <2>1, LogStartUnshown DEF Inv
  <2> HIDE DEF k, a
  <2>5. h.log = k.log /\ h.rec = k.rec /\ h.pending = k.pending
    BY <2>3 DEF StoreType
  <2> HIDE DEF h
  <2>6. New(g, r) /\ None # r  BY <1>2, NoneAssumption DEF New, Unshown
  <2>7. New(u, r)  BY <2>1, <2>6 DEF Kept, Others
  <2>8. Unshown(k, r)  BY <2>4, <2>7 DEF New, Unshown
  <2> QED BY <2>2, <2>5, <2>8, SameNet DEF Unshown
<1>3. CASE ~Remembered(g, r) /\ g.act.run = r /\ g.act.state = "queued"
  <2> DEFINE k == LogStart(g, r)
             a == [k.act EXCEPT !.state = "running"]
             h == [k EXCEPT !.act = a]
  <2>1. Start(g, r) = h  BY <1>3 DEF Start
  <2>2. Unshown(k, r) /\ k \in StoreType  BY <1>0, LogStartUnshown, LogStartKept
  <2> HIDE DEF k, a
  <2>3. h.log = k.log /\ h.rec = k.rec /\ h.pending = k.pending  BY <2>2 DEF StoreType
  <2> HIDE DEF h
  <2> QED BY <2>1, <2>2, <2>3, SameNet DEF Unshown
<1> QED BY <1>1, <1>2, <1>3

(* The first that is shown is the echo. *)
LEMMA EchoSpared ==
    ASSUME NEW g \in StoreType, NEW r \in Runs
    PROVE  LET h == Stream(g, r, "user_message")
           IN  Others(g, h, r) /\ (Unshown(g, r) => One(h, r))
<1>1. CASE g.act.run # r
  <2>1. Stream(g, r, "user_message") = g  BY <1>1 DEF Stream
  <2> QED BY <1>1, <2>1, KeptSelf DEF Kept, Unshown, One
<1>2. CASE g.act.run = r
  <2> DEFINE h == Log(g, "user_message", r)
  <2>1. Stream(g, r, "user_message") = h  BY <1>2 DEF Stream
  <2>2. /\ h \in StoreType /\ h.log = Append(g.log, [kind |-> "user_message", run |-> r])
        /\ h.act = g.act /\ h.ring = g.ring /\ h.fin = g.fin /\ h.rec = g.rec
        /\ h.pending = g.pending
    BY LogType DEF Kinds
  <2> HIDE DEF h
  <2>3. Net(h, r) = Net(g, r) + 1 /\ \A q \in Runs \ {r} : Net(h, q) = Net(g, q)
    BY <2>2, AppendNet DEF Kinds
  <2>4. Unshown(g, r) => One(h, r)  BY <2>2, <2>3 DEF Unshown, One
  <2>5. ASSUME NEW q \in Runs \ {r} PROVE Keeps(g, h, q) /\ (New(g, q) => New(h, q))
    <3>0. Remembered(g, q) <=> Remembered(h, q)  BY <2>2 DEF Remembered
    <3>1. One(g, q) => One(h, q)  BY <2>2, <2>3 DEF One
    <3>2. Free(g, q) => Free(h, q)  BY <2>2, <2>3 DEF Free
    <3>3. Clear(g, q) => Clear(h, q)  BY <2>2, <3>0 DEF Clear
    <3>4. New(g, q) => New(h, q)  BY <2>2, <2>3 DEF New
    <3> QED BY <3>1, <3>2, <3>3, <3>4 DEF Keeps
  <2>6. Others(g, h, r)  BY <2>2, <2>5, SameLonger DEF Others
  <2> QED BY <2>1, <2>4, <2>6
<1> QED BY <1>1, <1>2
LEMMA RebaseUnshown ==
    ASSUME NEW g \in StoreType, NEW r \in Runs, Unshown(g, r)
    PROVE  Unshown(Rebase(g, r), r)
<1> DEFINE d == [g.rec[r] EXCEPT !.rebased = TRUE]
           k == [g EXCEPT !.rec[r] = d]
           h == Seed(k, "rebased", r)
<1>1. d \in RecordType /\ d.seeded = g.rec[r].seeded /\ d.deferred = g.rec[r].deferred
  BY DEF StoreType, RecordType
<1>2. Rebase(g, r) = IF g.rec[r].rebased THEN g ELSE h  BY DEF Rebase
<1> HIDE DEF d
<1>3. k \in StoreType /\ k.log = g.log /\ k.pending = g.pending /\ k.rec[r] = d
  BY <1>1 DEF StoreType
<1> HIDE DEF k
<1>4. "rebased" \in Kinds  BY DEF Kinds
<1>5. /\ h.log = Append(k.log, [kind |-> "rebased", run |-> r]) /\ h.pending = k.pending
      /\ h.rec[r].seeded = k.rec[r].seeded /\ h.rec[r].deferred = k.rec[r].deferred
  BY <1>3, <1>4, SeedFacts
<1> HIDE DEF h
<1>6. Net(h, r) = Net(k, r) /\ Net(k, r) = Net(g, r)  BY <1>3, <1>4, <1>5, AppendNet, SameNet
<1>7. Unshown(h, r)  BY <1>1, <1>3, <1>5, <1>6 DEF Unshown
<1> QED BY <1>2, <1>7

LEMMA KeptSpared ==
    ASSUME NEW g, NEW h, NEW r \in Runs, Kept(g, h, r), One(g, r)
    PROVE  Spared(g, h, r)
BY DEF Kept, Others, Spared, Keeps

LEMMA ChatEventSpared ==
    ASSUME NEW g, Inv(g), NEW r \in Runs, NEW type \in AgentEvents
    PROVE  LET h == ChatEvent(g, r, type)
           IN  /\ Others(g, h, r)
               /\ type \notin EchoTypes /\ One(g, r) => Kept(g, h, r)
               /\ type \in EchoTypes /\ One(g, r) /\ Free(g, r) /\ Clear(g, r)
                     => PushedOut(h, r) \/ One(h, r)
<1> DEFINE k == Resolve(g, r)
           e == IF type = "edit" THEN Rebase(k, r) ELSE k
           s == Start(e, r)
           kind == IF type \in EchoTypes THEN "user_message" ELSE "token"
           t == Stream(s, r, kind)
           h == ChatEvent(g, r, type)
<1>1. /\ Others(g, k, r) /\ Inv(k) /\ r \notin k.pending /\ k \in StoreType
      /\ One(g, r) => Kept(g, k, r)
  BY ResolveKept DEF Inv
<1>2. h = IF type = "done" THEN Finish(k, r)
          ELSE IF (type \in EchoTypes /\ k.rec[r].seeded) \/ Remembered(k, r) THEN k
          ELSE t
  BY DEF ChatEvent, EchoTypes
<1>3. (type \in EchoTypes => kind = "user_message") /\ (type \notin EchoTypes => kind = "token")
  OBVIOUS
<1> HIDE DEF k, h
<1>4. /\ Inv(e) /\ Kept(k, e, r) /\ (Unshown(k, r) => Unshown(e, r))
  <2>1. Inv(Rebase(k, r)) /\ Kept(k, Rebase(k, r), r)
    BY <1>1, RebaseKeepsInv, RebaseKept
  <2>2. Unshown(k, r) => Unshown(Rebase(k, r), r)  BY <1>1, RebaseUnshown
  <2>3. Kept(k, k, r)  BY <1>1, KeptSelf
  <2> QED BY <1>1, <2>1, <2>2, <2>3
<1> HIDE DEF e
<1>5. /\ Inv(s) /\ s \in StoreType /\ Kept(e, s, r) /\ (Unshown(e, r) => Unshown(s, r))
  BY <1>4, StartKeepsInv, StartKept, StartUnshown DEF Inv
<1>6. Kept(k, s, r) /\ (Unshown(k, r) => Unshown(s, r))  BY <1>4, <1>5, KeptTrans
<1> HIDE DEF s, kind
<1>7. CASE type \notin EchoTypes
  <2>1. Kept(s, Log(s, "token", r), r)  BY <1>5, LogKept DEF Kinds
  <2>2. Kept(s, t, r)  BY <1>3, <1>5, <1>7, <2>1, KeptSelf DEF Stream
  <2> HIDE DEF t
  <2>3. Kept(k, t, r)  BY <1>6, <2>2, KeptTrans
  <2>4. Kept(k, Finish(k, r), r) /\ Kept(k, k, r)  BY <1>1, FinishKept, KeptSelf
  <2>5. Kept(k, h, r)  BY <1>2, <2>3, <2>4
  <2>6. Others(g, h, r)  BY <1>1, <2>5, OthersTrans DEF Kept
  <2>7. One(g, r) => Kept(g, h, r)  BY <1>1, <2>5, KeptTrans
  <2> QED BY <1>7, <2>6, <2>7 DEF h
<1>8. CASE type \in EchoTypes /\ (k.rec[r].seeded \/ Remembered(k, r))
  <2>1. h = k  BY <1>2, <1>8 DEF EchoTypes
  <2>2. One(g, r) => PushedOut(k, r) \/ One(k, r)  BY <1>1 DEF Kept, Keeps
  <2> QED BY <1>1, <1>8, <2>1, <2>2 DEF h
<1>9. CASE type \in EchoTypes /\ ~k.rec[r].seeded /\ ~Remembered(k, r)
  <2>1. h = t  BY <1>2, <1>9 DEF EchoTypes
  <2>2. Others(s, h, r) /\ (Unshown(s, r) => One(h, r))  BY <1>3, <1>5, <1>9, <2>1, EchoSpared
  <2>3. Others(k, h, r)  BY <1>6, <2>2, OthersTrans DEF Kept
  <2>4. Others(g, h, r)  BY <1>1, <2>3, OthersTrans
  <2>5. ASSUME One(g, r), Free(g, r), Clear(g, r) PROVE PushedOut(h, r) \/ One(h, r)
    <3>1. CASE PushedOut(k, r)  BY <2>3, <3>1 DEF Others, Longer
    <3>2. CASE Keeps(g, k, r)
      <4>1. One(k, r) /\ Free(k, r) /\ Clear(k, r)  BY <2>5, <3>2 DEF Keeps
      <4>2. Unshown(k, r)  BY <1>1, <1>9, <4>1 DEF Free, Clear, Unshown
      <4> QED BY <1>6, <2>2, <4>2
    <3> QED BY <1>1, <2>5, <3>1, <3>2 DEF Kept
  <2> QED BY <1>9, <2>4, <2>5 DEF h
<1> QED BY <1>7, <1>8, <1>9

LEMMA HandleSpared ==
    ASSUME NEW m \in Message, Inv(gw)
    PROVE  LET h == Handle(m)
           IN  /\ Others(gw, h, m.run)
               /\ m.type \notin EchoTypes /\ One(gw, m.run) =>
                    /\ Kept(gw, h, m.run)
                    /\ m.type = "started" /\ m.named => PushedOut(h, m.run) \/ Clear(h, m.run)
               /\ m.type \in EchoTypes /\ One(gw, m.run) /\ Free(gw, m.run) /\ Clear(gw, m.run)
                     => PushedOut(h, m.run) \/ One(h, m.run)
<1> DEFINE r == m.run
<1>0. r \in Runs /\ m.type \in AgentEvents \cup Controls  BY DEF Message
<1>1. CASE ~m.named /\ ~gw.rec[r].bound
  <2>1. Handle(m) = gw  BY <1>1 DEF Handle
  <2>2. Kept(gw, gw, r)  BY KeptSelf DEF Inv
  <2> QED BY <1>1, <2>1, <2>2 DEF Kept
<1>2. CASE ~(~m.named /\ ~gw.rec[r].bound) /\ m.type \in AgentEvents
  <2>1. Handle(m) = ChatEvent(gw, r, m.type)  BY <1>2 DEF Handle
  <2>2. m.type # "started"  BY <1>2 DEF AgentEvents
  <2> QED BY <1>0, <1>2, <2>1, <2>2, ChatEventSpared
<1>3. CASE ~(~m.named /\ ~gw.rec[r].bound) /\ m.type \in Controls
  <2>1. m.type \notin AgentEvents /\ m.type \notin EchoTypes
    BY <1>3 DEF AgentEvents, Controls, EchoTypes
  <2>2. Handle(m) = Control(gw, r, m.type)  BY <1>3, <2>1 DEF Handle
  <2> QED BY <1>0, <1>3, <2>1, <2>2, ControlKept
<1>4. \/ ~m.named /\ ~gw.rec[r].bound
      \/ ~(~m.named /\ ~gw.rec[r].bound) /\ m.type \in AgentEvents
      \/ ~(~m.named /\ ~gw.rec[r].bound) /\ m.type \in Controls
  BY <1>0
<1> QED BY <1>1, <1>2, <1>3, <1>4

-----------------------------------------------------------------------------
LEMMA AppendEcho ==
    ASSUME NEW s \in Seq(Message), NEW m \in Message, NEW r
    PROVE  /\ NoEcho(Append(s, m), r) <=> NoEcho(s, r) /\ ~Echo(m, r)
           /\ OneEcho(s, r) /\ (NoEcho(s, r) \/ ~Echo(m, r)) => OneEcho(Append(s, m), r)
           /\ HasStart(Append(s, m), r) <=> HasStart(s, r) \/ StartOf(m, r)
           /\ Led(s, r) /\ (Echo(m, r) => HasStart(s, r)) => Led(Append(s, m), r)
           /\ NotOf(s, r) /\ m.run # r => NotOf(Append(s, m), r)
<1> DEFINE n == Len(s)
           a == Append(s, m)
<1>1. Len(a) = n + 1 /\ n \in Nat /\ a[n + 1] = m /\ \A k \in 1..n : a[k] = s[k]
  BY AppendFacts
<1> HIDE DEF a
<1>2. 1..n + 1 = 1..n \cup {n + 1} /\ n + 1 \notin 1..n /\ \A k \in 1..n : 1..k - 1 \subseteq 1..n
  BY <1>1
<1>3. NoEcho(a, r) <=> NoEcho(s, r) /\ ~Echo(m, r)  BY <1>1, <1>2 DEF NoEcho
<1>4. OneEcho(s, r) /\ (NoEcho(s, r) \/ ~Echo(m, r)) => OneEcho(a, r)
  <2> SUFFICES ASSUME OneEcho(s, r), NoEcho(s, r) \/ ~Echo(m, r), NEW j \in 1..n + 1,
                      NEW k \in 1..n + 1, Echo(a[j], r), Echo(a[k], r)
               PROVE  j = k
    BY <1>1 DEF OneEcho
  <2>1. CASE j \in 1..n /\ k \in 1..n  BY <1>1, <2>1 DEF OneEcho
  <2>2. CASE j = n + 1 \/ k = n + 1
    <3>1. Echo(m, r)  BY <1>1, <2>2
    <3>2. j \notin 1..n /\ k \notin 1..n  BY <1>1, <3>1 DEF NoEcho
    <3> QED BY <1>2, <3>2
  <2> QED BY <1>2, <2>1, <2>2
<1>5. HasStart(a, r) <=> HasStart(s, r) \/ StartOf(m, r)  BY <1>1, <1>2 DEF HasStart
<1>6. Led(s, r) /\ (Echo(m, r) => HasStart(s, r)) => Led(a, r)
  <2> SUFFICES ASSUME Led(s, r), Echo(m, r) => HasStart(s, r), NEW k \in 1..n + 1, Echo(a[k], r)
               PROVE  \E j \in 1..k - 1 : StartOf(a[j], r)
    BY <1>1 DEF Led
  <2>1. CASE k \in 1..n
    <3>1. PICK j \in 1..k - 1 : StartOf(s[j], r)  BY <1>1, <2>1 DEF Led
    <3> QED BY <1>1, <1>2, <2>1, <3>1
  <2>2. CASE k = n + 1
    <3>1. PICK j \in 1..n : StartOf(s[j], r)  BY <1>1, <2>2 DEF HasStart
    <3>2. j \in 1..k - 1  BY <1>1, <2>2
    <3> QED BY <1>1, <3>1, <3>2
  <2> QED BY <1>2, <2>1, <2>2
<1>7. NotOf(s, r) /\ m.run # r => NotOf(a, r)  BY <1>1, <1>2 DEF NotOf
<1> QED BY <1>3, <1>4, <1>5, <1>6, <1>7 DEF a

LEMMA TailEcho ==
    ASSUME NEW s \in Seq(Message), s # <<>>, NEW r
    PROVE  /\ NoEcho(s, r) <=> NoEcho(Tail(s), r) /\ ~Echo(Head(s), r)
           /\ OneEcho(s, r) => OneEcho(Tail(s), r) /\ (Echo(Head(s), r) => NoEcho(Tail(s), r))
           /\ HasStart(s, r) <=> StartOf(Head(s), r) \/ HasStart(Tail(s), r)
           /\ Led(s, r) => ~Echo(Head(s), r) /\ (StartOf(Head(s), r) \/ Led(Tail(s), r))
           /\ NotOf(s, r) => NotOf(Tail(s), r) /\ Head(s).run # r
<1> DEFINE n == Len(s)
           t == Tail(s)
<1>1. /\ n \in Nat \ {0} /\ Head(s) = s[1] /\ Len(t) = n - 1
      /\ \A k \in 1..n - 1 : t[k] = s[k + 1]
  BY TailFacts
<1> HIDE DEF t
<1>2. /\ 1 \in 1..n /\ \A k \in 1..n - 1 : k + 1 \in 1..n /\ k + 1 # 1
      /\ \A k \in 1..n : k = 1 \/ (k - 1 \in 1..n - 1 /\ k - 1 + 1 = k)
  BY <1>1
<1>3. \A k \in 1..n : k = 1 \/ (k - 1 \in 1..n - 1 /\ s[k] = t[k - 1])
  BY <1>1, <1>2
<1>4. NoEcho(s, r) <=> NoEcho(t, r) /\ ~Echo(Head(s), r)
  <2>1. NoEcho(s, r) => NoEcho(t, r) /\ ~Echo(Head(s), r)  BY <1>1, <1>2 DEF NoEcho
  <2>2. NoEcho(t, r) /\ ~Echo(Head(s), r) => NoEcho(s, r)  BY <1>1, <1>3 DEF NoEcho
  <2> QED BY <2>1, <2>2
<1>5. OneEcho(s, r) => OneEcho(t, r) /\ (Echo(Head(s), r) => NoEcho(t, r))
  <2> SUFFICES ASSUME OneEcho(s, r)
               PROVE  OneEcho(t, r) /\ (Echo(Head(s), r) => NoEcho(t, r))
    OBVIOUS
  <2>1. ASSUME NEW j \in 1..n - 1, NEW k \in 1..n - 1, Echo(t[j], r), Echo(t[k], r)
        PROVE  j = k
    <3>1. Echo(s[j + 1], r) /\ Echo(s[k + 1], r)  BY <1>1, <2>1
    <3>2. j + 1 = k + 1  BY <1>2, <3>1 DEF OneEcho
    <3> QED BY <1>1, <3>2
  <2>2. ASSUME Echo(Head(s), r), NEW k \in 1..n - 1, Echo(t[k], r) PROVE FALSE
    BY <1>1, <1>2, <2>2 DEF OneEcho
  <2> QED BY <1>1, <2>1, <2>2 DEF OneEcho, NoEcho
<1>6. HasStart(s, r) <=> StartOf(Head(s), r) \/ HasStart(t, r)
  <2>1. HasStart(s, r) => StartOf(Head(s), r) \/ HasStart(t, r)  BY <1>1, <1>3 DEF HasStart
  <2>2. StartOf(Head(s), r) \/ HasStart(t, r) => HasStart(s, r)  BY <1>1, <1>2 DEF HasStart
  <2> QED BY <2>1, <2>2
<1>7. Led(s, r) => ~Echo(Head(s), r) /\ (StartOf(Head(s), r) \/ Led(t, r))
  <2> SUFFICES ASSUME Led(s, r) PROVE ~Echo(Head(s), r) /\ (StartOf(Head(s), r) \/ Led(t, r))
    OBVIOUS
  <2>1. ~Echo(Head(s), r)  BY <1>1, <1>2 DEF Led
  <2>2. ASSUME ~StartOf(Head(s), r), NEW k \in 1..n - 1, Echo(t[k], r)
        PROVE  \E j \in 1..k - 1 : StartOf(t[j], r)
    <3>1. PICK i \in 1..k + 1 - 1 : StartOf(s[i], r)  BY <1>1, <1>2, <2>2 DEF Led
    <3>2. i # 1 /\ i \in 1..n  BY <1>1, <2>2, <3>1
    <3>3. i - 1 \in 1..k - 1 /\ s[i] = t[i - 1]  BY <1>3, <3>1, <3>2
    <3> QED BY <3>1, <3>3
  <2> QED BY <1>1, <2>1, <2>2 DEF Led
<1>8. NotOf(s, r) => NotOf(t, r) /\ Head(s).run # r  BY <1>1, <1>2 DEF NotOf
<1> QED BY <1>4, <1>5, <1>6, <1>7, <1>8 DEF t

-----------------------------------------------------------------------------
(* The desktop's steps, which leave the store and the chain alone. *)
PlainPush ==
    \/ UNCHANGED up
    \/ \E m \in Message :
         up' = Append(up, m) /\ m.type \notin EchoTypes /\ sort'[m.run] # "unused"
DeskStep(r) ==
    /\ exec'[r] \in {"none", "owned", "started"} => Unsaid(r)
    /\ exec'[r] = "started" => exec[r] = "started" \/ HasStart(up', r)
    /\ OnceInv(r)'
    /\ sort'[r] = "unused" =>
         /\ sort[r] = "unused" /\ exec'[r] = exec[r] /\ ledger'[r] = ledger[r]
         /\ r \in unsent' => r \in unsent
CalmNow == Calm /\ StillInv /\ \A r \in Runs : RunInv(r)

LEMMA PlainFacts ==
    ASSUME OpenInv, PlainPush, NEW r \in Runs
    PROVE  /\ NoEcho(up', r) <=> NoEcho(up, r)
           /\ OneEcho(up, r) => OneEcho(up', r)
           /\ HasStart(up, r) => HasStart(up', r)
           /\ Led(up, r) => Led(up', r)
           /\ NotOf(up, r) /\ sort'[r] = "unused" => NotOf(up', r)
<1>1. CASE UNCHANGED up  BY <1>1
<1>2. ASSUME NEW m \in Message, up' = Append(up, m), m.type \notin EchoTypes,
             sort'[m.run] # "unused"
      PROVE  /\ NoEcho(up', r) <=> NoEcho(up, r)
             /\ OneEcho(up, r) => OneEcho(up', r)
             /\ HasStart(up, r) => HasStart(up', r)
             /\ Led(up, r) => Led(up', r)
             /\ NotOf(up, r) /\ sort'[r] = "unused" => NotOf(up', r)
  <2>1. up \in Seq(Message) /\ ~Echo(m, r)  BY <1>2, WireFacts DEF Echo
  <2>2. m.run = r => sort'[r] # "unused"  BY <1>2
  <2> QED BY <1>2, <2>1, <2>2, AppendEcho
<1> QED BY <1>1, <1>2 DEF PlainPush

LEMMA DeskCalm ==
    ASSUME OpenInv, CalmInv, UNCHANGED <<gw, chain, faults>>, PlainPush,
           CalmNow => StillInv' /\ \A r \in Runs : DeskStep(r)
    PROVE  CalmInv'
<1> SUFFICES ASSUME Calm, NEW r \in Runs PROVE RunInv(r)'
  <2>1. Calm' => Calm  BY DEF Calm
  <2>2. Calm => StillInv'  BY DEF CalmInv, CalmNow
  <2> QED BY <2>1, <2>2 DEF CalmInv
<1>1. RunInv(r) /\ DeskStep(r)  BY DEF CalmInv, CalmNow
<1>2. /\ NoEcho(up', r) <=> NoEcho(up, r)
      /\ OneEcho(up, r) => OneEcho(up', r)
      /\ HasStart(up, r) => HasStart(up', r)
      /\ Led(up, r) => Led(up', r)
      /\ NotOf(up, r) /\ sort'[r] = "unused" => NotOf(up', r)
  BY PlainFacts
<1>3. Unsaid(r)' => Unsaid(r)  BY <1>1 DEF DeskStep, Unsaid
<1>4. PushedOut(gw', r) \/ ShownInv(r)'
  <2> SUFFICES ASSUME ShownInv(r) PROVE ShownInv(r)'  BY <1>1 DEF RunInv
  <2>1. One(gw, r)'  BY DEF ShownInv
  <2>2. (Owing(r) => Free(gw, r))'  BY <1>2, <1>3 DEF ShownInv, Owing
  <2>3. FirstStart(r)'  BY <1>1, <1>2 DEF ShownInv, FirstStart, DeskStep
  <2> QED BY <2>1, <2>2, <2>3 DEF ShownInv
<1>6. EchoInv(r)'  BY <1>1, <1>2, <1>3 DEF RunInv, EchoInv
<1>8. OnceInv(r)'  BY <1>1 DEF DeskStep
<1>9. UnusedInv(r)'
  <2> SUFFICES ASSUME sort'[r] = "unused"
               PROVE  /\ New(gw', r) /\ exec'[r] = "none" /\ ledger'[r] = "none" /\ r \notin unsent'
                      /\ NotOf(up', r) /\ NotOf(chain', r)
    BY DEF UnusedInv
  <2> QED BY <1>1, <1>2 DEF RunInv, UnusedInv, DeskStep
<1> QED BY <1>4, <1>6, <1>8, <1>9 DEF RunInv

LEMMA OtherStep ==
    ASSUME NEW r \in Runs, RunInv(r), exec'[r] = exec[r], inbox'[r] = inbox[r],
           ledger'[r] = ledger[r], sort'[r] = sort[r], r \in unsent' => r \in unsent,
           Early(r)' => Early(r)
    PROVE  DeskStep(r)
BY DEF RunInv, OnceInv, DeskStep, Unsaid

LEMMA PushPlain ==
    ASSUME OpenInv, NEW m \in Message, Push(<<m>>) \/ UNCHANGED up, m.type \notin EchoTypes,
           sort'[m.run] # "unused"
    PROVE  PlainPush
<1>1. up \in Seq(Message)  BY WireFacts
<1>2. CASE Push(<<m>>)
  <2>1. up' = Append(up, m)  BY <1>1, <1>2 DEF Push
  <2> QED BY <2>1 DEF PlainPush
<1> QED BY <1>2 DEF PlainPush

LEMMA TellPlain ==
    ASSUME OpenInv, NEW r \in Runs, NEW type \in Controls, Tell(r, type), sort'[r] # "unused"
    PROVE  PlainPush
<1> DEFINE m == Msg(r, type)
<1>1. m \in Message /\ m.type = type /\ m.run = r  BY MsgType DEF Msg
<1>2. Push(<<m>>) \/ UNCHANGED up  BY DEF Tell
<1> HIDE DEF m
<1>3. m.type \notin EchoTypes  BY <1>1 DEF Controls, EchoTypes
<1> QED BY <1>1, <1>2, <1>3, PushPlain

LEMMA ConcludePlain ==
    ASSUME OpenInv, NEW r \in Runs, Conclude(r), sort'[r] # "unused"
    PROVE  /\ PlainPush /\ \A q \in Runs \ {r} : ledger'[q] = ledger[q]
           /\ \A q \in Runs \ {r} : q \in unsent' => q \in unsent
<1>1. PlainPush  BY TellPlain DEF Conclude, Controls
<1>2. \A q \in Runs \ {r} : ledger'[q] = ledger[q]
  BY DEF Conclude, Mark, OpenInv, ChatInv, Rest
<1>3. \A q \in Runs \ {r} : q \in unsent' => q \in unsent
  BY DEF Conclude, Unsent
<1> QED BY <1>1, <1>2, <1>3

(* The inbox's steps. *)
LEMMA InboxCalm ==
    ASSUME OpenInv, CalmInv, NEW r \in Runs,
           Claim(r) \/ Release(r) \/ Expire(r) \/ ParkInGUI(r) \/ Reject(r) \/ RemoveParked(r)
           \/ Complete(r)
    PROVE  CalmInv'
<1>1. UNCHANGED <<gw, chain, faults, watch, forcing, sort, down, online, fresh, starts, ends>>
  BY DEF Claim, Release, Expire, ParkInGUI, Reject, RemoveParked, Complete, gateVars, Lane,
         netVars
<1> SUFFICES ASSUME CalmNow
             PROVE  PlainPush /\ \A q \in Runs : DeskStep(q)
  <2>1. CASE CalmNow
    <3>1. StillInv'  BY <1>1, <2>1 DEF CalmNow, StillInv
    <3> QED BY <1>1, <2>1, <3>1, DeskCalm
  <2>2. CASE ~CalmNow  BY <1>1, <2>2 DEF CalmNow, Calm, CalmInv
  <2> QED BY <2>1, <2>2
<1>0. /\ inbox \in [Runs -> {"none", "queued", "claimed", "parked", "running"}]
      /\ exec \in [Runs -> {"none", "owned", "started", "streaming", "ended", "over"}]
  BY DEF OpenInv, ChatInv, Rest
<1>2. \A q \in Runs : Early(q)' => Early(q)  BY InboxTame DEF Tame
<1>3. Token(r) /\ RunInv(r) /\ online  BY DEF OpenInv, CalmNow, StillInv
<1>4. sort[r] # "unused"
  <2>1. inbox[r] # "none" \/ exec[r] # "none"
    BY DEF Claim, Release, Expire, ParkInGUI, Reject, RemoveParked, Complete
  <2> QED BY <1>3, <2>1 DEF Token, RunInv, UnusedInv
<1>5. /\ PlainPush /\ \A q \in Runs \ {r} : ledger'[q] = ledger[q]
      /\ \A q \in Runs \ {r} : q \in unsent' => q \in unsent
  <2>1. CASE Claim(r)
    <3>1. Tell(r, "pending") /\ UNCHANGED <<ledger, unsent>>  BY <2>1 DEF Claim
    <3> QED BY <1>1, <1>4, <3>1, TellPlain DEF Controls
  <2>2. CASE ParkInGUI(r)
    <3>1. Tell(r, "queued_in_gui") /\ UNCHANGED <<ledger, unsent>>  BY <2>2 DEF ParkInGUI
    <3> QED BY <1>1, <1>4, <3>1, TellPlain DEF Controls
  <2>3. CASE Release(r)  BY <2>3 DEF Release, netVars, PlainPush
  <2>4. CASE Expire(r) \/ Reject(r) \/ RemoveParked(r) \/ Complete(r)
    <3>1. UNCHANGED <<ledger, unsent, up>> \/ Conclude(r)
      BY <2>4 DEF Expire, Reject, RemoveParked, Complete
    <3>2. CASE UNCHANGED <<ledger, unsent, up>>  BY <3>2 DEF PlainPush
    <3>3. CASE Conclude(r)  BY <1>1, <1>4, <3>3, ConcludePlain
    <3> QED BY <3>1, <3>2, <3>3
  <2> QED BY <2>1, <2>2, <2>3, <2>4
<1>6. \A q \in Runs \ {r} : exec'[q] = exec[q] /\ inbox'[q] = inbox[q]
  BY <1>0 DEF Claim, Release, Expire, ParkInGUI, Reject, RemoveParked, Complete, Exec, Inbox
<1>7. ASSUME NEW q \in Runs \ {r} PROVE DeskStep(q)
  BY <1>1, <1>2, <1>5, <1>6, <1>7, OtherStep DEF CalmNow
<1>8. DeskStep(r)
  <2>1. OnceInv(r) /\ (Early(r)' => Early(r)) /\ sort'[r] # "unused"
    BY <1>1, <1>2, <1>3, <1>4 DEF RunInv
  <2>2. CASE Claim(r)
    <3>1. exec'[r] = "owned" /\ inbox'[r] = "claimed" /\ inbox[r] = "queued"
      BY <1>0, <1>3, <2>2 DEF Claim, Exec, Inbox
    <3> QED BY <2>1, <3>1 DEF OnceInv, DeskStep, Unsaid, Early
  <2>3. CASE Release(r) \/ Expire(r) \/ ParkInGUI(r) \/ RemoveParked(r)
    <3>1. exec'[r] = "none" /\ exec[r] \in {"none", "owned"}
      BY <1>0, <2>3 DEF Release, Expire, ParkInGUI, RemoveParked, Exec
    <3> QED BY <2>1, <3>1 DEF OnceInv, DeskStep, Unsaid
  <2>4. CASE Reject(r)
    <3>1. exec'[r] = "over" /\ inbox'[r] = "none" /\ exec[r] = "owned"
      BY <1>0, <2>4 DEF Reject, Exec, Inbox
    <3>2. inbox[r] = "claimed"  BY <2>1, <3>1 DEF OnceInv
    <3>3. ~Early(r)'  BY <1>1, <1>3, <3>1, <3>2 DEF Token, Early, Coming
    <3> QED BY <2>1, <3>1, <3>3 DEF OnceInv, DeskStep
  <2>5. CASE Complete(r)
    <3>1. exec'[r] = "over" /\ inbox'[r] = "none" /\ exec[r] = "ended"
      BY <1>0, <2>5 DEF Complete, Exec, Inbox
    <3> QED BY <2>1, <3>1 DEF OnceInv, DeskStep
  <2> QED BY <2>2, <2>3, <2>4, <2>5
<1> QED BY <1>5, <1>7, <1>8

LEMMA SweepCalm == ASSUME OpenInv, CalmInv, NEW r \in Runs, Sweep(r) PROVE CalmInv'
<1>1. /\ UNCHANGED <<gw, chain, faults, watch, forcing, sort, inbox, exec, up, down>>
      /\ UNCHANGED <<online, fresh, starts, ends>> /\ ledger[r] = "running"
      /\ \A q \in Runs \ {r} : ledger'[q] = ledger[q] /\ (q \in unsent' => q \in unsent)
  BY DEF Sweep, gateVars, netVars, Mark, OpenInv, ChatInv, Rest
<1>2. PlainPush  BY <1>1 DEF PlainPush
<1>3. ASSUME CalmNow PROVE StillInv' /\ \A q \in Runs : DeskStep(q)
  <2>1. StillInv'  BY <1>1, <1>3 DEF CalmNow, StillInv
  <2>2. \A q \in Runs : Early(q)' => Early(q)  BY <1>1 DEF Early
  <2>3. ASSUME NEW q \in Runs \ {r} PROVE DeskStep(q)
    BY <1>1, <1>3, <2>2, <2>3, OtherStep DEF CalmNow
  <2>4. RunInv(r) /\ sort[r] # "unused"  BY <1>1, <1>3 DEF CalmNow, RunInv, UnusedInv
  <2>5. DeskStep(r)  BY <1>1, <2>2, <2>4 DEF RunInv, OnceInv, DeskStep, Unsaid
  <2> QED BY <2>1, <2>3, <2>5
<1> QED BY <1>1, <1>2, <1>3, DeskCalm

LEMMA AgeCalm == ASSUME OpenInv, CalmInv, NEW r \in Runs, Age(r) PROVE CalmInv'
<1>1. /\ UNCHANGED <<gw, chain, faults, watch, forcing, sort, inbox, exec, up, down>>
      /\ UNCHANGED <<online, fresh, starts, ends>> /\ ledger[r] # "none"
      /\ \A q \in Runs \ {r} : ledger'[q] = ledger[q] /\ (q \in unsent' => q \in unsent)
  BY DEF Age, Ended, gateVars, netVars, OpenInv, ChatInv, Rest
<1>2. PlainPush  BY <1>1 DEF PlainPush
<1>3. ASSUME CalmNow PROVE StillInv' /\ \A q \in Runs : DeskStep(q)
  <2>1. StillInv'  BY <1>1, <1>3 DEF CalmNow, StillInv
  <2>2. \A q \in Runs : Early(q)' => Early(q)  BY <1>1 DEF Early
  <2>3. ASSUME NEW q \in Runs \ {r} PROVE DeskStep(q)
    BY <1>1, <1>3, <2>2, <2>3, OtherStep DEF CalmNow
  <2>4. RunInv(r) /\ sort[r] # "unused"  BY <1>1, <1>3 DEF CalmNow, RunInv, UnusedInv
  <2>5. DeskStep(r)  BY <1>1, <2>2, <2>4 DEF RunInv, OnceInv, DeskStep, Unsaid
  <2> QED BY <2>1, <2>3, <2>5
<1> QED BY <1>1, <1>2, <1>3, DeskCalm

LEMMA FlushEndCalm == ASSUME OpenInv, CalmInv, NEW r \in Runs, FlushEnd(r) PROVE CalmInv'
<1> DEFINE m == Msg(r, "terminal")
<1>1. /\ UNCHANGED <<gw, chain, faults, watch, forcing, sort, inbox, exec, ledger, down>>
      /\ UNCHANGED <<online, fresh, starts, ends>> /\ r \in unsent /\ Push(<<m>>)
      /\ unsent' \subseteq unsent
  BY DEF FlushEnd, gateVars, Lane
<1>2. m \in Message /\ m.type \notin EchoTypes /\ m.run = r
  BY MsgType DEF Msg, Controls, EchoTypes
<1> HIDE DEF m
<1>3. CASE ~CalmNow  BY <1>1, <1>3 DEF CalmNow, Calm, CalmInv
<1>4. CASE CalmNow
  <2>1. StillInv'  BY <1>1, <1>4 DEF CalmNow, StillInv
  <2>2. \A q \in Runs : Early(q)' => Early(q)  BY <1>1 DEF Early
  <2>3. ASSUME NEW q \in Runs PROVE DeskStep(q)
    BY <1>1, <1>4, <2>2, OtherStep DEF CalmNow
  <2>4. sort[r] # "unused"  BY <1>1, <1>4 DEF CalmNow, RunInv, UnusedInv
  <2>5. PlainPush  BY <1>1, <1>2, <2>4, PushPlain
  <2> QED BY <1>1, <2>1, <2>3, <2>5, DeskCalm
<1> QED BY <1>3, <1>4

LEMMA ReceivedCalm ==
    ASSUME OpenInv, CalmInv, CalmNow, NEW r \in Runs,
           down # <<>>, Head(down) = [run |-> r, cancel |-> FALSE], Receive
    PROVE  CalmInv'
<1> DEFINE m == Msg(r, "pending")
<1>1. /\ down' = Tail(down)
      /\ UNCHANGED <<gw, watch, forcing, ledger, unsent, chain, online, fresh, starts, ends>>
      /\ UNCHANGED <<sort, faults>>
      /\ inbox[r] = "none" /\ inbox' = [inbox EXCEPT ![r] = "queued"] /\ Push(<<m>>)
      /\ UNCHANGED exec
  BY DEF Receive, ReceiveCommand, Inbox, gateVars
<1>2. down \in Seq(Command)  BY WireFacts
<1>3. /\ Head(down) = down[1] /\ Len(down) \in Nat \ {0} /\ Len(down') = Len(down) - 1
      /\ \A k \in 1..Len(down) - 1 : down'[k] = down[k + 1]
  BY <1>1, <1>2, TailFacts
<1>4. /\ 1 \in 1..Len(down) /\ \A k \in 1..Len(down) - 1 : k + 1 \in 1..Len(down)
  BY <1>3
<1>5. \A k \in 1..Len(down') : ~down'[k].cancel  BY <1>3, <1>4 DEF CalmNow, StillInv
<1>6. StillInv'  BY <1>1, <1>5 DEF CalmNow, StillInv
<1>7. m \in Message /\ m.type \notin EchoTypes /\ m.run = r
  BY MsgType DEF Msg, Controls, EchoTypes
<1> HIDE DEF m
<1>8. Coming(down, r)  BY <1>3, <1>4 DEF Coming
<1>9. Token(r) /\ RunInv(r) /\ inbox \in [Runs -> {"none", "queued", "claimed", "parked", "running"}]
  BY DEF OpenInv, ChatInv, Rest, CalmNow
<1>10. sort[r] # "unused"  BY <1>8, <1>9 DEF Token
<1>11. PlainPush  BY <1>1, <1>7, <1>10, PushPlain
<1>12. \A q \in Runs : Early(q)' => Early(q)  BY ReceiveTame DEF Tame
<1>13. ASSUME NEW q \in Runs \ {r} PROVE DeskStep(q)
  <2>1. inbox'[q] = inbox[q]  BY <1>1, <1>9
  <2> QED BY <1>1, <1>12, <1>13, <2>1, OtherStep DEF CalmNow
<1>14. DeskStep(r)
  <2>1. OnceInv(r) /\ Early(r)  BY <1>8, <1>9 DEF RunInv, Early
  <2>2. exec[r] \in {"none", "owned"} /\ exec[r] # "owned"  BY <1>1, <2>1 DEF OnceInv
  <2>3. exec[r] = "none" /\ exec'[r] = "none"  BY <1>1, <2>2
  <2>4. OnceInv(r)'  BY <2>3 DEF OnceInv
  <2>5. Unsaid(r) /\ sort'[r] # "unused"  BY <1>1, <1>10, <2>3 DEF Unsaid
  <2> QED BY <2>3, <2>4, <2>5 DEF DeskStep
<1> QED BY <1>1, <1>6, <1>11, <1>13, <1>14, DeskCalm

LEMMA ReceiveCalm == ASSUME OpenInv, CalmInv, Receive PROVE CalmInv'
<1>1. down # <<>> /\ UNCHANGED <<gw, faults>>  BY DEF Receive, gateVars
<1>2. CASE ~CalmNow  BY <1>1, <1>2 DEF CalmNow, Calm, CalmInv
<1>3. CASE CalmNow
  <2>1. down \in Seq(Command)  BY WireFacts
  <2>2. Head(down) \in Command /\ Head(down) = down[1] /\ Len(down) \in Nat \ {0}
    BY <1>1, <2>1, TailFacts
  <2>3. 1 \in 1..Len(down)  BY <2>2
  <2>4. ~Head(down).cancel  BY <1>3, <2>2, <2>3 DEF CalmNow, StillInv
  <2>5. PICK r \in Runs : Head(down) = [run |-> r, cancel |-> FALSE]
    BY <2>2, <2>4 DEF Command
  <2> QED BY <1>1, <1>3, <2>5, ReceivedCalm
<1> QED BY <1>2, <1>3

(* A run starts: "started" is on the wire. *)
LEMMA StartedCalm ==
    ASSUME OpenInv, CalmInv, NEW r \in Runs, NEW m \in Message,
           m.run = r, m.type = "started", m.named, up' = Append(up, m),
           UNCHANGED <<gw, chain, faults, watch, forcing, unsent, down, online, fresh, starts, ends>>,
           exec' = [exec EXCEPT ![r] = "started"], exec[r] \in {"none", "owned"},
           sort'[r] # "unused", ~Early(r)', inbox'[r] # "parked",
           \A q \in Runs \ {r} : /\ inbox'[q] = inbox[q] /\ ledger'[q] = ledger[q]
                                 /\ sort'[q] = sort[q]
    PROVE  CalmInv'
<1>1. CASE ~CalmNow  BY <1>1 DEF CalmNow, Calm, CalmInv
<1>2. CASE CalmNow
  <2>1. StillInv'  BY <1>2 DEF CalmNow, StillInv
  <2>2. up \in Seq(Message)  BY WireFacts
  <2>3. HasStart(up', r)  BY <2>2, AppendEcho DEF StartOf
  <2>4. PlainPush  BY DEF PlainPush, EchoTypes
  <2>5. exec \in [Runs -> {"none", "owned", "started", "streaming", "ended", "over"}]
    BY DEF OpenInv, ChatInv, Rest
  <2>6. ASSUME NEW q \in Runs \ {r} PROVE DeskStep(q)
    <3>1. exec'[q] = exec[q]  BY <2>5, <2>6
    <3>2. Early(q)' => Early(q)  BY <2>6 DEF Early
    <3> QED BY <1>2, <2>6, <3>1, <3>2, OtherStep DEF CalmNow
  <2>7. exec'[r] = "started"  BY <2>5
  <2>8. OnceInv(r)'  BY <2>7 DEF OnceInv
  <2>9. Unsaid(r)  BY DEF Unsaid
  <2>10. DeskStep(r)  BY <2>3, <2>8, <2>9 DEF DeskStep
  <2> QED BY <2>1, <2>4, <2>6, <2>10, DeskCalm
<1> QED BY <1>1, <1>2

LEMMA StartRunCalm == ASSUME OpenInv, CalmInv, NEW r \in Runs, StartRun(r) PROVE CalmInv'
<1> DEFINE m == [Msg(r, "started") EXCEPT !.named = TRUE]
<1>0. /\ inbox \in [Runs -> {"none", "queued", "claimed", "parked", "running"}]
      /\ ledger \in [Runs -> {"none", "running", "ended", "old"}]
      /\ sort \in [Runs -> {"unused", "web", "draft", "local"}]
      /\ up \in Seq(Message)
  BY WireFacts DEF OpenInv, ChatInv, Rest
<1>1. /\ UNCHANGED <<gw, chain, faults, watch, forcing, down, online, fresh, starts, ends>>
      /\ inbox[r] # "none" /\ exec[r] \in {"none", "owned"}
  BY DEF StartRun, gateVars, Lane
<1>2. CASE ~CalmNow  BY <1>1, <1>2 DEF CalmNow, Calm, CalmInv
<1>3. CASE CalmNow
  <2>1. online  BY <1>3 DEF CalmNow, StillInv
  <2>2. /\ inbox' = [inbox EXCEPT ![r] = "running"] /\ sort' = [sort EXCEPT ![r] = "web"]
        /\ Push(<<m>>) /\ Mark(r, "running") /\ exec' = [exec EXCEPT ![r] = "started"]
        /\ UNCHANGED unsent
    BY <2>1 DEF StartRun, MarkStarted, Inbox, Exec
  <2>3. m \in Message /\ m.run = r /\ m.type = "started" /\ m.named
    BY MsgType DEF Msg, Controls
  <2>4. up' = Append(up, m)  BY <1>0, <2>2 DEF Push
  <2> HIDE DEF m
  <2>5. \A q \in Runs \ {r} : /\ inbox'[q] = inbox[q] /\ ledger'[q] = ledger[q]
                              /\ sort'[q] = sort[q]
    BY <1>0, <2>2 DEF Mark
  <2>6. inbox'[r] = "running" /\ sort'[r] = "web"  BY <1>0, <2>2
  <2>7. Token(r)  BY DEF OpenInv
  <2>8. ~Early(r)'  BY <1>1, <2>6, <2>7 DEF Token, Early, Coming
  <2> QED BY <1>1, <2>2, <2>3, <2>4, <2>5, <2>6, <2>8, StartedCalm
<1> QED BY <1>2, <1>3

LEMMA StartLocalCalm == ASSUME OpenInv, CalmInv, NEW r \in Runs, StartLocal(r) PROVE CalmInv'
<1> DEFINE m == Msg(r, "started")
<1>0. /\ inbox \in [Runs -> {"none", "queued", "claimed", "parked", "running"}]
      /\ ledger \in [Runs -> {"none", "running", "ended", "old"}]
      /\ sort \in [Runs -> {"unused", "web", "draft", "local"}]
      /\ up \in Seq(Message)
  BY WireFacts DEF OpenInv, ChatInv, Rest
<1>1. /\ UNCHANGED <<gw, chain, faults, watch, forcing, down, online, fresh, starts, ends>>
      /\ UNCHANGED <<inbox, unsent>> /\ sort[r] = "unused"
      /\ sort' = [sort EXCEPT ![r] = "local"] /\ Mark(r, "running") /\ Tell(r, "started")
      /\ exec' = [exec EXCEPT ![r] = "started"]
  BY DEF StartLocal, gateVars, Lane, Exec
<1>2. CASE ~CalmNow  BY <1>1, <1>2 DEF CalmNow, Calm, CalmInv
<1>3. CASE CalmNow
  <2>1. online /\ RunInv(r)  BY <1>3 DEF CalmNow, StillInv
  <2>2. m \in Message /\ m.run = r /\ m.type = "started" /\ m.named
    BY <1>1, MsgType DEF Msg, Controls
  <2>3. Push(<<m>>)  BY <1>1, <2>1 DEF Tell
  <2> HIDE DEF m
  <2>4. up' = Append(up, m)  BY <1>0, <2>3 DEF Push
  <2>5. \A q \in Runs \ {r} : ledger'[q] = ledger[q] /\ sort'[q] = sort[q] /\ inbox'[q] = inbox[q]
    BY <1>0, <1>1 DEF Mark
  <2>6. sort'[r] = "local"  BY <1>0, <1>1
  <2>7. watch[r] = "off" /\ ~Coming(down, r) /\ inbox[r] = "none" /\ exec[r] = "none"
    BY <1>1, <2>1 DEF OpenInv, Token, RunInv, UnusedInv
  <2>8. ~Early(r)' /\ inbox'[r] # "parked"  BY <1>1, <2>6, <2>7 DEF Early, Coming
  <2> QED BY <1>1, <2>2, <2>4, <2>5, <2>6, <2>7, <2>8, StartedCalm
<1> QED BY <1>2, <1>3

(* The chain. *)
LEMMA EmitCalm == ASSUME OpenInv, CalmInv, NEW r \in Runs, Emit(r) PROVE CalmInv'
<1>1. /\ UNCHANGED <<gw, faults, watch, forcing, sort, inbox, ledger, unsent, up, down>>
      /\ UNCHANGED <<online, fresh, starts, ends>>
  BY DEF Emit, gateVars, netVars
<1>2. PICK step \in {<<"started", "user_message", "streaming">>, <<"streaming", "done", "ended">>} :
         exec[r] = step[1] /\ chain' = Append(chain, Msg(r, step[2])) /\ Exec(r, step[3])
  BY DEF Emit
<1> DEFINE m == Msg(r, step[2])
<1>3. m \in Message /\ m.run = r
  <2>1. step[2] \in AgentEvents  BY <1>2 DEF AgentEvents
  <2> QED BY <2>1, MsgType DEF Msg
<1>4. /\ chain' = Append(chain, m) /\ chain \in Seq(Message)
      /\ \A q \in Runs \ {r} : exec'[q] = exec[q]
      /\ \/ exec[r] = "started" /\ exec'[r] = "streaming"
         \/ exec[r] = "streaming" /\ exec'[r] = "ended" /\ m.type = "done"
  BY <1>2, WireFacts DEF Exec, Msg, OpenInv, ChatInv, Rest
<1> HIDE DEF m
<1> SUFFICES ASSUME Calm, NEW q \in Runs PROVE RunInv(q)'
  <2>1. Calm' => Calm /\ StillInv'  BY <1>1 DEF Calm, CalmInv, StillInv
  <2> QED BY <2>1 DEF CalmInv
<1>5. RunInv(q) /\ RunInv(r)  BY DEF CalmInv
<1>6. /\ NoEcho(chain', q) <=> NoEcho(chain, q) /\ ~Echo(m, q)
      /\ OneEcho(chain, q) /\ (NoEcho(chain, q) \/ ~Echo(m, q)) => OneEcho(chain', q)
      /\ NotOf(chain, q) /\ m.run # q => NotOf(chain', q)
  <2>1. /\ NoEcho(Append(chain, m), q) <=> NoEcho(chain, q) /\ ~Echo(m, q)
        /\ OneEcho(chain, q) /\ (NoEcho(chain, q) \/ ~Echo(m, q)) => OneEcho(Append(chain, m), q)
        /\ NotOf(chain, q) /\ m.run # q => NotOf(Append(chain, m), q)
    BY <1>3, <1>4, AppendEcho
  <2> QED BY <1>4, <2>1
<1>7. Echo(m, q) => q = r /\ exec[r] = "started" /\ exec'[r] = "streaming"
  BY <1>3, <1>4 DEF Echo, EchoTypes
<1>8. Unsaid(q)' => Unsaid(q) /\ ~Echo(m, q)  BY <1>4, <1>7 DEF Unsaid
<1>9. Echo(m, q) => Unsaid(q) /\ exec[q] = "started"  BY <1>7 DEF Unsaid
<1>10. PushedOut(gw', q) \/ ShownInv(q)'
  <2> SUFFICES ASSUME ShownInv(q) PROVE ShownInv(q)'  BY <1>1, <1>5 DEF RunInv
  <2>1. One(gw, q)'  BY <1>1 DEF ShownInv
  <2>2. (Owing(q) => Free(gw, q))'  BY <1>1, <1>6, <1>8, <1>9 DEF ShownInv, Owing
  <2>3. exec'[q] = "started" => exec[q] = "started"  BY <1>4
  <2>4. FirstStart(q)'  BY <1>1, <1>6, <1>9, <2>3 DEF ShownInv, FirstStart
  <2> QED BY <2>1, <2>2, <2>4 DEF ShownInv
<1>12. EchoInv(q)'
  <2>1. CASE Echo(m, q)
    <3>1. NoEcho(chain, q) /\ NoEcho(up, q) /\ OneEcho(up, q)
      BY <1>5, <1>9, <2>1 DEF RunInv, EchoInv
    <3>2. ~Unsaid(q)' /\ OneEcho(chain', q)  BY <1>5, <1>6, <1>8, <2>1, <3>1 DEF RunInv, EchoInv
    <3>3. NoEcho(up', q) /\ OneEcho(up', q)  BY <1>1, <3>1
    <3> QED BY <3>2, <3>3 DEF EchoInv
  <2>2. CASE ~Echo(m, q)  BY <1>1, <1>5, <1>6, <1>8, <2>2 DEF RunInv, EchoInv
  <2> QED BY <2>1, <2>2
<1>14. OnceInv(q)'
  <2>1. Early(q)' => Early(q)  BY <1>1 DEF Early
  <2>2. CASE q = r
    <3>1. exec[r] \notin {"none", "owned"} /\ exec'[r] # "owned"  BY <1>4
    <3> QED BY <1>1, <1>5, <2>1, <2>2, <3>1 DEF RunInv, OnceInv
  <2>3. CASE q # r  BY <1>1, <1>4, <1>5, <2>1, <2>3 DEF RunInv, OnceInv
  <2> QED BY <2>2, <2>3
<1>15. UnusedInv(q)'
  <2> SUFFICES ASSUME sort'[q] = "unused"
               PROVE  /\ New(gw', q) /\ exec'[q] = "none" /\ ledger'[q] = "none" /\ q \notin unsent'
                      /\ NotOf(up', q) /\ NotOf(chain', q)
    BY DEF UnusedInv
  <2>1. q # r  BY <1>1, <1>4, <1>5 DEF RunInv, UnusedInv
  <2> QED BY <1>1, <1>3, <1>4, <1>5, <1>6, <2>1 DEF RunInv, UnusedInv
<1> QED BY <1>10, <1>12, <1>14, <1>15 DEF RunInv

LEMMA SendEventCalm == ASSUME OpenInv, CalmInv, SendEvent PROVE CalmInv'
<1> DEFINE m == Head(chain)
<1>1. /\ UNCHANGED <<gw, faults, watch, forcing, sort, inbox, exec, down>>
      /\ UNCHANGED <<online, fresh, starts, ends>>
      /\ chain # <<>> /\ chain' = Tail(chain)
  BY DEF SendEvent, gateVars, Lane
<1>2. chain \in Seq(Message) /\ up \in Seq(Message)  BY WireFacts
<1>3. m \in Message /\ m.run \in Runs
  <2>1. m \in Message  BY <1>1, <1>2, TailFacts
  <2> HIDE DEF m
  <2> QED BY <2>1 DEF Message
<1>4. \A q \in Runs \ {m.run} : ledger'[q] = ledger[q] /\ (q \in unsent' => q \in unsent)
  BY <1>3 DEF SendEvent, Mark, Unsent, OpenInv, ChatInv, Rest
<1>5. online => up' = Append(up, m)
  <2>1. online => Push(<<m>>)  BY DEF SendEvent
  <2> QED BY <1>2, <2>1 DEF Push
<1> SUFFICES ASSUME Calm, NEW q \in Runs PROVE RunInv(q)'
  <2>1. Calm' => Calm /\ StillInv'  BY <1>1 DEF Calm, CalmInv, StillInv
  <2> QED BY <2>1 DEF CalmInv
<1>6. RunInv(q) /\ online  BY DEF CalmInv, StillInv
<1>7. /\ NoEcho(chain, q) <=> NoEcho(chain', q) /\ ~Echo(m, q)
      /\ OneEcho(chain, q) => OneEcho(chain', q) /\ (Echo(m, q) => NoEcho(chain', q))
      /\ NotOf(chain, q) => NotOf(chain', q) /\ m.run # q
  BY <1>1, <1>2, TailEcho
<1>8. up' = Append(up, m)  BY <1>5, <1>6
<1> HIDE DEF m
<1>9. /\ NoEcho(up', q) <=> NoEcho(up, q) /\ ~Echo(m, q)
      /\ OneEcho(up, q) /\ (NoEcho(up, q) \/ ~Echo(m, q)) => OneEcho(up', q)
      /\ HasStart(up, q) => HasStart(up', q)
      /\ Led(up, q) /\ (Echo(m, q) => HasStart(up, q)) => Led(up', q)
      /\ NotOf(up, q) /\ m.run # q => NotOf(up', q)
  BY <1>2, <1>3, <1>8, AppendEcho
<1>10. Unsaid(q)' <=> Unsaid(q)  BY <1>1 DEF Unsaid
<1>11. PushedOut(gw', q) \/ ShownInv(q)'
  <2> SUFFICES ASSUME ShownInv(q) PROVE ShownInv(q)'  BY <1>1, <1>6 DEF RunInv
  <2>1. One(gw, q)'  BY <1>1 DEF ShownInv
  <2>2. (Owing(q) => Free(gw, q))'  BY <1>1, <1>7, <1>9, <1>10 DEF ShownInv, Owing
  <2>3. FirstStart(q)'  BY <1>1, <1>7, <1>9 DEF ShownInv, FirstStart
  <2> QED BY <2>1, <2>2, <2>3 DEF ShownInv
<1>13. EchoInv(q)'  BY <1>6, <1>7, <1>9, <1>10 DEF RunInv, EchoInv
<1>15. OnceInv(q)'
  <2>1. Early(q)' => Early(q)  BY <1>1 DEF Early
  <2> QED BY <1>1, <1>6, <2>1 DEF RunInv, OnceInv
<1>16. UnusedInv(q)'
  <2> SUFFICES ASSUME sort'[q] = "unused"
               PROVE  /\ New(gw', q) /\ exec'[q] = "none" /\ ledger'[q] = "none" /\ q \notin unsent'
                      /\ NotOf(up', q) /\ NotOf(chain', q)
    BY DEF UnusedInv
  <2>1. NotOf(chain, q) /\ NotOf(up, q) /\ q # m.run  BY <1>1, <1>6, <1>7 DEF RunInv, UnusedInv
  <2> QED BY <1>1, <1>4, <1>6, <1>7, <1>9, <2>1 DEF RunInv, UnusedInv
<1> QED BY <1>11, <1>13, <1>15, <1>16 DEF RunInv

-----------------------------------------------------------------------------
(* The gateway reads a message. *)
LEMMA DeliveredCalm ==
    ASSUME OpenInv, CalmInv, NEW m \in Message, NEW r \in Runs, m.run = r,
           up # <<>>, Head(up) = m, Deliver
    PROVE  CalmInv'
<1> SUFFICES ASSUME Calm PROVE StillInv' /\ \A q \in Runs : RunInv(q)'
  BY DEF CalmInv, Calm, Deliver
<1>1. /\ UNCHANGED <<chain, sort, inbox, exec, ledger, unsent, watch, forcing, down, online>>
      /\ UNCHANGED <<fresh, starts, ends, faults>>
      /\ up' = Tail(up) /\ gw' = Handle(m)
  BY DEF Deliver, deskVars
<1>2. up \in Seq(Message) /\ Inv(gw)  BY WireFacts DEF OpenInv, ChatInv
<1>4. StillInv /\ RunInv(r)  BY DEF CalmInv
<1>5. StillInv'  BY <1>1, <1>4 DEF StillInv
<1> SUFFICES ASSUME NEW q \in Runs PROVE RunInv(q)'  BY <1>5
<1>6. RunInv(q)  BY DEF CalmInv
<1>7. ASSUME NEW p \in Runs
      PROVE  /\ NoEcho(up, p) <=> NoEcho(up', p) /\ ~Echo(m, p)
             /\ OneEcho(up, p) => OneEcho(up', p) /\ (Echo(m, p) => NoEcho(up', p))
             /\ HasStart(up, p) <=> StartOf(m, p) \/ HasStart(up', p)
             /\ Led(up, p) => ~Echo(m, p) /\ (StartOf(m, p) \/ Led(up', p))
             /\ NotOf(up, p) => NotOf(up', p) /\ m.run # p
  BY <1>1, <1>2, TailEcho
<1>8. sort[r] # "unused"  BY <1>4, <1>7, <1>2 DEF RunInv, UnusedInv
<1>9. /\ Others(gw, gw', r)
      /\ m.type \notin EchoTypes /\ One(gw, r) =>
            /\ Kept(gw, gw', r)
            /\ m.type = "started" /\ m.named => PushedOut(gw', r) \/ Clear(gw', r)
      /\ m.type \in EchoTypes /\ One(gw, r) /\ Free(gw, r) /\ Clear(gw, r)
            => PushedOut(gw', r) \/ One(gw', r)
  BY <1>1, <1>2, HandleSpared
<1>10. PushedOut(gw, q) => PushedOut(gw', q)  BY <1>9 DEF Others, Longer
<1>11. Unsaid(q)' <=> Unsaid(q)  BY <1>1 DEF Unsaid
<1>12. EchoInv(q)'  BY <1>1, <1>6, <1>7, <1>11 DEF RunInv, EchoInv
<1>13. ASSUME ShownInv(q), ~PushedOut(gw', q) PROVE ShownInv(q)'
  <2>1. CASE Echo(m, q)
    <3>1. q = r /\ m.type \in EchoTypes  BY <2>1 DEF Echo
    <3>2. ~NoEcho(up, q) /\ ~Led(up, q)  BY <1>2, <1>7, <2>1
    <3>3. One(gw, q) /\ Free(gw, q) /\ Clear(gw, q)  BY <1>13, <3>2 DEF ShownInv, Owing, FirstStart
    <3>4. One(gw', q)  BY <1>9, <1>13, <3>1, <3>3
    <3>5. NoEcho(up', q) /\ NoEcho(chain, q) /\ ~Unsaid(q)
      BY <1>6, <1>7, <2>1 DEF RunInv, EchoInv
    <3>6. ~Owing(q)'  BY <1>1, <1>11, <3>5 DEF Owing
    <3>7. Led(up', q) /\ exec'[q] # "started"  BY <1>1, <3>5 DEF Led, NoEcho, Unsaid
    <3>8. FirstStart(q)'  BY <1>1, <3>5, <3>7 DEF FirstStart
    <3> QED BY <3>4, <3>6, <3>8 DEF ShownInv
  <2>2. CASE ~Echo(m, q)
    <3>1. Keeps(gw, gw', q)
      <4>1. CASE q # r  BY <1>9, <1>13, <4>1 DEF Others
      <4>2. CASE q = r
        <5>1. m.type \notin EchoTypes  BY <2>2, <4>2 DEF Echo
        <5>2. Kept(gw, gw', r)  BY <1>9, <1>13, <4>2, <5>1 DEF ShownInv
        <5> QED BY <1>13, <4>2, <5>2 DEF Kept
      <4> QED BY <4>1, <4>2
    <3>2. One(gw', q)  BY <1>13, <3>1 DEF Keeps, ShownInv
    <3>3. (Owing(q) => Free(gw, q))'
      <4> SUFFICES ASSUME Owing(q)' PROVE Free(gw', q)  OBVIOUS
      <4>1. Owing(q)  BY <1>1, <1>7, <1>11, <2>2 DEF Owing
      <4> QED BY <1>13, <3>1, <4>1 DEF Keeps, ShownInv
    <3>4. FirstStart(q)'
      <4>1. CASE Clear(gw, q)
        <5>1. Clear(gw', q)  BY <1>13, <3>1, <4>1 DEF Keeps, ShownInv
        <5> QED BY <5>1 DEF FirstStart
      <4>2. CASE StartOf(m, q)
        <5>1. q = r /\ m.type = "started" /\ m.named /\ m.type \notin EchoTypes
          BY <4>2 DEF StartOf, EchoTypes
        <5>2. Clear(gw', q)  BY <1>9, <1>13, <5>1 DEF ShownInv
        <5> QED BY <5>2 DEF FirstStart
      <4>3. CASE ~StartOf(m, q) /\ ~Clear(gw, q)
        <5>1. Led(up', q) /\ (exec[q] = "started" \/ ~NoEcho(chain, q) => HasStart(up', q))
          BY <1>7, <1>13, <4>3 DEF ShownInv, FirstStart
        <5> QED BY <1>1, <5>1 DEF FirstStart
      <4> QED BY <4>1, <4>2, <4>3
    <3> QED BY <3>2, <3>3, <3>4 DEF ShownInv
  <2> QED BY <2>1, <2>2
<1>14. PushedOut(gw', q) \/ ShownInv(q)'  BY <1>6, <1>10, <1>13 DEF RunInv
<1>17. OnceInv(q)'
  <2>1. Early(q)' => Early(q)  BY <1>1 DEF Early
  <2> QED BY <1>1, <1>6, <2>1 DEF RunInv, OnceInv
<1>18. UnusedInv(q)'
  <2> SUFFICES ASSUME sort'[q] = "unused"
               PROVE  /\ New(gw', q) /\ exec'[q] = "none" /\ ledger'[q] = "none" /\ q \notin unsent'
                      /\ NotOf(up', q) /\ NotOf(chain', q)
    BY DEF UnusedInv
  <2>1. q # r /\ UnusedInv(q) /\ sort[q] = "unused"  BY <1>1, <1>6, <1>8 DEF RunInv
  <2>2. New(gw, q) => New(gw', q)  BY <1>9, <2>1 DEF Others
  <2> QED BY <1>1, <1>7, <2>1, <2>2 DEF UnusedInv
<1> QED BY <1>12, <1>14, <1>17, <1>18 DEF RunInv

LEMMA DeliverCalm == ASSUME OpenInv, CalmInv, Deliver PROVE CalmInv'
<1>1. up # <<>> /\ up \in Seq(Message)  BY WireFacts DEF Deliver
<1>2. Head(up) \in Message  BY <1>1, TailFacts
<1>3. PICK m \in Message : Head(up) = m  BY <1>2
<1>4. m.run \in Runs  BY DEF Message
<1> QED BY <1>1, <1>3, <1>4, DeliveredCalm

-----------------------------------------------------------------------------
(* The gateway's own steps, on a run that is not new. *)
LEMMA GateCalm ==
    ASSUME OpenInv, CalmInv, NEW r \in Runs, Kept(gw, gw', r), CalmNow => sort[r] # "unused",
           UNCHANGED <<deskVars, up, sort, faults>>,
           CalmNow => StillInv', \A q \in Runs : Early(q)' => Early(q)
    PROVE  CalmInv'
<1>1. UNCHANGED <<chain, inbox, exec, ledger, unsent>>  BY DEF deskVars
<1> SUFFICES ASSUME Calm, NEW q \in Runs PROVE StillInv' /\ RunInv(q)'
  BY DEF CalmInv, Calm
<1>3. CalmNow  BY DEF CalmInv, CalmNow
<1>4. RunInv(q) /\ StillInv'  BY <1>3 DEF CalmNow
<1>5. /\ PushedOut(gw, q) => PushedOut(gw', q)
      /\ PushedOut(gw', q) \/ Keeps(gw, gw', q)
      /\ q # r /\ New(gw, q) => New(gw', q)
  BY DEF Kept, Others, Longer
<1>6. Unsaid(q)' <=> Unsaid(q)  BY <1>1 DEF Unsaid
<1>7. PushedOut(gw', q) \/ ShownInv(q)'
  <2> SUFFICES ASSUME ShownInv(q), Keeps(gw, gw', q) PROVE ShownInv(q)'
    BY <1>4, <1>5 DEF RunInv
  <2>1. One(gw, q)'  BY DEF Keeps, ShownInv
  <2>2. (Owing(q) => Free(gw, q))'  BY <1>1, <1>6 DEF Keeps, ShownInv, Owing
  <2>3. FirstStart(q)'  BY <1>1 DEF Keeps, ShownInv, FirstStart
  <2> QED BY <2>1, <2>2, <2>3 DEF ShownInv
<1>8. EchoInv(q)'  BY <1>1, <1>4, <1>6 DEF RunInv, EchoInv
<1>9. OnceInv(q)'  BY <1>1, <1>4 DEF RunInv, OnceInv
<1>10. UnusedInv(q)'  BY <1>1, <1>3, <1>4, <1>5 DEF RunInv, UnusedInv
<1> QED BY <1>4, <1>7, <1>8, <1>9, <1>10 DEF RunInv

(* The watchdogs. *)
LEMMA WatchCalm ==
    ASSUME OpenInv, CalmInv, NEW r \in Runs, FailStartup(r) \/ ForceCancel(r) \/ CheckStartup(r)
    PROVE  CalmInv'
<1>1. UNCHANGED <<deskVars, up, sort, down, online, fresh, starts, ends>>
  BY DEF FailStartup, ForceCancel, CheckStartup, netVars
<1>2. \A q \in Runs : Early(q)' => Early(q)  BY WatchTame DEF Tame
<1>3. Inv(gw) /\ Token(r) /\ watch \in [Runs -> {"off", "dispatch", "wait", "late"}]
  BY DEF OpenInv, ChatInv, Rest
<1>4. CASE FailStartup(r)
  <2>1. /\ Kept(gw, gw', r) /\ UNCHANGED <<faults, forcing>> /\ sort[r] # "unused"
        /\ watch' = [watch EXCEPT ![r] = "off"]
    BY <1>3, <1>4, FailCommandKept DEF FailStartup, Token, Watch
  <2>2. \A q \in Runs : watch'[q] \in {watch[q], "off"}  BY <1>3, <2>1
  <2>3. CalmNow => StillInv'  BY <1>1, <2>1, <2>2 DEF CalmNow, StillInv
  <2> QED BY <1>1, <1>2, <2>1, <2>3, GateCalm
<1>5. CASE ForceCancel(r)
  <2>1. Kept(gw, gw', r) /\ UNCHANGED <<faults, watch>> /\ r \in forcing
    BY <1>3, <1>5, FinishKept, KeptSelf DEF ForceCancel, ForceFinish, Inv
  <2>2. ~CalmNow  BY <2>1 DEF CalmNow, StillInv
  <2> QED BY <1>1, <1>2, <2>1, <2>2, GateCalm
<1>6. CASE CheckStartup(r)
  <2>1. UNCHANGED <<gw, forcing>>  BY <1>6 DEF CheckStartup
  <2>2. CASE Fault
    <3>1. ~Calm'  BY <2>2 DEF Fault, Calm, OpenInv, ChatInv, Rest
    <3> QED BY <3>1 DEF CalmInv
  <2>3. CASE UNCHANGED faults /\ Settled(gw, r) /\ watch' = [watch EXCEPT ![r] = "off"]
    <3>1. Kept(gw, gw', r)  BY <1>3, <2>1, KeptSelf DEF Inv
    <3>2. \A q \in Runs : watch'[q] \in {watch[q], "off"}  BY <1>3, <2>3
    <3>3. CalmNow => StillInv'  BY <1>1, <2>1, <3>2 DEF CalmNow, StillInv
    <3>4. sort[r] # "unused"  BY <1>3, <1>6 DEF CheckStartup, Token
    <3> QED BY <1>1, <1>2, <2>3, <3>1, <3>3, <3>4, GateCalm
  <2> QED BY <1>6, <2>2, <2>3 DEF CheckStartup, Watch
<1> QED BY <1>4, <1>5, <1>6

LEMMA LoseRunCalm == ASSUME OpenInv, CalmInv, LoseRun PROVE CalmInv'
<1>1. PICK r \in Runs : gw.act.run = r
  BY DEF LoseRun, OpenInv, ChatInv, Inv, StoreType
<1>2. UNCHANGED <<deskVars, up, sort, faults, down, online, fresh, starts, ends, watch, forcing>>
      /\ gw' = Finish(gw, r)
  BY <1>1 DEF LoseRun, netVars
<1>3. Kept(gw, gw', r)  BY <1>2, FinishKept DEF OpenInv, ChatInv
<1>4. CalmNow => sort[r] # "unused"  BY <1>1 DEF CalmNow, RunInv, UnusedInv, New
<1>5. CalmNow => StillInv'  BY <1>2 DEF CalmNow, StillInv
<1>6. \A q \in Runs : Early(q)' => Early(q)  BY LoseRunTame DEF Tame
<1> QED BY <1>2, <1>3, <1>4, <1>5, <1>6, GateCalm

LEMMA DispatchCalm == ASSUME OpenInv, CalmInv, NEW r \in Runs, Dispatch(r) PROVE CalmInv'
<1> DEFINE c == [run |-> r, cancel |-> FALSE]
<1>1. UNCHANGED <<deskVars, up, sort, faults, online, fresh, starts, ends, forcing>>
  BY DEF Dispatch
<1>2. /\ Inv(gw) /\ Token(r) /\ watch \in [Runs -> {"off", "dispatch", "wait", "late"}]
      /\ down \in Seq(Command)
  BY WireFacts DEF OpenInv, ChatInv, Rest
<1>3. \A q \in Runs : Early(q)' => Early(q)  BY DispatchTame DEF Tame
<1>4. sort[r] # "unused"  BY <1>2 DEF Dispatch, Token
<1>5. Kept(gw, gw', r)
  <2>1. gw' \in {gw, FailCommand(gw, r)}  BY DEF Dispatch
  <2> QED BY <1>2, <2>1, KeptSelf, FailCommandKept DEF Inv
<1>6. CalmNow => StillInv'
  <2> SUFFICES ASSUME CalmNow PROVE StillInv'  OBVIOUS
  <2>1. down' = Append(down, c) /\ watch' = [watch EXCEPT ![r] = "wait"]
    BY DEF Dispatch, Watch, CalmNow, StillInv
  <2>2. c \in Command /\ ~c.cancel  BY DEF Command
  <2> HIDE DEF c
  <2>3. /\ Len(down') = Len(down) + 1 /\ Len(down) \in Nat /\ down'[Len(down) + 1] = c
        /\ \A k \in 1..Len(down) : down'[k] = down[k]
    BY <1>2, <2>1, <2>2, AppendFacts
  <2>4. 1..Len(down') = 1..Len(down) \cup {Len(down) + 1}  BY <2>3
  <2>5. \A k \in 1..Len(down') : ~down'[k].cancel
    BY <2>2, <2>3, <2>4 DEF CalmNow, StillInv
  <2>6. \A q \in Runs : watch'[q] # "late"  BY <1>2, <2>1 DEF CalmNow, StillInv
  <2> QED BY <1>1, <2>5, <2>6 DEF CalmNow, StillInv
<1> QED BY <1>1, <1>3, <1>4, <1>5, <1>6, GateCalm

(* A command is accepted. *)
LEMMA SubmitCalm ==
    ASSUME OpenInv, CalmInv, NEW r \in Runs, NEW draft \in BOOLEAN, Submit(r, draft)
    PROVE  CalmInv'
<1>1. /\ UNCHANGED <<chain, inbox, exec, ledger, unsent, forcing, up, down, online>>
      /\ UNCHANGED <<fresh, starts, ends, faults>>
      /\ sort[r] = "unused" /\ gw' = Accept(gw, r, draft) /\ Watch(r, "dispatch")
  BY DEF Submit, deskVars, netVars
<1>2. sort'[r] # "unused" /\ \A q \in Runs \ {r} : sort'[q] = sort[q]
  BY DEF Submit, OpenInv, ChatInv, Rest
<1>3. Inv(gw) /\ gw \in StoreType  BY DEF OpenInv, ChatInv, Inv
<1> SUFFICES ASSUME Calm PROVE StillInv' /\ \A q \in Runs : RunInv(q)'
  BY <1>1 DEF CalmInv, Calm
<1>5. StillInv /\ RunInv(r)  BY DEF CalmInv
<1>6. StillInv'
  <2>1. \A q \in Runs : watch'[q] # "late"
    BY <1>1, <1>5 DEF Watch, OpenInv, ChatInv, Rest, StillInv
  <2> QED BY <1>1, <1>5, <2>1 DEF StillInv
<1> SUFFICES ASSUME NEW q \in Runs PROVE RunInv(q)'  BY <1>6
<1>7. RunInv(q)  BY DEF CalmInv
<1>8. New(gw, r) /\ exec[r] = "none" /\ NotOf(up, r) /\ NotOf(chain, r)
  BY <1>1, <1>5 DEF RunInv, UnusedInv
<1>9. Spared(gw, gw', r) /\ (PushedOut(gw', r) \/ Free(gw', r))
  BY <1>1, <1>3, <1>8, AcceptKept
<1>10. /\ PushedOut(gw, q) => PushedOut(gw', q)
       /\ q # r => /\ PushedOut(gw', q) \/ Keeps(gw, gw', q)
                   /\ New(gw, q) => New(gw', q)
  BY <1>9 DEF Spared, Others, Longer
<1>12. Unsaid(q)' <=> Unsaid(q)  BY <1>1 DEF Unsaid
<1>13. PushedOut(gw', q) \/ ShownInv(q)'
  <2> SUFFICES ASSUME ~PushedOut(gw', q), ShownInv(q) PROVE ShownInv(q)'
    BY <1>7, <1>10 DEF RunInv
  <2>1. CASE q = r
    <3>1. One(gw', r) /\ Free(gw', r)  BY <1>9, <2>1 DEF Spared
    <3>2. Led(up, r) /\ NoEcho(chain, r)  BY <1>8 DEF NotOf, Led, NoEcho, Echo
    <3>3. FirstStart(r)'  BY <1>1, <1>8, <3>2 DEF FirstStart
    <3> QED BY <2>1, <3>1, <3>3 DEF ShownInv
  <2>2. CASE q # r
    <3>1. Keeps(gw, gw', q)  BY <1>10, <2>2
    <3>2. One(gw, q)'  BY <3>1 DEF Keeps, ShownInv
    <3>3. (Owing(q) => Free(gw, q))'  BY <1>1, <1>12, <3>1 DEF Keeps, ShownInv, Owing
    <3>4. FirstStart(q)'  BY <1>1, <3>1 DEF Keeps, ShownInv, FirstStart
    <3> QED BY <3>2, <3>3, <3>4 DEF ShownInv
  <2> QED BY <2>1, <2>2
<1>14. EchoInv(q)'  BY <1>1, <1>7, <1>12 DEF RunInv, EchoInv
<1>16. OnceInv(q)'
  <2>1. Early(q)' => Early(q)  BY SubmitTame DEF Tame
  <2> QED BY <1>1, <1>7, <2>1 DEF RunInv, OnceInv
<1>17. UnusedInv(q)'
  <2>1. CASE q = r  BY <1>2, <2>1 DEF UnusedInv
  <2>2. CASE q # r  BY <1>1, <1>2, <1>7, <1>10, <2>2 DEF RunInv, UnusedInv
  <2> QED BY <2>1, <2>2
<1> QED BY <1>13, <1>14, <1>16, <1>17 DEF RunInv

-----------------------------------------------------------------------------
(* A fault ends the calm; a new stream, and what it replays, follow one. *)
LEMMA FaultCalm ==
    ASSUME OpenInv, Fault PROVE CalmInv'
BY DEF Fault, Calm, CalmInv, OpenInv, ChatInv, Rest

LEMMA StreamCalm ==
    ASSUME OpenInv, CalmInv, Reconnect \/ Reconcile \/ \E r \in Runs : Replay(r)
    PROVE  CalmInv'
<1>1. UNCHANGED <<gw, faults>>  BY DEF Reconnect, Reconcile, Replay, gateVars
<1>2. ~StillInv  BY DEF Reconnect, Reconcile, Replay, StillInv
<1> QED BY <1>1, <1>2 DEF CalmInv, Calm

LEMMA CalmInit == Init => CalmInv
<1> SUFFICES ASSUME Init PROVE CalmInv  OBVIOUS
<1>1. /\ gw = EmptyStore /\ chain = <<>> /\ up = <<>> /\ down = <<>> /\ online /\ ~fresh
      /\ starts = {} /\ ends = {} /\ forcing = {} /\ unsent = {}
      /\ \A r \in Runs : /\ watch[r] = "off" /\ exec[r] = "none" /\ inbox[r] = "none"
                         /\ ledger[r] = "none"
  BY DEF Init, StoreInit
<1>2. StillInv  BY <1>1 DEF StillInv
<1>3. ASSUME NEW r \in Runs PROVE RunInv(r)
  <2>1. /\ EmptyStore.log = <<>> /\ EmptyStore.pending = {} /\ EmptyStore.act.run = None
        /\ ~EmptyStore.rec[r].seeded /\ ~EmptyStore.rec[r].deferred
    BY DEF EmptyStore, NoRecord, Idle
  <2>2. \A kind : Count(EmptyStore, kind, r) = 0
    <3>1. \A w : {i \in DOMAIN <<>> : <<>>[i] = w} = {}  OBVIOUS
    <3> QED BY <2>1, <3>1, FS_EmptySet DEF Count
  <2>3. Net(EmptyStore, r) = 0  BY <2>2 DEF Net
  <2>4. New(gw, r) /\ One(gw, r) /\ Free(gw, r) /\ Clear(gw, r)
    BY <1>1, <2>1, <2>3, NoneAssumption DEF New, One, Free, Clear
  <2>5. NoEcho(up, r) /\ NoEcho(chain, r) /\ NotOf(up, r) /\ NotOf(chain, r)
        /\ OneEcho(up, r) /\ OneEcho(chain, r)
    BY <1>1 DEF NoEcho, NotOf, OneEcho
  <2>6. EchoInv(r) /\ FirstStart(r) /\ OnceInv(r) /\ UnusedInv(r)
    BY <1>1, <2>4, <2>5 DEF EchoInv, FirstStart, OnceInv, UnusedInv
  <2> QED BY <2>4, <2>6 DEF RunInv, ShownInv
<1> QED BY <1>2, <1>3 DEF CalmInv

LEMMA CalmStep == OpenInv /\ CalmInv /\ [Next]_vars => CalmInv'
<1> SUFFICES ASSUME OpenInv, CalmInv, [Next]_vars PROVE CalmInv'  OBVIOUS
<1>1. ASSUME NEW r \in Runs, \E draft \in BOOLEAN : Submit(r, draft) PROVE CalmInv'
  BY <1>1, SubmitCalm
<1>2. ASSUME NEW r \in Runs,
             Dispatch(r) \/ CheckStartup(r) \/ FailStartup(r) \/ ForceCancel(r) \/ Replay(r)
             \/ Sweep(r) \/ Age(r) \/ FlushEnd(r)
      PROVE  CalmInv'
  BY <1>2, DispatchCalm, WatchCalm, StreamCalm, SweepCalm, AgeCalm, FlushEndCalm
<1>3. ASSUME NEW r \in Runs,
             Claim(r) \/ Release(r) \/ Expire(r) \/ ParkInGUI(r) \/ Reject(r) \/ StartRun(r)
             \/ RemoveParked(r) \/ StartLocal(r) \/ Emit(r) \/ Complete(r)
      PROVE  CalmInv'
  BY <1>3, InboxCalm, StartRunCalm, StartLocalCalm, EmitCalm
<1>4. Cancel \/ Disconnect \/ RestartGateway \/ Reload \/ RestartDesktop => CalmInv'
  BY FaultCalm DEF Cancel, Disconnect, RestartGateway, Reload, RestartDesktop
<1>5. LoseRun \/ Deliver \/ Reconnect \/ Reconcile \/ Receive \/ SendEvent => CalmInv'
  BY LoseRunCalm, DeliverCalm, StreamCalm, ReceiveCalm, SendEventCalm
<1>6. UNCHANGED vars => CalmInv'
  BY DEF vars, gateVars, deskVars, netVars, CalmInv, Calm, StillInv, RunInv, ShownInv, Owing, EchoInv,
         FirstStart, OnceInv, UnusedInv, Unsaid, Early
<1> QED BY <1>1, <1>2, <1>3, <1>4, <1>5, <1>6 DEF Next

(* "The message appears exactly once", unless something fails: as long as  *)
(* the ring remembers a run, its record, with the mark that the message was *)
(* shown, outlives every message that the desktop still sends of it.       *)
THEOREM MessageOnceIfCalmThm == Spec => []MessageOnceIfCalm
<1>1. CalmInv => MessageOnceIfCalm
  <2> SUFFICES ASSUME CalmInv, faults = 0, NEW r \in Runs
               PROVE  PushedOut(gw, r) \/ Shown(r) \in 0..1
    BY DEF MessageOnceIfCalm
  <2>1. Shown(r) = Net(gw, r)  BY Zenon DEF Shown, Net, Count
  <2> QED BY <2>1 DEF CalmInv, Calm, RunInv, ShownInv, One
<1> QED BY <1>1, OpenInit, OpenStep, CalmInit, CalmStep, PTL DEF Spec
=============================================================================
