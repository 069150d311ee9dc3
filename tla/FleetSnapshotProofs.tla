------------------------- MODULE FleetSnapshotProofs -------------------------
(***************************************************************************)
(* FleetSnapshot implements FleetView, for any number of gateways, tabs,   *)
(* changes and faults, checked by TLAPS.                                   *)
(***************************************************************************)
EXTENDS FleetSnapshot, TLAPS

(***************************************************************************)
(* The inductive invariant.                                                *)
(***************************************************************************)
Typed ==
  /\ truth \in [Gateways -> Versions]
  /\ snapshot \in [Gateways -> Known]
  /\ sweep \in [Gateways -> Call]
  /\ read \in [Gateways -> Call]

\* No answer on its way, and nothing published, is ahead of its gateway.
Held ==
  \A g \in Gateways :
    snapshot[g] <= truth[g] /\ sweep[g] <= truth[g] /\ read[g] <= truth[g]

\* A sweep asks every gateway.
Whole == Sweeping => \A g \in Gateways : sweep[g] # Idle

IInv == Typed /\ Held /\ Whole

USE FleetAssumption DEF Nothing, Asked, Idle

LEMMA InitIInv == Init => IInv
  BY DEF Init, IInv, Typed, Held, Whole, Versions, Known, Call

(***************************************************************************)
(* What the calls give and what is made of it.                             *)
(***************************************************************************)
\* The store's part of a step: the gateways stand or change, the calls under
\* way are the old ones, new ones, or answered by what their gateway holds.
CallsOf(calls, next) ==
  \A g \in Gateways :
    next[g] \in {calls[g], Asked, Idle, Nothing, truth[g]}

\* The published picture after a step.
Shows(snap) ==
  \A g \in Gateways : snap[g] = snapshot[g] \/ snap[g] \in 0..truth[g]

\* A step that keeps its sweep whole, and publishes what was held, keeps the
\* invariant.
LEMMA StoreStep ==
  ASSUME IInv,
         UNCHANGED truth,
         snapshot' \in [Gateways -> Known], Shows(snapshot'),
         sweep' \in [Gateways -> Call], CallsOf(sweep, sweep'),
         read' \in [Gateways -> Call], CallsOf(read, read'),
         Whole'
  PROVE  IInv'
<1>1. Typed'
  BY DEF IInv, Typed
<1>2. ASSUME NEW g \in Gateways
      PROVE  snapshot'[g] <= truth'[g] /\ sweep'[g] <= truth'[g] /\ read'[g] <= truth'[g]
  <2>1. /\ truth[g] \in Nat /\ truth'[g] = truth[g] /\ snapshot[g] <= truth[g]
        /\ sweep[g] <= truth[g] /\ read[g] <= truth[g]
    BY DEF IInv, Typed, Held, Versions
  <2>2. snapshot'[g] <= truth[g]
    BY <2>1 DEF Shows
  <2>3. sweep'[g] <= truth[g] /\ read'[g] <= truth[g]
    BY <2>1 DEF CallsOf
  <2> QED BY <2>1, <2>2, <2>3
<1> QED BY <1>1, <1>2 DEF IInv, Held

LEMMA SameCalls ==
  ASSUME NEW calls
  PROVE  CallsOf(calls, calls)
  BY DEF CallsOf

LEMMA SameView == Shows(snapshot)
  BY DEF Shows

\* An answer of a call under way.
LEMMA AnswerFact ==
  ASSUME NEW calls \in [Gateways -> Call], Typed, NEW g \in Gateways, NEW v \in Known,
         TryCall(g, v)
  PROVE  /\ [calls EXCEPT ![g] = v] \in [Gateways -> Call]
         /\ CallsOf(calls, [calls EXCEPT ![g] = v])
<1>1. v \in {Nothing, truth[g]} /\ v \in Call
  BY DEF TryCall, NoAnswer, Call
<1> QED BY <1>1 DEF CallsOf

LEMMA RefreshedFact ==
  ASSUME Typed, Whole
  PROVE  /\ Refreshed \in [Gateways -> Call] /\ CallsOf(sweep, Refreshed)
         /\ \A g \in Gateways : Refreshed[g] # Idle
  BY DEF Refreshed, Typed, Call, CallsOf, Whole

\* What was fetched replaces what is shown, unless it is an empty answer.
LEMMA MergeFact ==
  ASSUME Typed, Held, NEW g \in Gateways, NEW v \in Call \ {Asked, Idle}, v <= truth[g]
  PROVE  /\ MergeWithPrevious(g, v) \in Known
         /\ MergeWithPrevious(g, v) = snapshot[g] \/ MergeWithPrevious(g, v) \in 0..truth[g]
<1>1. v \in Known /\ snapshot[g] \in Known /\ truth[g] \in Versions
  BY DEF Typed, Call
<1>2. CASE v = Nothing
  BY <1>1, <1>2 DEF MergeWithPrevious
<1>3. CASE v # Nothing
  <2>1. v \in 0..truth[g]
    BY <1>1, <1>3 DEF Known, Versions
  <2> QED BY <1>1, <1>3, <2>1 DEF MergeWithPrevious
<1> QED BY <1>2, <1>3

(***************************************************************************)
(* Steps.  Each keeps the invariant, and is a step of FleetView or none.   *)
(***************************************************************************)
Good == IInv' /\ [View!Next]_(View!vars)

\* A step that changes no gateway.
LEMMA GoodStore ==
  ASSUME IInv,
         UNCHANGED truth,
         snapshot' \in [Gateways -> Known], Shows(snapshot'),
         sweep' \in [Gateways -> Call], CallsOf(sweep, sweep'),
         read' \in [Gateways -> Call], CallsOf(read, read'),
         Whole'
  PROVE  Good
<1>1. IInv'
  BY StoreStep
<1>2. View!Publish
  <2>1. snapshot' \in [Gateways -> View!Versions \cup {View!Nothing}]
    BY DEF Known, Versions, View!Versions, View!Nothing
  <2> QED BY <2>1 DEF Shows, View!Publish
<1> QED BY <1>1, <1>2 DEF Good, View!Next

\* A step of a tab, an event or a failure that leaves the calls alone.
LEMMA GoodQuiet ==
  ASSUME IInv, UNCHANGED <<truth, snapshot, sweep, read>>
  PROVE  Good
<1>1. Typed /\ Whole
  BY DEF IInv
<1>2. Whole'
  BY <1>1 DEF Whole, Sweeping
<1> QED BY <1>1, <1>2, GoodStore, SameCalls, SameView DEF Typed

\* A gateway changes.
LEMMA GoodChange ==
  ASSUME IInv, NEW g \in Gateways, Changed(g), UNCHANGED <<snapshot, sweep, read>>
  PROVE  Good
<1>1. Typed /\ Held /\ Whole
  BY DEF IInv
<1>2. truth[g] \in Nat /\ truth[g] < MaxVersion /\ truth' = [truth EXCEPT ![g] = truth[g] + 1]
  BY <1>1 DEF Changed, Typed, Versions
<1>3. Typed'
  BY <1>1, <1>2 DEF Typed, Versions
<1>4. ASSUME NEW h \in Gateways
      PROVE  snapshot'[h] <= truth'[h] /\ sweep'[h] <= truth'[h] /\ read'[h] <= truth'[h]
  <2>1. /\ truth[h] \in Nat /\ truth'[h] \in Nat /\ truth[h] <= truth'[h]
    BY <1>1, <1>2 DEF Typed, Versions
  <2>2. /\ snapshot[h] \in Int /\ sweep[h] \in Int /\ read[h] \in Int
    BY <1>1 DEF Typed, Known, Call, Versions
  <2>3. snapshot[h] <= truth[h] /\ sweep[h] <= truth[h] /\ read[h] <= truth[h]
    BY <1>1 DEF Held
  <2> QED BY <2>1, <2>2, <2>3
<1>5. Whole'
  BY <1>1 DEF Whole, Sweeping
<1>6. View!Change(g)
  BY <1>2 DEF View!Change
<1> QED BY <1>3, <1>4, <1>5, <1>6 DEF Good, IInv, Held, View!Next

LEMMA GoodSweepCall ==
  ASSUME IInv, NEW g \in Gateways, SweepCall(g)
  PROVE  Good
<1>1. Typed /\ Whole
  BY DEF IInv
<1>2. PICK v \in Known : TryCall(g, v) /\ sweep' = [sweep EXCEPT ![g] = v]
  BY DEF SweepCall
<1>3. sweep' \in [Gateways -> Call] /\ CallsOf(sweep, sweep')
  BY <1>1, <1>2, AnswerFact DEF Typed
<1>4. sweep[g] = Asked /\ UNCHANGED <<truth, snapshot, read>>
  BY DEF SweepCall, gatewayVars
<1>5. \A h \in Gateways : sweep'[h] # Idle
  <2>1. v # Idle
    BY DEF Known, Versions
  <2>2. \A h \in Gateways : sweep[h] # Idle
    BY <1>1, <1>4 DEF Whole, Sweeping
  <2> QED BY <1>1, <1>2, <2>1, <2>2 DEF Typed
<1> QED BY <1>1, <1>3, <1>4, <1>5, GoodStore, SameCalls, SameView DEF Typed, Whole

LEMMA GoodReadCall ==
  ASSUME IInv, NEW g \in Gateways, ReadCall(g)
  PROVE  Good
<1>1. Typed /\ Whole
  BY DEF IInv
<1>2. PICK v \in Known : TryCall(g, v) /\ read' = [read EXCEPT ![g] = v]
  BY DEF ReadCall
<1>3. read' \in [Gateways -> Call] /\ CallsOf(read, read')
  BY <1>1, <1>2, AnswerFact DEF Typed
<1>4. UNCHANGED <<truth, snapshot, sweep>>
  BY DEF ReadCall, gatewayVars
<1>5. Whole'
  BY <1>1, <1>4 DEF Whole, Sweeping
<1> QED BY <1>1, <1>3, <1>4, <1>5, GoodStore, SameCalls, SameView DEF Typed

\* The sweep lands: with every answer, or failed.
LEMMA GoodSweepLands ==
  ASSUME IInv, NEW ok \in BOOLEAN, SweepLands(ok)
  PROVE  Good
<1>1. Typed /\ Held /\ Whole
  BY DEF IInv
<1>2. UNCHANGED <<truth, read>> /\ sweep' = [g \in Gateways |-> Idle]
  BY DEF SweepLands, gatewayVars
<1>3. /\ sweep' \in [Gateways -> Call] /\ CallsOf(sweep, sweep') /\ Whole'
  BY <1>2 DEF Call, CallsOf, Whole, Sweeping
<1>4. snapshot' \in [Gateways -> Known] /\ Shows(snapshot')
  <2>1. CASE ok
    <3>1. snapshot' = [g \in Gateways |-> MergeWithPrevious(g, sweep[g])]
      BY <2>1 DEF SweepLands, Publish
    <3>2. \A g \in Gateways : sweep[g] \in Call \ {Asked, Idle} /\ sweep[g] <= truth[g]
      BY <1>1, <2>1 DEF SweepLands, Typed, Held, Whole
    <3> QED BY <1>1, <3>1, <3>2, MergeFact DEF Shows
  <2>2. CASE ~ok
    <3>1. snapshot' = snapshot
      BY <2>2 DEF SweepLands, Publish
    <3> QED BY <1>1, <3>1, SameView DEF Typed
  <2> QED BY <2>1, <2>2
<1> QED BY <1>1, <1>2, <1>3, <1>4, GoodStore, SameCalls DEF Typed

\* The refresh of one gateway lands.
LEMMA GoodReadLands ==
  ASSUME IInv, NEW g \in Gateways, ReadLands(g)
  PROVE  Good
<1>1. Typed /\ Held /\ Whole
  BY DEF IInv
<1>2. /\ UNCHANGED <<truth, sweep>> /\ read' = [read EXCEPT ![g] = Idle]
      /\ read[g] \in Call \ {Asked, Idle} /\ read[g] <= truth[g]
  BY <1>1 DEF ReadLands, gatewayVars, Typed, Held
<1>3. /\ read' \in [Gateways -> Call] /\ CallsOf(read, read') /\ Whole'
  BY <1>1, <1>2 DEF Typed, Call, CallsOf, Whole, Sweeping
<1>4. snapshot' \in [Gateways -> Known] /\ Shows(snapshot')
  <2>1. CASE warm
    <3>1. snapshot' = [snapshot EXCEPT ![g] = MergeWithPrevious(g, read[g])]
      BY <2>1 DEF ReadLands, Publish
    <3>2. /\ MergeWithPrevious(g, read[g]) \in Known
          /\ \/ MergeWithPrevious(g, read[g]) = snapshot[g]
             \/ MergeWithPrevious(g, read[g]) \in 0..truth[g]
      BY <1>1, <1>2, MergeFact
    <3> QED BY <1>1, <3>1, <3>2 DEF Shows, Typed
  <2>2. CASE ~warm
    <3>1. snapshot' = snapshot
      BY <2>2 DEF ReadLands
    <3> QED BY <1>1, <3>1, SameView DEF Typed
  <2> QED BY <2>1, <2>2
<1> QED BY <1>1, <1>2, <1>3, <1>4, GoodStore, SameCalls DEF Typed

\* A sweep is started or joined.
LEMMA GoodRefresh ==
  ASSUME IInv, sweep' = Refreshed, UNCHANGED <<truth, snapshot, read>>
  PROVE  Good
<1>1. Typed /\ Whole
  BY DEF IInv
<1>2. /\ sweep' \in [Gateways -> Call] /\ CallsOf(sweep, sweep')
      /\ \A g \in Gateways : sweep'[g] # Idle
  BY <1>1, RefreshedFact
<1> QED BY <1>1, <1>2, GoodStore, SameCalls, SameView DEF Typed, Whole

LEMMA GoodTouchFires ==
  ASSUME IInv, NEW g \in Gateways, TouchFires(g)
  PROVE  Good
<1>1. Typed /\ Whole
  BY DEF IInv
<1>2. /\ UNCHANGED <<truth, snapshot, sweep>>
      /\ read' = [read EXCEPT ![g] = IF @ = Idle THEN Asked ELSE @]
  BY DEF TouchFires, gatewayVars
<1>3. /\ read' \in [Gateways -> Call] /\ CallsOf(read, read') /\ Whole'
  BY <1>1, <1>2 DEF Typed, Call, CallsOf, Whole, Sweeping
<1> QED BY <1>1, <1>2, <1>3, GoodStore, SameCalls, SameView DEF Typed

LEMMA StepIsGood == IInv /\ [Next]_vars => Good
<1> SUFFICES ASSUME IInv, [Next]_vars PROVE Good
  OBVIOUS
<1> USE DEF gatewayVars, storeVars
<1>1. CASE SweepStep
  <2>1. ASSUME NEW g \in Gateways, SweepCall(g) PROVE Good
    BY <2>1, GoodSweepCall
  <2>2. CASE SweepLands(TRUE)
    BY <2>2, GoodSweepLands
  <2>3. CASE TimerFires
    BY <2>3, GoodRefresh DEF TimerFires
  <2> QED BY <1>1, <2>1, <2>2, <2>3 DEF SweepStep
<1>2. CASE SweepLands(FALSE)
  BY <1>2, GoodSweepLands
<1>3. CASE Environment
  <2>1. ASSUME NEW g \in Gateways, Event(g) \/ LostEvent(g) PROVE Good
    BY <2>1, GoodQuiet DEF Event, LostEvent
  <2>2. ASSUME NEW g \in Gateways, Change(g) \/ CronRoute(g) \/ Resolve(g) PROVE Good
    BY <2>2, GoodChange DEF Change, CronRoute, SetEnabled, RunNow, Resolve
  <2>3. ASSUME NEW c \in Tabs, Breaks(c) PROVE Good
    BY <2>3, GoodQuiet DEF Breaks
  <2>4. CASE Stop
    BY <2>4, GoodQuiet DEF Stop
  <2> QED BY <1>3, <2>1, <2>2, <2>3, <2>4 DEF Environment
<1>4. ASSUME NEW g \in Gateways, ReadStep(g) PROVE Good
  BY <1>4, GoodTouchFires, GoodReadCall, GoodReadLands DEF ReadStep
<1>5. ASSUME NEW g \in Gateways, Resolved(g) PROVE Good
  <2>1. UNCHANGED <<truth, snapshot, read>> /\ (sweep' = Refreshed \/ UNCHANGED sweep)
    BY <1>5 DEF Resolved
  <2> QED BY <2>1, GoodRefresh, GoodQuiet
<1>6. ASSUME NEW c \in Tabs, StreamStep(c) PROVE Good
  BY <1>6, GoodQuiet DEF StreamStep, Open, Subscribe, WriteFrame
<1>7. ASSUME NEW c \in Tabs, PollStep(c) \/ Dashboard(c) PROVE Good
  BY <1>7, GoodQuiet DEF PollStep, Poll, PollLands, Dashboard
<1>8. CASE UNCHANGED vars
  BY <1>8, GoodQuiet DEF vars
<1> QED BY <1>1, <1>2, <1>3, <1>4, <1>5, <1>6, <1>7, <1>8 DEF Next

(***************************************************************************)
(* The rest of the store, and the browser                                  *)
(***************************************************************************)
Pictures == [Gateways -> Known] \cup {None}

\* Nothing a tab was sent, shows or waits for is ahead of the gateways.
Past(v, now) ==
  v \in [Tabs -> Pictures] /\ \A c \in Tabs, g \in Gateways : v[c][g] <= now[g]
TabsOK ==
  /\ Past(queue, truth) /\ Past(last, truth) /\ Past(list, truth)
  /\ Past(poll, truth) /\ Past(board, truth)

RestOK ==
  /\ heard \in [Gateways -> Versions]
  /\ changes \in 0..MaxChanges /\ faults \in 0..MaxFaults
  /\ warm \in BOOLEAN /\ timer \in BOOLEAN /\ stopped \in BOOLEAN
  /\ touch \in [Gateways -> BOOLEAN] /\ resolving \subseteq Gateways
  /\ stream \in [Tabs -> {"closed", "opening", "open"}] /\ renew \in [Tabs -> BOOLEAN]

LEMMA TypeFact == Typed /\ RestOK /\ TabsOK => TypeOK
  BY DEF Typed, RestOK, TabsOK, Past, Pictures, TypeOK

\* Fits: a picture as old as the gateways, or older.
Fits(snap, now) == snap \in Pictures /\ \A g \in Gateways : snap[g] <= now[g]

LEMMA SnapshotFits == ASSUME IInv PROVE Fits(snapshot, truth)
  BY DEF IInv, Typed, Held, Fits, Pictures

LEMMA NoneFits == ASSUME Typed PROVE Fits(None, truth)
  BY DEF Typed, Versions, Fits, Pictures, None

LEMMA PastFits ==
  ASSUME NEW v, NEW now, Past(v, now), NEW c \in Tabs PROVE Fits(v[c], now)
  BY DEF Past, Fits

LEMMA PastPut ==
  ASSUME NEW v, NEW now, Past(v, now), NEW c \in Tabs, NEW snap, Fits(snap, now)
  PROVE  Past([v EXCEPT ![c] = snap], now)
  BY DEF Past, Fits

LEMMA PastGrows ==
  ASSUME NEW v, NEW now \in [Gateways -> Versions], NEW next \in [Gateways -> Versions],
         Past(v, now), \A g \in Gateways : now[g] <= next[g]
  PROVE  Past(v, next)
<1> SUFFICES ASSUME NEW c \in Tabs, NEW g \in Gateways PROVE v[c][g] <= next[g]
  BY DEF Past
<1>1. v[c] \in Pictures /\ v[c][g] <= now[g] /\ now[g] <= next[g]
  BY DEF Past
<1>2. v[c][g] \in Int /\ now[g] \in Int /\ next[g] \in Int
  BY <1>1 DEF Pictures, None, Known, Versions
<1> QED BY <1>1, <1>2

LEMMA FramePast ==
  ASSUME TabsOK, UNCHANGED truth, NEW c \in Tabs, NEW snap, Frame(c, snap),
         Fits(snap, truth), Typed
  PROVE  Past(last, truth)' /\ Past(list, truth)' /\ Past(poll, truth)'
<1>1. Past(last', truth)
  BY PastPut DEF Frame, TabsOK
<1>2. Past(list', truth)
  BY PastPut DEF Frame, TabsOK
<1>3. Past(poll', truth)
  BY PastPut, NoneFits DEF Frame, TabsOK
<1> QED BY <1>1, <1>2, <1>3

LEMMA EmitPast ==
  ASSUME TabsOK, UNCHANGED truth, NEW snap, Emit(snap), Fits(snap, truth)
  PROVE  Past(queue, truth)'
<1>1. queue' = [c \in Tabs |-> IF stream[c] = "open" THEN snap ELSE queue[c]]
  BY DEF Emit
<1>2. Past(queue', truth)
  BY <1>1 DEF TabsOK, Past, Fits
<1> QED BY <1>2

LEMMA FaultFact == RestOK /\ Fault => faults' \in 0..MaxFaults
  BY DEF RestOK, Fault

LEMMA RestStep ==
  ASSUME IInv, RestOK, [Next]_vars
  PROVE  RestOK'
<1> USE DEF IInv, Typed, RestOK, gatewayVars, storeVars, tabVars
<1>1. ASSUME NEW g \in Gateways, SweepCall(g) \/ ReadCall(g) \/ ReadLands(g) \/ TouchFires(g)
      PROVE  RestOK'
  BY <1>1, FaultFact DEF SweepCall, ReadCall, ReadLands, TouchFires, TryCall, NoAnswer, Publish
<1>2. ASSUME NEW ok \in BOOLEAN, SweepLands(ok) PROVE RestOK'
  <2>1. timer' \in BOOLEAN /\ faults' \in 0..MaxFaults
    BY <1>2, FaultFact DEF SweepLands, ScheduleNext
  <2> QED BY <1>2, <2>1 DEF SweepLands, Publish
<1>3. CASE TimerFires \/ Stop
  BY <1>3 DEF TimerFires, Stop
<1>4. ASSUME NEW g \in Gateways, Event(g) \/ LostEvent(g) PROVE RestOK'
  <2>1. heard' = [heard EXCEPT ![g] = heard[g] + 1] /\ heard[g] + 1 \in Versions
    BY <1>4 DEF Event, LostEvent, Versions
  <2>2. heard' \in [Gateways -> Versions]
    BY <2>1
  <2> QED BY <1>4, <2>2, FaultFact DEF Event, LostEvent
<1>5. ASSUME NEW g \in Gateways, Change(g) \/ CronRoute(g) \/ Resolve(g) PROVE RestOK'
  BY <1>5 DEF Change, CronRoute, SetEnabled, RunNow, Resolve, Changed
<1>6. ASSUME NEW g \in Gateways, Resolved(g) PROVE RestOK'
  BY <1>6, FaultFact DEF Resolved
<1>7. ASSUME NEW c \in Tabs, StreamStep(c) PROVE RestOK'
  BY <1>7 DEF StreamStep, Open, Subscribe, WriteFrame, Frame
<1>8. ASSUME NEW c \in Tabs, Breaks(c) \/ PollStep(c) \/ Dashboard(c) PROVE RestOK'
  BY <1>8, FaultFact DEF Breaks, PollStep, Poll, PollLands, Dashboard
<1>9. CASE UNCHANGED vars
  BY <1>9 DEF vars
<1> QED BY <1>1, <1>2, <1>3, <1>4, <1>5, <1>6, <1>7, <1>8, <1>9
        DEF Next, SweepStep, Environment, ReadStep

LEMMA TabsStep ==
  ASSUME IInv, IInv', TabsOK, [Next]_vars
  PROVE  TabsOK'
<1> USE DEF gatewayVars, storeVars, tabVars
<1>0. Typed /\ Fits(snapshot, truth) /\ Fits(None, truth)
  BY SnapshotFits, NoneFits DEF IInv
<1>1. ASSUME UNCHANGED <<truth, queue, last, list, poll, board>> PROVE TabsOK'
  BY <1>1 DEF TabsOK
<1>2. ASSUME UNCHANGED <<truth, last, list, poll, board>>, Publish(snapshot') PROVE TabsOK'
  <2>1. Fits(snapshot, truth)'
    BY SnapshotFits, PTL
  <2>2. Past(queue, truth)'
    BY <1>2, <2>1, EmitPast DEF Publish
  <2> QED BY <1>2, <2>2 DEF TabsOK
<1>3. ASSUME NEW g \in Gateways, SweepCall(g) \/ ReadCall(g) \/ TouchFires(g) \/ Event(g)
                \/ LostEvent(g) \/ Resolved(g)
      PROVE  TabsOK'
  BY <1>1, <1>3 DEF SweepCall, ReadCall, TouchFires, Event, LostEvent, Resolved
<1>4. CASE TimerFires \/ Stop \/ UNCHANGED vars
  BY <1>1, <1>4 DEF TimerFires, Stop, vars
<1>5. ASSUME NEW ok \in BOOLEAN, SweepLands(ok) PROVE TabsOK'
  BY <1>2, <1>5 DEF SweepLands, Publish
<1>6. ASSUME NEW g \in Gateways, ReadLands(g) PROVE TabsOK'
  BY <1>1, <1>2, <1>6 DEF ReadLands, Publish
<1>7. ASSUME NEW g \in Gateways, Change(g) \/ CronRoute(g) \/ Resolve(g) PROVE TabsOK'
  <2>1. UNCHANGED <<queue, last, list, poll, board>> /\ truth' = [truth EXCEPT ![g] = @ + 1]
    BY <1>7 DEF Change, CronRoute, SetEnabled, RunNow, Resolve, Changed
  <2>2. truth \in [Gateways -> Versions] /\ truth' \in [Gateways -> Versions]
    BY DEF IInv, Typed
  <2>3. \A h \in Gateways : truth[h] <= truth'[h]
    BY <2>1, <2>2 DEF Versions
  <2> QED BY <2>1, <2>2, <2>3, PastGrows DEF TabsOK
<1>8. ASSUME NEW c \in Tabs, Open(c) \/ Subscribe(c) PROVE TabsOK'
  BY <1>0, <1>8, FramePast DEF Open, Subscribe, TabsOK
<1>9. ASSUME NEW c \in Tabs, WriteFrame(c) PROVE TabsOK'
  <2>1. Fits(queue[c], truth)
    BY PastFits DEF TabsOK
  <2>2. Past(last, truth)' /\ Past(list, truth)' /\ Past(poll, truth)'
    BY <1>0, <1>9, <2>1, FramePast DEF WriteFrame
  <2>3. Past(queue', truth)
    BY <1>0, <1>9, PastPut DEF WriteFrame, TabsOK
  <2> QED BY <1>9, <2>2, <2>3 DEF WriteFrame, TabsOK
<1>10. ASSUME NEW c \in Tabs, Breaks(c) PROVE TabsOK'
  <2>1. Past(queue', truth)
    BY <1>0, <1>10, PastPut DEF Breaks, TabsOK
  <2> QED BY <1>10, <2>1 DEF Breaks, TabsOK
<1>11. ASSUME NEW c \in Tabs, PollStep(c) PROVE TabsOK'
  <2>1. CASE Poll(c)
    <3>1. Past(poll', truth)
      BY <1>0, <2>1, PastPut DEF Poll, TabsOK
    <3> QED BY <2>1, <3>1 DEF Poll, TabsOK
  <2>2. CASE PollLands(c)
    <3>1. Fits(poll[c], truth)
      BY PastFits DEF TabsOK
    <3>2. Past(list', truth) /\ Past(poll', truth)
      BY <1>0, <2>2, <3>1, PastPut DEF PollLands, TabsOK
    <3> QED BY <2>2, <3>2 DEF PollLands, TabsOK
  <2> QED BY <1>11, <2>1, <2>2 DEF PollStep
<1>12. ASSUME NEW c \in Tabs, Dashboard(c) PROVE TabsOK'
  <2>1. Past(board', truth)
    BY <1>0, <1>12, PastPut DEF Dashboard, TabsOK
  <2> QED BY <1>12, <2>1 DEF Dashboard, TabsOK
<1> QED BY <1>3, <1>4, <1>5, <1>6, <1>7, <1>8, <1>9, <1>10, <1>11, <1>12
        DEF Next, SweepStep, Environment, ReadStep, StreamStep

LEMMA TabsAlways == Spec => [](IInv /\ RestOK /\ TabsOK)
<1>1. Init => IInv /\ RestOK
  <2> SUFFICES ASSUME Init PROVE RestOK
    BY InitIInv
  <2>1. 0 \in Versions /\ 0 \in 0..MaxChanges /\ 0 \in 0..MaxFaults
    BY DEF Versions
  <2>2. heard \in [Gateways -> Versions] /\ changes \in 0..MaxChanges /\ faults \in 0..MaxFaults
    BY <2>1, Zenon DEF Init
  <2>3. /\ warm \in BOOLEAN /\ timer \in BOOLEAN /\ stopped \in BOOLEAN
        /\ touch \in [Gateways -> BOOLEAN] /\ resolving \subseteq Gateways
        /\ stream \in [Tabs -> {"closed", "opening", "open"}] /\ renew \in [Tabs -> BOOLEAN]
    BY Zenon DEF Init
  <2> QED BY <2>2, <2>3 DEF RestOK
<1>2. Init => TabsOK
  <2> SUFFICES ASSUME Init PROVE TabsOK
    OBVIOUS
  <2>1. Typed
    BY InitIInv DEF IInv
  <2>2. Past([c \in Tabs |-> None], truth)
    BY <2>1, NoneFits DEF Past, Fits
  <2> QED BY <2>2 DEF Init, TabsOK
<1>3. IInv /\ [Next]_vars => IInv'
  BY StepIsGood DEF Good
<1> QED BY <1>1, <1>2, <1>3, RestStep, TabsStep, PTL DEF Spec

(***************************************************************************)
(* Theorems                                                                *)
(***************************************************************************)
\* No call under way and nothing published is ahead of the gateway it is about,
\* and a sweep under way asks them all.
THEOREM Invariant == Spec => []IInv
<1>1. Init => IInv
  BY InitIInv
<1>2. IInv /\ [Next]_vars => IInv'
  BY StepIsGood DEF Good
<1> QED BY <1>1, <1>2, PTL DEF Spec

\* The store implements FleetView: whatever sweeps, refreshes, joins, failures
\* and crossings there are, what it publishes of a gateway is what it showed
\* before or something that gateway did hold (KeepsPromise).
THEOREM ImplementsView == Spec => KeepsPromise
<1>1. Init => View!Init
  BY DEF Init, View!Init, View!Nothing
<1>2. IInv /\ [Next]_vars => [View!Next]_(View!vars)
  BY StepIsGood DEF Good
<1> QED BY <1>1, <1>2, Invariant, PTL DEF Spec, KeepsPromise, View!Spec

\* Type correctness of the store, its timers, the streams and the tabs.
THEOREM TypeCorrect == Spec => []TypeOK
  BY TabsAlways, TypeFact, PTL DEF IInv

\* No tab shows of a gateway what it has not held, although frames, polls and
\* sweeps of different ages overtake each other on the way to it.
THEOREM TabsShowWhatWas ==
  Spec => [](\A c \in Tabs, g \in Gateways :
               last[c][g] <= truth[g] /\ list[c][g] <= truth[g] /\ board[c][g] <= truth[g])
<1>1. TabsOK => \A c \in Tabs, g \in Gateways :
                  last[c][g] <= truth[g] /\ list[c][g] <= truth[g] /\ board[c][g] <= truth[g]
  BY DEF TabsOK, Past
<1> QED BY <1>1, TabsAlways, PTL
=============================================================================
