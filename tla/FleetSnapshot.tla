---------------------------- MODULE FleetSnapshot ----------------------------
(***************************************************************************)
(* The shared picture of the fleet: FleetSnapshotStore and FleetService    *)
(* (control-plane/apps/api/src/services), the routes of app.ts that read   *)
(* it or force a sweep, and the browser that shows the pending approvals   *)
(* in it (web realtime/useFleetStream.ts, approvals.tsx).                  *)
(*                                                                         *)
(* What a gateway holds is the number of changes made to it; of the        *)
(* collections of a detail, which succeed or fail one by one and are       *)
(* treated alike, the model keeps one.  A snapshot maps each gateway to    *)
(* what is known of that collection.                                       *)
(***************************************************************************)
EXTENDS Integers

CONSTANTS
  Gateways,
  Tabs,        \* browser tabs
  MaxVersion,  \* bound on the changes of a gateway
  MaxChanges,  \* bound on the changes of all gateways
  MaxFaults    \* bound on lost events, failed calls and broken streams

ASSUME FleetAssumption ==
  MaxVersion \in Nat /\ MaxChanges \in Nat /\ MaxFaults \in Nat

Nothing == -1   \* an empty collection that was never fetched
Asked == -2     \* a call without an answer yet
Idle == -3      \* no call under way
Versions == 0..MaxVersion
Known == Versions \cup {Nothing}
Call == Known \cup {Asked, Idle}

VARIABLES
  truth,     \* the gateways
  heard,     \* changes whose event arrived or was lost
  changes, faults,
  \* FleetSnapshotStore
  snapshot,  \* details
  warm,      \* snapshot is not null
  sweep,     \* inFlight: the calls of the sweep under way
  timer,     \* timer
  touch,     \* pendingGatewayTimers
  read,      \* gatewayInFlight: the call of the refresh of a gateway
  stopped,
  \* the approvals route
  resolving, \* gateways whose answer to a decision is on its way
  \* the browser
  stream,    \* the tab's connection
  queue,     \* snapshots a stream has yet to write (the newest)
  last,      \* lastApprovals: the last frame
  list,      \* the cached answer of /api/approvals
  poll,      \* a GET of it under way
  board,     \* the cached answer of /api/dashboard
  renew      \* a frame asked for it again

storeVars == <<snapshot, warm, sweep, timer, touch, read, stopped>>
gatewayVars == <<truth, heard, changes, resolving>>
tabVars == <<stream, last, list, poll, board, renew>>
vars == <<gatewayVars, faults, storeVars, tabVars, queue>>

None == [g \in Gateways |-> Idle]   \* no snapshot

TypeOK ==
  /\ truth \in [Gateways -> Versions] /\ heard \in [Gateways -> Versions]
  /\ changes \in 0..MaxChanges /\ faults \in 0..MaxFaults
  /\ snapshot \in [Gateways -> Known] /\ warm \in BOOLEAN
  /\ sweep \in [Gateways -> Call] /\ timer \in BOOLEAN
  /\ touch \in [Gateways -> BOOLEAN] /\ read \in [Gateways -> Call]
  /\ stopped \in BOOLEAN /\ resolving \subseteq Gateways
  /\ stream \in [Tabs -> {"closed", "opening", "open"}]
  /\ renew \in [Tabs -> BOOLEAN]
  /\ \A v \in {queue, last, list, poll, board} :
       v \in [Tabs -> [Gateways -> Known] \cup {None}]

Init ==
  /\ truth = [g \in Gateways |-> 0] /\ heard = [g \in Gateways |-> 0]
  /\ changes = 0 /\ faults = 0 /\ resolving = {}
  /\ snapshot = [g \in Gateways |-> Nothing] /\ warm = FALSE
  /\ sweep = [g \in Gateways |-> Asked]   \* start()
  /\ timer = FALSE /\ touch = [g \in Gateways |-> FALSE]
  /\ read = [g \in Gateways |-> Idle] /\ stopped = FALSE
  /\ stream = [c \in Tabs |-> "closed"] /\ queue = [c \in Tabs |-> None]
  /\ last = [c \in Tabs |-> None] /\ list = [c \in Tabs |-> None]
  /\ poll = [c \in Tabs |-> None]
  /\ board = [c \in Tabs |-> None] /\ renew = [c \in Tabs |-> TRUE]

Fault == faults < MaxFaults /\ faults' = faults + 1

(***************************************************************************)
(* FleetSnapshotStore                                                      *)
(***************************************************************************)
Sweeping == \E g \in Gateways : sweep[g] # Idle

\* refresh() joins the sweep under way.
Refreshed == IF Sweeping THEN sweep ELSE [g \in Gateways |-> Asked]

\* Slip: an empty answer is taken for an empty gateway.
MergeBlanks(g, v) == v
\* mergeWithPrevious()
MergeWithPrevious(g, v) == IF v = Nothing THEN snapshot[g] ELSE v

\* emit(): a stream queues the snapshot and will write only the newest.
Emit(snap) == queue' = [c \in Tabs |-> IF stream[c] = "open" THEN snap ELSE queue[c]]
\* Slip: a sweep that failed tells nobody and sets no timer.
ScheduleNextIfOk(ok) == timer' = (timer \/ (~stopped /\ ok))
\* scheduleNext(), after a sweep that did or did not fail
ScheduleNext(ok) == timer' = (timer \/ ~stopped)

Publish(snap) == snapshot' = snap /\ warm' = TRUE /\ Emit(snap)

\* The process was killed after its time, or could not be started.
NoAnswer(v) == v = Nothing /\ Fault

\* A connector's tryCall(), of DockerExecConnector for one: it never throws, and
\* gives what the gateway holds or a failure.
TryCall(g, v) == (v = truth[g] /\ UNCHANGED faults) \/ NoAnswer(v)

\* statusDetailFor()
SweepCall(g) ==
  /\ sweep[g] = Asked
  /\ \E v \in Known : TryCall(g, v) /\ sweep' = [sweep EXCEPT ![g] = v]
  /\ UNCHANGED <<gatewayVars, snapshot, warm, timer, touch, read, stopped, tabVars, queue>>

\* The sweep has every answer, or one call of it threw: then the old details
\* are published again, with the error.
SweepLands(ok) ==
  /\ Sweeping
  /\ IF ok THEN (\A g \in Gateways : sweep[g] # Asked) /\ UNCHANGED faults ELSE Fault
  /\ Publish(IF ok THEN [g \in Gateways |-> MergeWithPrevious(g, sweep[g])] ELSE snapshot)
  /\ sweep' = [g \in Gateways |-> Idle] /\ ScheduleNext(ok)
  /\ UNCHANGED <<gatewayVars, touch, read, stopped, tabVars>>

TimerFires ==
  /\ timer /\ timer' = FALSE /\ sweep' = Refreshed
  /\ UNCHANGED <<gatewayVars, faults, snapshot, warm, touch, read, stopped, tabVars, queue>>

\* touchGateway(), for an event of the gateway
Event(g) ==
  /\ heard[g] < truth[g] /\ heard' = [heard EXCEPT ![g] = @ + 1]
  /\ touch' = IF stopped THEN touch ELSE [touch EXCEPT ![g] = TRUE]
  /\ UNCHANGED <<truth, changes, resolving, faults, snapshot, warm, sweep, timer, read,
                 stopped, tabVars, queue>>

\* The link was down when it was sent.
LostEvent(g) ==
  /\ heard[g] < truth[g] /\ heard' = [heard EXCEPT ![g] = @ + 1] /\ Fault
  /\ UNCHANGED <<truth, changes, resolving, storeVars, tabVars, queue>>

\* The debounce is over: refreshGateway() joins the refresh under way.
TouchFires(g) ==
  /\ touch[g] /\ touch' = [touch EXCEPT ![g] = FALSE]
  /\ read' = [read EXCEPT ![g] = IF @ = Idle THEN Asked ELSE @]
  /\ UNCHANGED <<gatewayVars, faults, snapshot, warm, sweep, timer, stopped, tabVars, queue>>

ReadCall(g) ==
  /\ read[g] = Asked
  /\ \E v \in Known : TryCall(g, v) /\ read' = [read EXCEPT ![g] = v]
  /\ UNCHANGED <<gatewayVars, snapshot, warm, sweep, timer, touch, stopped, tabVars, queue>>

\* Merged into the snapshot of now; before the first sweep it is dropped.
ReadLands(g) ==
  /\ read[g] \notin {Idle, Asked}
  /\ read' = [read EXCEPT ![g] = Idle]
  /\ IF warm THEN Publish([snapshot EXCEPT ![g] = MergeWithPrevious(g, read[g])])
             ELSE UNCHANGED <<snapshot, warm, queue>>
  /\ UNCHANGED <<gatewayVars, faults, sweep, timer, touch, stopped, tabVars>>

Stop ==
  /\ ~stopped /\ stopped' = TRUE
  /\ timer' = FALSE /\ touch' = [g \in Gateways |-> FALSE]
  /\ UNCHANGED <<gatewayVars, faults, snapshot, warm, sweep, read, tabVars, queue>>

(***************************************************************************)
(* Gateways and approvals                                                  *)
(***************************************************************************)
Changed(g) ==
  /\ truth[g] < MaxVersion /\ changes < MaxChanges
  /\ truth' = [truth EXCEPT ![g] = @ + 1] /\ changes' = changes + 1

Change(g) ==
  /\ Changed(g)
  /\ UNCHANGED <<heard, resolving, faults, storeVars, tabVars, queue>>

\* CronService: what it changes at a gateway is in the picture when an event or
\* a sweep brings it; it forces neither.
SetEnabled(g) == Changed(g) /\ UNCHANGED <<heard, resolving>>
RunNow(g) == Changed(g) /\ UNCHANGED <<heard, resolving>>
CronRoute(g) ==
  /\ SetEnabled(g) \/ RunNow(g)
  /\ UNCHANGED <<faults, storeVars, tabVars, queue>>

\* resolveExec(): the gateway carries out the decision ...
Resolve(g) ==
  /\ g \notin resolving /\ Changed(g) /\ resolving' = resolving \cup {g}
  /\ UNCHANGED <<heard, faults, storeVars, tabVars, queue>>

\* ... and the route forces a sweep, unless the answer is lost.
Resolved(g) ==
  /\ g \in resolving /\ resolving' = resolving \ {g}
  /\ \/ sweep' = Refreshed /\ UNCHANGED faults
     \/ Fault /\ UNCHANGED sweep
  /\ UNCHANGED <<truth, heard, changes, snapshot, warm, timer, touch, read, stopped,
                 tabVars, queue>>

\* ready(): a reader waits for the first sweep only.
Ready == warm

(***************************************************************************)
(* The stream and the browser                                              *)
(***************************************************************************)
\* useFleetStream: a frame with the approvals of the last one is not written
\* to the cache; one that is written overrules a GET under way.  Either way
\* the dashboard is asked for again.
Frame(c, snap) ==
  /\ last' = [last EXCEPT ![c] = snap]
  /\ list' = IF snap = last[c] THEN list ELSE [list EXCEPT ![c] = snap]
  /\ poll' = IF snap = last[c] THEN poll ELSE [poll EXCEPT ![c] = None]
  /\ renew' = [renew EXCEPT ![c] = TRUE]

\* The stream starts with the snapshot there is ...
Open(c) ==
  /\ stream[c] = "closed" /\ stream' = [stream EXCEPT ![c] = "opening"]
  /\ IF warm THEN Frame(c, snapshot) ELSE UNCHANGED <<last, list, poll, renew>>
  /\ UNCHANGED <<gatewayVars, faults, storeVars, board, queue>>

\* ... and subscribes once that is written.
Subscribe(c) ==
  /\ stream[c] = "opening" /\ stream' = [stream EXCEPT ![c] = "open"]
  /\ UNCHANGED <<gatewayVars, faults, storeVars, last, list, poll, board, renew, queue>>

WriteFrame(c) ==
  /\ queue[c] # None
  /\ queue' = [queue EXCEPT ![c] = None] /\ Frame(c, queue[c])
  /\ UNCHANGED <<gatewayVars, faults, storeVars, stream, board>>

\* The connection breaks; consumeSse() will open another one.
Breaks(c) ==
  /\ stream[c] # "closed" /\ Fault
  /\ stream' = [stream EXCEPT ![c] = "closed"] /\ queue' = [queue EXCEPT ![c] = None]
  /\ UNCHANGED <<gatewayVars, storeVars, last, list, poll, board, renew>>

\* GET /api/approvals: ready() answers with the snapshot there is.
Poll(c) ==
  /\ poll[c] = None /\ Ready
  /\ poll' = [poll EXCEPT ![c] = snapshot]
  /\ UNCHANGED <<gatewayVars, faults, storeVars, stream, last, list, board, renew, queue>>

PollLands(c) ==
  /\ poll[c] # None
  /\ list' = [list EXCEPT ![c] = poll[c]] /\ poll' = [poll EXCEPT ![c] = None]
  /\ UNCHANGED <<gatewayVars, faults, storeVars, stream, last, board, renew, queue>>

\* GET /api/dashboard
Dashboard(c) ==
  /\ renew[c] /\ Ready /\ renew' = [renew EXCEPT ![c] = FALSE]
  /\ board' = [board EXCEPT ![c] = snapshot]
  /\ UNCHANGED <<gatewayVars, faults, storeVars, stream, last, list, poll, queue>>

SweepStep == (\E g \in Gateways : SweepCall(g)) \/ SweepLands(TRUE) \/ TimerFires
ReadStep(g) == TouchFires(g) \/ ReadCall(g) \/ ReadLands(g)
StreamStep(c) == Open(c) \/ Subscribe(c) \/ WriteFrame(c)
PollStep(c) == Poll(c) \/ PollLands(c)
Environment ==
  \/ \E g \in Gateways : Event(g) \/ LostEvent(g) \/ Change(g) \/ CronRoute(g) \/ Resolve(g)
  \/ \E c \in Tabs : Breaks(c)
  \/ Stop

Next ==
  \/ SweepStep \/ SweepLands(FALSE) \/ Environment
  \/ \E g \in Gateways : ReadStep(g) \/ Resolved(g)
  \/ \E c \in Tabs : StreamStep(c) \/ PollStep(c) \/ Dashboard(c)

Spec == Init /\ [][Next]_vars

(***************************************************************************)
(* Fairness: timers fire, the connector answers or times out every call,   *)
(* a stream's loop goes on, a broken one is opened again (sseClient.ts),   *)
(* and a visible page polls (SWR's refreshInterval).  Nothing is assumed   *)
(* of gateways, events or users.                                           *)
(***************************************************************************)
FairSpec ==
  /\ Spec
  /\ WF_vars(SweepStep)
  /\ \A g \in Gateways : WF_vars(ReadStep(g))
  /\ \A c \in Tabs :
       WF_vars(StreamStep(c)) /\ WF_vars(PollStep(c)) /\ WF_vars(Dashboard(c))

(***************************************************************************)
(* Properties                                                              *)
(***************************************************************************)
View == INSTANCE FleetView WITH view <- snapshot

\* Sweeps, refreshes, joins and failures of either together keep FleetView's
\* promise on every step: what is published was held, and a failure blanks
\* nothing.
KeepsPromise == View!Spec

\* Unless the process is shut down, lost events, failed calls, a sweep older
\* than what it overwrites and a frame missed before subscribing are all made
\* up for: the snapshot, the last frame, and the approvals and the dashboard a
\* tab shows end up with what the gateways hold.
Settles ==
  \/ <>stopped
  \/ /\ View!Converges
     /\ \A c \in Tabs : <>[](last[c] = truth /\ list[c] = truth /\ board[c] = truth)
=============================================================================
