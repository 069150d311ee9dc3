------------------------------ MODULE SessionHub ------------------------------
(***************************************************************************)
(* The cached transcript of one gateway session and the streams that show  *)
(* it: SessionHub (control-plane/apps/api/src/services/session-hub.ts) and *)
(* the session routes of app.ts.  A transcript is the number of changes it *)
(* contains; every caller asks for the same number of messages, as the web *)
(* app does.                                                               *)
(*                                                                         *)
(* The hub's entries are objects: one dropped from the cache lives on for  *)
(* as long as a read of it is under way or a timer holds it, but its       *)
(* transcript is not looked at again.                                      *)
(***************************************************************************)
EXTENDS Integers

CONSTANTS
  Objects,      \* bound: cache entries alive at the same time
  Streams,      \* browser tabs on the session (/stream)
  Writers,      \* callers that post a message and may ask for a fresh read
  None,
  MaxVersion,   \* bound on the changes of the transcript
  MaxOpens,     \* bound on the streams opened
  MaxFaults     \* bound on lost events and failed reads

\* Values of a read or of a detail that are not a transcript.
Idle == -4     \* no read is under way
Asked == -3    \* the gateway has not answered yet
Nothing == -2  \* null
Failed == -1   \* historyError is set, history is null

ASSUME HubAssumption ==
  /\ None \notin Objects
  /\ MaxVersion \in Nat /\ MaxOpens \in Nat /\ MaxFaults \in Nat

VARIABLES
  version,   \* the transcript, at the gateway
  heard,     \* changes whose event has arrived or was lost
  told,      \* history: the newest change the hub was told of and had to act on
  cache,     \* the entry in the Map
  detail,    \* the transcript it holds
  obj,       \* the entries
  evicts,    \* eviction timers pending
  sub,       \* the entry a stream listens to
  queue,     \* the frame a stream has yet to write
  shown,     \* the newest transcript a tab has shown
  posting,   \* the change a POST made, not yet acknowledged
  waits,     \* the entry whose read a GET waits for
  opens,     \* streams opened so far
  faults     \* faults so far

vars == <<version, heard, told, cache, detail, obj, evicts, sub, queue, shown, posting,
          waits, opens, faults>>
gatewayVars == <<version, heard>>
streamVars == <<sub, queue, shown, opens>>
writerVars == <<posting, waits>>

Versions == 0..MaxVersion
Entry == [inFlight : Versions \cup {Idle, Asked, Failed},
          dirty : BOOLEAN,   \* dirtyDuringFetch
          timer : BOOLEAN]   \* refreshTimer

TypeOK ==
  /\ version \in Versions /\ heard \in 0..version /\ told \in 0..version
  /\ cache \in Objects \cup {None}
  /\ detail \in Versions \cup {Nothing, Failed}
  /\ obj \in [Objects -> Entry]
  /\ \A e \in Objects : obj[e].dirty => obj[e].inFlight # Idle
  /\ evicts \in Nat
  /\ sub \in [Streams -> Objects \cup {None}]
  /\ queue \in [Streams -> Versions \cup {Nothing, Failed}]
  /\ shown \in [Streams -> Versions]
  /\ posting \in [Writers -> Versions \cup {Nothing}]
  /\ waits \in [Writers -> Objects \cup {None}]
  /\ opens \in 0..MaxOpens /\ faults \in 0..MaxFaults

NewEntry == [inFlight |-> Idle, dirty |-> FALSE, timer |-> FALSE]

Init ==
  /\ version = 0 /\ heard = 0 /\ told = 0
  /\ cache = None /\ detail = Nothing /\ obj = [e \in Objects |-> NewEntry] /\ evicts = 0
  /\ sub = [c \in Streams |-> None] /\ queue = [c \in Streams |-> Nothing]
  /\ shown = [c \in Streams |-> 0]
  /\ posting = [w \in Writers |-> Nothing]
  /\ waits = [w \in Writers |-> None]
  /\ opens = 0 /\ faults = 0

Fault == faults < MaxFaults /\ faults' = faults + 1

(***************************************************************************)
(* The methods of an entry                                                 *)
(***************************************************************************)
\* fetch() joins the read under way.
Fetched(o) == IF o.inFlight = Idle THEN [o EXCEPT !.inFlight = Asked] ELSE o

\* Slip: a change during a read is taken to be in it.
RefreshLosesDirty(o) == IF o.inFlight # Idle THEN o ELSE [o EXCEPT !.timer = TRUE]
\* scheduleRefresh()
ScheduleRefresh(o) ==
  IF o.inFlight # Idle THEN [o EXCEPT !.dirty = TRUE] ELSE [o EXCEPT !.timer = TRUE]

\* refreshNow()
RefreshNow(o) ==
  Fetched([o EXCEPT !.timer = FALSE, !.dirty = @ \/ o.inFlight # Idle])

\* The end of fetch()'s chain of promises.
Landed(o) ==
  LET read == [o EXCEPT !.inFlight = Idle, !.dirty = FALSE]
  IN IF o.dirty THEN ScheduleRefresh(read) ELSE read

Listeners(e) == {c \in Streams : sub[c] = e}
Garbage(e) ==
  /\ e # cache /\ obj[e].inFlight = Idle /\ ~obj[e].timer
  /\ Listeners(e) = {} /\ \A w \in Writers : waits[w] # e

\* entryFor(): the cached entry or a new one, no matter which.
EntryFor(e) ==
  /\ cache' = e
  /\ IF cache = None THEN Garbage(e) /\ e = CHOOSE o \in Objects : Garbage(o)
                     ELSE e = cache
Becomes(e, o) == obj' = [obj EXCEPT ![e] = o]

(***************************************************************************)
(* Routes                                                                  *)
(***************************************************************************)
\* GET without fresh=1: what is known answers, and is re-read if it is stale.
ReadCached(e) ==
  /\ EntryFor(e)
  /\ \E stale \in BOOLEAN :
       Becomes(e, IF detail = Nothing \/ stale THEN Fetched(obj[e]) ELSE obj[e])
  /\ UNCHANGED <<gatewayVars, told, detail, evicts, streamVars, writerVars, faults>>

\* GET with fresh=1 waits for a read.
ReadFresh(w, e) ==
  /\ waits[w] = None /\ posting[w] = Nothing
  /\ EntryFor(e) /\ Becomes(e, Fetched(obj[e]))
  /\ waits' = [waits EXCEPT ![w] = e]
  /\ UNCHANGED <<gatewayVars, told, detail, evicts, streamVars, posting, faults>>

\* POST: the gateway takes the message ...
Post(w) ==
  /\ waits[w] = None /\ posting[w] = Nothing /\ version < MaxVersion
  /\ version' = version + 1
  /\ posting' = [posting EXCEPT ![w] = version']
  /\ UNCHANGED <<heard, told, cache, detail, obj, evicts, streamVars, waits, faults>>

\* ... and when it says so the hub re-reads at once.
Posted(w, e) ==
  /\ posting[w] # Nothing
  /\ posting' = [posting EXCEPT ![w] = Nothing]
  /\ told' = IF told < posting[w] THEN posting[w] ELSE told
  /\ EntryFor(e) /\ Becomes(e, RefreshNow(obj[e]))
  /\ UNCHANGED <<gatewayVars, detail, evicts, streamVars, waits, faults>>

\* /stream: subscribe() pushes what is known, or starts a read.
Open(c, e) ==
  /\ sub[c] = None /\ opens < MaxOpens /\ opens' = opens + 1
  /\ EntryFor(e)
  /\ sub' = [sub EXCEPT ![c] = e]
  /\ IF detail # Nothing
       THEN queue' = [queue EXCEPT ![c] = detail] /\ UNCHANGED obj
       ELSE Becomes(e, Fetched(obj[e])) /\ UNCHANGED queue
  /\ UNCHANGED <<gatewayVars, told, detail, evicts, shown, writerVars, faults>>

\* The newest frame is written.  An error frame carries no transcript.
WriteFrame(c) ==
  /\ sub[c] # None /\ queue[c] # Nothing
  /\ shown' = [shown EXCEPT ![c] = IF queue[c] = Failed THEN @ ELSE queue[c]]
  /\ queue' = [queue EXCEPT ![c] = Nothing]
  /\ UNCHANGED <<gatewayVars, told, cache, detail, obj, evicts, sub, opens, writerVars, faults>>

\* The tab goes away; the last listener's unsubscribe starts an eviction timer.
Close(c) ==
  /\ sub[c] # None
  /\ sub' = [sub EXCEPT ![c] = None]
  /\ queue' = [queue EXCEPT ![c] = Nothing]
  /\ evicts' = IF Listeners(sub[c]) = {c} THEN evicts + 1 ELSE evicts
  /\ UNCHANGED <<gatewayVars, told, cache, detail, obj, shown, opens, writerVars, faults>>

(***************************************************************************)
(* Timers and the gateway                                                  *)
(***************************************************************************)
Refresh(e) ==
  /\ obj[e].timer
  /\ Becomes(e, Fetched([obj[e] EXCEPT !.timer = FALSE]))
  /\ UNCHANGED <<gatewayVars, told, cache, detail, evicts, streamVars, writerVars, faults>>

\* Slip: an entry goes when its timer fires, listeners or not.
EvictableAlways(e) == TRUE
Evictable(e) == Listeners(e) = {}

\* A timer started by an earlier visit may fire after a later one.
Evict ==
  /\ evicts > 0 /\ evicts' = evicts - 1
  /\ IF cache # None /\ Evictable(cache)
       THEN /\ cache' = None /\ detail' = Nothing
            /\ Becomes(cache, [obj[cache] EXCEPT !.timer = FALSE])
       ELSE UNCHANGED <<cache, detail, obj>>
  /\ UNCHANGED <<gatewayVars, told, streamVars, writerVars, faults>>

\* The gateway reads the transcript, or the call fails.
Answers(e) ==
  /\ obj[e].inFlight = Asked
  /\ \/ Becomes(e, [obj[e] EXCEPT !.inFlight = version]) /\ UNCHANGED faults
     \/ Becomes(e, [obj[e] EXCEPT !.inFlight = Failed]) /\ Fault
  /\ UNCHANGED <<gatewayVars, told, cache, detail, evicts, streamVars, writerVars>>

\* Slip: a read is for the session, whatever entry asked for it.
LandsOnCached(e) == cache
LandsOn(e) == e

\* The answer arrives: listeners get it, and so does every GET that waits.
Lands(e) ==
  /\ obj[e].inFlight \notin {Idle, Asked}
  /\ Becomes(e, Landed(obj[e]))
  /\ detail' = IF LandsOn(e) = cache THEN obj[e].inFlight ELSE detail
  /\ queue' = [c \in Streams |-> IF sub[c] = LandsOn(e) THEN obj[e].inFlight ELSE queue[c]]
  /\ waits' = [w \in Writers |-> IF waits[w] = e THEN None ELSE waits[w]]
  /\ UNCHANGED <<gatewayVars, told, cache, evicts, sub, shown, opens, posting, faults>>

\* An agent or another client adds to the transcript.
Changes ==
  /\ version < MaxVersion /\ version' = version + 1
  /\ UNCHANGED <<heard, told, cache, detail, obj, evicts, streamVars, writerVars, faults>>

\* handleEvent(): an event without a recognised key is for sessions with listeners.
Event(keyed) ==
  /\ heard < version /\ heard' = heard + 1
  /\ IF cache # None /\ (keyed \/ Listeners(cache) # {})
       THEN /\ Becomes(cache, ScheduleRefresh(obj[cache]))
            /\ told' = IF told < heard' THEN heard' ELSE told
       ELSE UNCHANGED <<obj, told>>
  /\ UNCHANGED <<version, cache, detail, evicts, streamVars, writerVars, faults>>

\* The link was down when the event was sent.
LostEvent ==
  /\ heard < version /\ heard' = heard + 1 /\ Fault
  /\ UNCHANGED <<version, told, cache, detail, obj, evicts, streamVars, writerVars>>

RouteStep ==
  \/ \E e \in Objects : ReadCached(e)
  \/ \E w \in Writers, e \in Objects : ReadFresh(w, e)
  \/ \E w \in Writers : Post(w)
  \/ \E w \in Writers, e \in Objects : Posted(w, e)
  \/ \E c \in Streams, e \in Objects : Open(c, e)
  \/ \E c \in Streams : Close(c)

HubStep(e) == Refresh(e) \/ Answers(e) \/ Lands(e)

Next ==
  \/ RouteStep
  \/ \E c \in Streams : WriteFrame(c)
  \/ \E e \in Objects : HubStep(e)
  \/ Evict
  \/ Changes
  \/ \E keyed \in BOOLEAN : Event(keyed)
  \/ LostEvent

Spec == Init /\ [][Next]_vars

(***************************************************************************)
(* Fairness: timers fire, the connector answers or times out every call,   *)
(* and a stream's loop goes on.  Nothing is assumed of the callers, of the *)
(* agent or of the arrival of events.                                      *)
(***************************************************************************)
FairSpec ==
  /\ Spec
  /\ \A e \in Objects : WF_vars(HubStep(e))
  /\ \A c \in Streams : WF_vars(WriteFrame(c))

(***************************************************************************)
(* Properties                                                              *)
(***************************************************************************)
\* Something will still read a transcript with the change v.
WillRead(o, v) ==
  \/ o.timer
  \/ o.inFlight # Idle /\ (o.dirty \/ o.inFlight \in {Asked, Failed} \/ o.inFlight >= v)

\* A change the hub was told of while a read was under way, or between reads,
\* is in the cached transcript or in a read to come: coalescing drops none of
\* them.  (A read that failed leaves the error, until the next event.)
NothingMissed ==
  cache # None =>
    detail = Failed \/ detail >= told \/ WillRead(obj[cache], told)

\* An open stream listens to the entry that events and reads go to, whatever
\* eviction timers earlier visits left behind, and has written or queued the
\* transcript that entry holds.
StreamsFollow ==
  \A c \in Streams : sub[c] # None =>
    /\ sub[c] = cache
    /\ detail >= 0 => detail = IF queue[c] = Nothing THEN shown[c] ELSE queue[c]

\* No tab ever goes back to an older transcript, across evictions, reads of
\* evicted entries and reconnects.
NeverOlder == [][\A c \in Streams : shown'[c] >= shown[c]]_vars

\* What the hub was told of is shown by every stream that stays open, unless
\* the read for it fails.
ToldIsShown ==
  \A c \in Streams, v \in 1..MaxVersion :
    sub[c] # None /\ told >= v
      ~> sub[c] = None \/ shown[c] >= v \/ detail = Failed
=============================================================================
