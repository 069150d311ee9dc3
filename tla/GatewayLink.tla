---------------------------- MODULE GatewayLink ----------------------------
(***************************************************************************)
(* One link of the control plane's PersistentGatewayConnector              *)
(* (control-plane/packages/gateway-client/src/persistent-connector.ts): a  *)
(* WebSocket to one gateway with a signed handshake, shared by every call, *)
(* dialled again with backoff when it drops.                               *)
(*                                                                         *)
(* Node runs one callback at a time; an action is one callback with the    *)
(* promise reactions that run before the next one.  The link keeps a       *)
(* pointer to its current socket, but every socket it ever dialled still   *)
(* has its listeners and timers.  Sockets are numbered as they are dialled.*)
(***************************************************************************)
EXTENDS Integers

CONSTANTS
  Calls,        \* RPCs
  MaxSockets,   \* bound on the number of dials
  Answers,      \* how the gateway may answer a handshake
  None          \* null

AnswerKinds == {"ok", "unpaired", "error", "no-scopes", "no-nonce"}

ASSUME GatewayLinkAssumption ==
  /\ MaxSockets \in Nat
  /\ Answers \subseteq AnswerKinds
  /\ None \notin Nat

Sockets == 1..MaxSockets

VARIABLES
  state,    \* the link's `state'
  ws,       \* the current socket
  ready,    \* readyPromise: the dial it belongs to
  wait,     \* the window nextAttemptAtMs closes: none, a backoff, or a minute
  timer,    \* reconnectTimer is set
  closed,   \* close() was called
  dials,    \* sockets dialled so far
  sock,     \* readyState of each socket
  shake,    \* how far its handshake is, at the gateway
  settled,  \* sockets whose connect() promise is settled
  calls,    \* each call: where it stands, and the dial or socket it waits for
  missed    \* history: the reconnect timer has fired in vain since the last dial

vars == <<state, ws, ready, wait, timer, closed, dials, sock, shake, settled, calls,
          missed>>

CallState == {"new", "waiting", "pending", "resolved", "rejected"}

TypeOK ==
  /\ state \in {"idle", "connecting", "ready", "unpaired", "failed"}
  /\ ws \in Sockets \cup {None}
  /\ ready \in Sockets \cup {None}
  /\ wait \in {"none", "backoff", "minute"}
  /\ timer \in BOOLEAN
  /\ closed \in BOOLEAN
  /\ dials \in 0..MaxSockets
  /\ sock \in [Sockets -> {"unused", "connecting", "open", "closing", "closed"}]
  /\ shake \in [Sockets -> {"none", "sent", "ok", "refused"}]
  /\ settled \subseteq Sockets
  /\ calls \in [Calls -> [st : CallState, on : Sockets \cup {None}]]
  /\ missed \in BOOLEAN

Init ==
  /\ state = "idle"
  /\ ws = None
  /\ ready = None
  /\ wait = "none"
  /\ timer = FALSE
  /\ closed = FALSE
  /\ dials = 0
  /\ sock = [s \in Sockets |-> "unused"]
  /\ shake = [s \in Sockets |-> "none"]
  /\ settled = {}
  /\ calls = [c \in Calls |-> [st |-> "new", on |-> None]]
  /\ missed = FALSE

(***************************************************************************)
(* Calls                                                                   *)
(***************************************************************************)
Usable(s) == s # None /\ sock[s] = "open"
Waiting(s) == {c \in Calls : calls[c] = [st |-> "waiting", on |-> s]}
Pending == {c \in Calls : calls[c].st = "pending"}

Settle(C, how) ==
  [c \in Calls |-> IF c \in C THEN [st |-> how, on |-> None] ELSE calls[c]]

\* The link's socket starts to close, if it has one; its close event is to come.
Closing(s) ==
  [t \in Sockets |-> IF t = s /\ sock[t] \in {"connecting", "open"}
                       THEN "closing" ELSE sock[t]]

\* connect(): a new socket, with the promise of its handshake.
Dial ==
  /\ dials < MaxSockets
  /\ dials' = dials + 1
  /\ state' = "connecting"
  /\ ws' = dials'
  /\ ready' = dials'
  /\ sock' = [sock EXCEPT ![dials'] = "connecting"]
  /\ missed' = FALSE

\* The socket cannot be made (a URL that is refused): no socket, no close event,
\* and its readyPromise is forgotten.
DialThrows ==
  /\ state' = "failed"
  /\ UNCHANGED <<dials, ws, ready, sock>>

NoDial == UNCHANGED <<dials, state, ws, ready, sock>>

Live == state = "ready" /\ Usable(ws)
\* ensureReady() finds neither a live socket nor a dial to share, and the
\* backoff window is over.
MayDial == ~closed /\ ~Live /\ ready = None /\ wait = "none"
\* It hands out the promise of a dial that is not settled yet.
Joins == ~closed /\ ~Live /\ ready # None /\ ready \notin settled
\* Its promise is resolved, perhaps since long ago: call() looks at ws again.
Sends == ~closed /\ (Live \/ (ready # None /\ ready \in settled)) /\ Usable(ws)

\* call(), up to the point where it waits for a handshake or for its response.
Call(c) ==
  /\ calls[c].st = "new"
  /\ \/ /\ MayDial /\ Dial
        /\ calls' = [calls EXCEPT ![c] = [st |-> "waiting", on |-> dials']]
     \/ /\ MayDial /\ DialThrows
        /\ calls' = [calls EXCEPT ![c] = [st |-> "rejected", on |-> None]]
        /\ UNCHANGED missed
     \/ /\ ~MayDial /\ NoDial
        /\ calls' = [calls EXCEPT ![c] =
                       CASE Joins -> [st |-> "waiting", on |-> ready]
                         [] Sends -> [st |-> "pending", on |-> ws]
                         [] OTHER -> [st |-> "rejected", on |-> None]]
        /\ UNCHANGED missed
  /\ UNCHANGED <<wait, timer, closed, shake, settled>>

\* A response arrives on the socket the request went out on.
Response(c) ==
  /\ calls[c].st = "pending"
  /\ sock[calls[c].on] = "open" /\ shake[calls[c].on] = "ok"
  /\ calls' = Settle({c}, "resolved")
  /\ UNCHANGED <<state, ws, ready, wait, timer, closed, dials, sock, shake, settled, missed>>

\* A request times out: rejected, and the current socket is recycled.
RequestTimeout(c) ==
  /\ calls[c].st = "pending"
  /\ calls' = Settle({c}, "rejected")
  /\ sock' = Closing(ws)
  /\ UNCHANGED <<state, ws, ready, wait, timer, closed, dials, shake, settled, missed>>

(***************************************************************************)
(* The handshake of one socket                                             *)
(***************************************************************************)
\* finish(err): the dial fails for everyone who waits for it, and whatever
\* dial readyPromise stands for now is forgotten.
Fail(s) ==
  /\ settled' = settled \cup {s}
  /\ IF s \in settled THEN UNCHANGED <<ready, calls>>
     ELSE ready' = None /\ calls' = Settle(Waiting(s), "rejected")

Opens(s) ==
  /\ sock[s] = "connecting"
  /\ sock' = [sock EXCEPT ![s] = "open"]
  /\ UNCHANGED <<state, ws, ready, wait, timer, closed, dials, shake, settled, calls, missed>>

\* connect.challenge: the signed connect request goes out.
Challenge(s) ==
  /\ sock[s] = "open" /\ shake[s] = "none"
  /\ shake' = [shake EXCEPT ![s] = "sent"]
  /\ UNCHANGED <<state, ws, ready, wait, timer, closed, dials, sock, settled, calls, missed>>

\* A challenge without a nonce fails the dial; the socket stays as it is.
ChallengeEmpty(s) ==
  /\ "no-nonce" \in Answers
  /\ sock[s] = "open" /\ shake[s] = "none"
  /\ shake' = [shake EXCEPT ![s] = "refused"]
  /\ Fail(s)
  /\ UNCHANGED <<state, ws, wait, timer, closed, dials, sock, missed>>

\* handleConnectResponse(), accepted: the calls that waited go out, on whatever
\* socket is the current one by now.
Accepted(s) ==
  /\ "ok" \in Answers
  /\ sock[s] = "open" /\ shake[s] = "sent"
  /\ shake' = [shake EXCEPT ![s] = "ok"]
  /\ state' = "ready"
  /\ wait' = "none"
  /\ settled' = settled \cup {s}
  /\ calls' = [c \in Calls |->
                 IF c \notin Waiting(s) THEN calls[c]
                 ELSE IF Usable(ws) THEN [st |-> "pending", on |-> ws]
                 ELSE [st |-> "rejected", on |-> None]]
  /\ UNCHANGED <<ws, ready, timer, closed, dials, sock, missed>>

\* handleConnectResponse(), refused: the socket is left for the gateway to close.
Refused(s, answer) ==
  /\ answer \in Answers \cap {"unpaired", "error", "no-scopes"}
  /\ sock[s] = "open" /\ shake[s] = "sent"
  /\ shake' = [shake EXCEPT ![s] = "refused"]
  /\ state' = IF answer = "unpaired" THEN "unpaired" ELSE "failed"
  /\ wait' = IF answer = "no-scopes" THEN "none" ELSE wait
  /\ Fail(s)
  /\ UNCHANGED <<ws, timer, closed, dials, sock, missed>>

\* challengeTimer or hardTimer: no challenge, or no answer to the connect.
HandshakeTimeout(s) ==
  /\ s <= dials /\ s \notin settled
  /\ state' = "failed"
  /\ sock' = Closing(s)
  /\ Fail(s)
  /\ UNCHANGED <<ws, wait, timer, closed, dials, shake, missed>>

(***************************************************************************)
(* Disconnect and reconnect                                                *)
(***************************************************************************)
\* Slip: whoever waits for the handshake is left waiting.
DroppedWaitersLeft(s) == Settle(Pending, "rejected")
\* Slip: requests in flight are left to time out.
DroppedLeaves(s) == Settle(Waiting(s), "rejected")
\* The calls after socket s is gone: every request in flight is rejected,
\* whichever socket it is on, and so is whoever waits for the handshake of s.
Dropped(s) == Settle(Pending \cup Waiting(s), "rejected")

\* Slip: only a state other than ready is reset.
StateAfterKeeps == IF closed \/ state \in {"unpaired", "ready"} THEN state ELSE "idle"
StateAfter == IF closed \/ state = "unpaired" THEN state ELSE "idle"

\* Slip: a handshake that failed is not followed by another.
SchedulesUnlessFailed == ~closed /\ ~timer /\ state # "failed"
Schedules == ~closed /\ ~timer

\* The backoff grows with the attempts; a gateway that wants to be paired is
\* left alone for a minute.
Backoff(st) == IF st = "unpaired" THEN "minute" ELSE "backoff"

\* The close event of any socket the link ever had: handleDisconnect(),
\* scheduleReconnect(), finish().
CloseEvent(s) ==
  /\ sock[s] \in {"connecting", "open", "closing"}
  /\ sock' = [sock EXCEPT ![s] = "closed"]
  /\ ready' = None
  /\ ws' = None
  /\ calls' = Dropped(s)
  /\ settled' = settled \cup {s}
  /\ state' = StateAfter
  /\ timer' = (timer \/ Schedules)
  /\ wait' = IF Schedules THEN Backoff(StateAfter) ELSE wait
  /\ UNCHANGED <<closed, dials, shake, missed>>

\* The reconnect timer: ensureReady() once.  It counts the delay on another clock
\* than Date.now(), so it may fire while the window is still open: then it is
\* refused like any other caller, and no timer is left.
TimerFires ==
  /\ timer
  /\ timer' = FALSE
  /\ \/ MayDial /\ Dial
     \/ MayDial /\ DialThrows /\ missed' = TRUE
     \/ ~MayDial /\ NoDial /\ missed' = (missed \/ wait # "none")
  /\ UNCHANGED <<wait, closed, shake, settled, calls>>

\* Date.now() reaches nextAttemptAtMs.
WindowEnds ==
  /\ wait # "none"
  /\ wait' = "none"
  /\ UNCHANGED <<state, ws, ready, timer, closed, dials, sock, shake, settled, calls, missed>>

\* Slip: the reconnect timer is left running.
ClosedTimerKept == timer
ClosedTimer == FALSE

Close ==
  /\ ~closed
  /\ closed' = TRUE
  /\ timer' = ClosedTimer
  /\ calls' = Settle(Pending, "rejected")
  /\ sock' = Closing(ws)
  /\ ws' = None
  /\ UNCHANGED <<state, ready, wait, dials, shake, settled, missed>>

Next ==
  \/ \E c \in Calls : Call(c) \/ Response(c) \/ RequestTimeout(c)
  \/ \E s \in Sockets :
       \/ Opens(s) \/ Challenge(s) \/ ChallengeEmpty(s) \/ Accepted(s)
       \/ \E answer \in Answers : Refused(s, answer)
       \/ HandshakeTimeout(s) \/ CloseEvent(s)
  \/ TimerFires \/ WindowEnds \/ Close

Spec == Init /\ [][Next]_vars

\* Node fires the timers that are set.  Nothing is assumed of the gateway, the
\* network or the callers.
FairSpec ==
  /\ Spec
  /\ \A c \in Calls : WF_vars(RequestTimeout(c))
  /\ \A s \in Sockets : WF_vars(HandshakeTimeout(s))

(***************************************************************************)
(* Properties                                                              *)
(***************************************************************************)
\* No call waits on a socket that is known to be gone: its close event rejects
\* every request in flight, although they may have been sent on another socket
\* than the one the link points to.
PendingOnLiveSocket == \A c \in Pending : sock[calls[c].on] # "closed"

\* The link reports ready only while a socket that was accepted is still there.
ReadyIsBacked ==
  ~closed /\ state = "ready" =>
    \E s \in Sockets : shake[s] = "ok" /\ sock[s] # "closed"

\* A link that has dialled and has no socket left does not wait for a call to
\* dial again ("a link that only healed on demand would silently stop delivering
\* updates", persistent-connector.ts:439): the reconnect timer is set.  The one
\* way to lose it is a timer that fires in vain, within the window or on a socket
\* that cannot be made; nothing is left of the old dial then, so that the next
\* call after the window dials.
NeverStranded ==
  ~closed /\ dials > 0 /\ (\A s \in Sockets : sock[s] \in {"unused", "closed"}) =>
    ready = None /\ (timer \/ missed)

\* After close() the link dials no more, keeps no timer and sends no request.
QuietAfterClose ==
  [][closed => /\ dials' = dials /\ ~timer'
               /\ \A c \in Calls : calls'[c].st # "pending"]_vars

\* Every call is answered or rejected, whatever the gateway does.
CallsSettle ==
  \A c \in Calls :
    calls[c].st # "new" ~> calls[c].st \in {"resolved", "rejected"}
=============================================================================
