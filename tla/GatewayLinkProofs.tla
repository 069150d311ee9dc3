-------------------------- MODULE GatewayLinkProofs --------------------------
(***************************************************************************)
(* Theorems about GatewayLink for any number of calls and dials and every  *)
(* behaviour of the gateway, and about Pairing, checked by TLAPS.          *)
(***************************************************************************)
EXTENDS GatewayLink, Pairing, SequenceTheorems, TLAPS

(***************************************************************************)
(* The inductive invariant.                                                *)
(***************************************************************************)
Gone == {"unused", "closed"}

\* A request in flight is on some socket that has not reported its end.
PendingInv == \A c \in Pending : calls[c].on \in Sockets /\ sock[calls[c].on] # "closed"

\* A dial that is shared belongs to a socket whose close event is still to come.
ReadyInv == ready # None => sock[ready] \notin Gone

\* close() leaves nothing behind that could send or dial.
ClosedInv == closed => ws = None /\ ~timer /\ Pending = {}

IInv == TypeOK /\ PendingInv /\ ReadyInv /\ ClosedInv /\ ReadyIsBacked

USE GatewayLinkAssumption

LEMMA InitIInv == Init => IInv
<1> SUFFICES ASSUME Init PROVE IInv
  OBVIOUS
<1>1. [c \in Calls |-> [st |-> "new", on |-> None]]
        \in [Calls -> [st : CallState, on : Sockets \cup {None}]]
  BY DEF CallState
<1>2. 0 \in 0..MaxSockets
  OBVIOUS
<1>3. TypeOK
  BY <1>1, <1>2 DEF Init, TypeOK
<1> QED BY <1>3 DEF IInv, Init, PendingInv, ReadyInv, ClosedInv, ReadyIsBacked, Pending

(***************************************************************************)
(* What the handlers are built from.                                       *)
(***************************************************************************)
CallRec == [st : CallState, on : Sockets \cup {None}]

LEMMA SettleType ==
  ASSUME TypeOK, NEW C, NEW how \in {"resolved", "rejected"}
  PROVE  Settle(C, how) \in [Calls -> CallRec]
  BY DEF TypeOK, Settle, CallRec, CallState

\* Settling calls adds no request in flight and moves none.
LEMMA SettlePending ==
  ASSUME NEW C, NEW how \in {"resolved", "rejected"}, NEW c \in Calls,
         Settle(C, how)[c].st = "pending"
  PROVE  c \notin C /\ Settle(C, how)[c] = calls[c]
  BY DEF Settle

LEMMA ClosingFact ==
  ASSUME TypeOK, NEW s
  PROVE  /\ Closing(s) \in [Sockets -> {"unused", "connecting", "open", "closing", "closed"}]
         /\ \A t \in Sockets : Closing(s)[t] \in Gone <=> sock[t] \in Gone
         /\ \A t \in Sockets : Closing(s)[t] = "closed" <=> sock[t] = "closed"
  BY DEF TypeOK, Closing, Gone

LEMMA DialFact ==
  ASSUME TypeOK, Dial
  PROVE  /\ dials' \in 0..MaxSockets /\ dials' \in Sockets /\ state' = "connecting"
         /\ missed' = FALSE
         /\ ws' = dials' /\ ready' = dials'
         /\ sock' = [sock EXCEPT ![dials'] = "connecting"]
  BY DEF TypeOK, Dial, Sockets

(***************************************************************************)
(* One step.                                                               *)
(***************************************************************************)
LEMMA CallStep == ASSUME IInv, NEW c \in Calls, Call(c) PROVE IInv'
<1> USE DEF IInv
<1>1. UNCHANGED <<wait, timer, closed, shake, settled>>
  BY DEF Call
<1>2. CASE MayDial /\ Dial /\ calls' = [calls EXCEPT ![c] = [st |-> "waiting", on |-> dials']]
  <2>1. ~closed
    BY <1>2 DEF MayDial
  <2>2. [st |-> "waiting", on |-> dials'] \in [st : CallState, on : Sockets \cup {None}]
    BY <1>2, DialFact DEF CallState
  <2>3. calls' \in [Calls -> [st : CallState, on : Sockets \cup {None}]]
    BY <1>2, <2>2 DEF TypeOK
  <2>4. TypeOK'
    BY <1>1, <1>2, <2>3, DialFact DEF TypeOK
  <2>5. \A d \in Calls : calls'[d].st = "pending" =>
          calls[d].st = "pending" /\ calls'[d] = calls[d]
    BY <1>2 DEF TypeOK
  <2>6. PendingInv'
    BY <1>2, <2>5, DialFact DEF PendingInv, Pending, TypeOK
  <2> QED BY <1>1, <1>2, <2>1, <2>4, <2>6, DialFact DEF ReadyInv, ClosedInv, ReadyIsBacked, Gone,
             TypeOK
<1>3. CASE /\ state' \in {state, "failed"} /\ UNCHANGED <<dials, ws, ready, sock, missed>>
           /\ \/ calls' = [calls EXCEPT ![c] = [st |-> "waiting", on |-> ready]]
              \/ Sends /\ calls' = [calls EXCEPT ![c] = [st |-> "pending", on |-> ws]]
              \/ calls' = [calls EXCEPT ![c] = [st |-> "rejected", on |-> None]]
  <2>1. TypeOK'
    BY <1>1, <1>3 DEF TypeOK, CallState
  <2>2. Sends => ~closed /\ ws # None /\ sock[ws] = "open"
    BY DEF Sends, Usable
  <2>3. PendingInv' /\ ClosedInv'
    BY <1>1, <1>3, <2>2 DEF TypeOK, PendingInv, ClosedInv, Pending
  <2> QED BY <1>1, <1>3, <2>1, <2>3 DEF ReadyInv, ReadyIsBacked
<1>4. CASE MayDial /\ DialThrows
  BY <1>3, <1>4 DEF Call, DialThrows, Dial
<1>5. CASE ~MayDial /\ NoDial
  BY <1>3, <1>5 DEF Call, NoDial, Joins, Sends
<1> QED BY <1>2, <1>4, <1>5 DEF Call

\* Steps that settle calls and leave the sockets open, closing or closed.
LEMMA SettlingStep ==
  ASSUME IInv, NEW C, NEW how \in {"resolved", "rejected"}, calls' = Settle(C, how),
         sock' = sock \/ sock' = Closing(ws),
         UNCHANGED <<ws, timer, closed, shake>>,
         TypeOK', ready' \in {ready, None}, state' \in {state, "failed", "unpaired"}
  PROVE  IInv'
<1> USE DEF IInv
<1>1. \A t \in Sockets : sock'[t] \in Gone <=> sock[t] \in Gone
  BY ClosingFact
<1>2. \A t \in Sockets : sock'[t] = "closed" <=> sock[t] = "closed"
  BY ClosingFact
<1>3. \A c \in Calls : calls'[c].st = "pending" => calls'[c] = calls[c]
  BY SettlePending
<1>4. PendingInv' /\ ClosedInv'
  BY <1>2, <1>3 DEF PendingInv, ClosedInv, Pending
<1>5. ReadyInv' /\ ReadyIsBacked'
  BY <1>1, <1>2 DEF ReadyInv, ReadyIsBacked, TypeOK
<1> QED BY <1>4, <1>5

LEMMA ResponseStep ==
  ASSUME IInv, NEW c \in Calls, Response(c) \/ RequestTimeout(c) PROVE IInv'
<1>1. CASE Response(c)
  <2>1. TypeOK'
    BY <1>1, SettleType DEF IInv, Response, TypeOK, CallRec
  <2> QED BY <1>1, <2>1, SettlingStep DEF Response
<1>2. CASE RequestTimeout(c)
  <2>1. TypeOK'
    BY <1>2, SettleType, ClosingFact DEF IInv, RequestTimeout, TypeOK, CallRec
  <2> QED BY <1>2, <2>1, SettlingStep DEF RequestTimeout
<1> QED BY <1>1, <1>2

\* finish(err), whether or not the dial was settled before.
LEMMA FailFact ==
  ASSUME IInv, NEW s \in Sockets, Fail(s)
  PROVE  /\ settled' \subseteq Sockets
         /\ ready' \in {ready, None}
         /\ \E C : calls' = Settle(C, "rejected")
<1>1. calls = Settle({}, "rejected")
  BY DEF IInv, TypeOK, Settle
<1> QED BY <1>1 DEF Fail, IInv, TypeOK

LEMMA HandshakeStep ==
  ASSUME IInv, NEW s \in Sockets
  PROVE  /\ Opens(s) => IInv'
         /\ Challenge(s) => IInv'
         /\ ChallengeEmpty(s) => IInv'
         /\ Accepted(s) => IInv'
         /\ (\E answer \in Answers : Refused(s, answer)) => IInv'
         /\ HandshakeTimeout(s) => IInv'
<1> USE DEF IInv
<1>1. ASSUME Opens(s) PROVE IInv'
  BY <1>1 DEF Opens, TypeOK, PendingInv, ReadyInv, ClosedInv, ReadyIsBacked, Pending, Gone
<1>2. ASSUME Challenge(s) PROVE IInv'
  BY <1>2 DEF Challenge, TypeOK, PendingInv, ReadyInv, ClosedInv, ReadyIsBacked, Pending
<1>3. ASSUME ChallengeEmpty(s) \/ \E answer \in Answers : Refused(s, answer) PROVE IInv'
  <2>1. Fail(s) /\ shake' = [shake EXCEPT ![s] = "refused"] /\ shake[s] # "ok"
    BY <1>3 DEF ChallengeEmpty, Refused
  <2>2. UNCHANGED <<ws, timer, closed, sock, dials, missed>>
    BY <1>3 DEF ChallengeEmpty, Refused
  <2>3. state' \in {state, "failed", "unpaired"}
    BY <1>3 DEF ChallengeEmpty, Refused
  <2>4. PICK C : calls' = Settle(C, "rejected")
    BY <2>1, FailFact
  <2>5. wait' \in {"none", wait}
    BY <1>3 DEF ChallengeEmpty, Refused, TypeOK
  <2>6. TypeOK'
    BY <2>1, <2>2, <2>3, <2>4, <2>5, FailFact, SettleType DEF TypeOK, CallRec
  <2>7. \A c \in Calls : calls'[c].st = "pending" => calls'[c] = calls[c]
    BY <2>4, SettlePending
  <2>8. PendingInv' /\ ClosedInv'
    BY <2>2, <2>7 DEF PendingInv, ClosedInv, Pending
  <2>9. ReadyInv' /\ ReadyIsBacked'
    BY <2>1, <2>2, <2>3, FailFact DEF ReadyInv, ReadyIsBacked, TypeOK
  <2> QED BY <2>6, <2>8, <2>9
<1>4. ASSUME Accepted(s) PROVE IInv'
  <2>1. /\ shake' = [shake EXCEPT ![s] = "ok"] /\ sock[s] = "open" /\ state' = "ready"
        /\ UNCHANGED <<ws, ready, timer, closed, sock, dials, missed>>
        /\ wait' = "none" /\ settled' = settled \cup {s}
    BY <1>4 DEF Accepted
  <2>2. calls' = [c \in Calls |->
                    IF c \notin Waiting(s) THEN calls[c]
                    ELSE IF Usable(ws) THEN [st |-> "pending", on |-> ws]
                    ELSE [st |-> "rejected", on |-> None]]
    BY <1>4 DEF Accepted
  <2>3. calls' \in [Calls -> [st : CallState, on : Sockets \cup {None}]]
    BY <2>2 DEF TypeOK, CallState
  <2>4. TypeOK'
    BY <2>1, <2>3 DEF TypeOK
  <2>5. \A c \in Calls : calls'[c].st = "pending" =>
          calls'[c] = calls[c] \/ (Usable(ws) /\ calls'[c].on = ws)
    BY <2>2
  <2>6. PendingInv' /\ ClosedInv'
    BY <2>1, <2>5 DEF PendingInv, ClosedInv, Pending, Usable, TypeOK
  <2>7. ReadyInv' /\ ReadyIsBacked'
    BY <2>1 DEF ReadyInv, ReadyIsBacked, TypeOK
  <2> QED BY <2>4, <2>6, <2>7
<1>5. ASSUME HandshakeTimeout(s) PROVE IInv'
  <2>1. Fail(s) /\ state' = "failed" /\ sock' = Closing(s)
        /\ UNCHANGED <<ws, wait, timer, closed, dials, shake, missed>>
    BY <1>5 DEF HandshakeTimeout
  <2>2. PICK C : calls' = Settle(C, "rejected")
    BY <2>1, FailFact
  <2>3. TypeOK'
    BY <2>1, <2>2, FailFact, SettleType, ClosingFact DEF TypeOK, CallRec
  <2>4. \A c \in Calls : calls'[c].st = "pending" => calls'[c] = calls[c]
    BY <2>2, SettlePending
  <2>5. PendingInv' /\ ClosedInv'
    BY <2>1, <2>4, ClosingFact DEF PendingInv, ClosedInv, Pending
  <2>6. ReadyInv' /\ ReadyIsBacked'
    BY <2>1, FailFact, ClosingFact DEF ReadyInv, ReadyIsBacked, TypeOK
  <2> QED BY <2>3, <2>5, <2>6
<1> QED BY <1>1, <1>2, <1>3, <1>4, <1>5

LEMMA CloseEventStep == ASSUME IInv, NEW s \in Sockets, CloseEvent(s) PROVE IInv'
<1> USE DEF IInv, CloseEvent
<1>1. calls' = Settle(Pending \cup Waiting(s), "rejected")
  BY DEF Dropped
<1>2. calls' \in [Calls -> [st : CallState, on : Sockets \cup {None}]]
  BY <1>1, SettleType DEF CallRec
<1>3. state' \in {"idle", "connecting", "ready", "unpaired", "failed"}
      /\ (~closed => state' # "ready")
  BY DEF StateAfter, TypeOK
<1>4. wait' \in {"none", "backoff", "minute"} /\ timer' \in BOOLEAN
  BY DEF TypeOK, Schedules, Backoff
<1>5. TypeOK'
  BY <1>2, <1>3, <1>4 DEF TypeOK
<1>6. \A c \in Calls : calls'[c].st # "pending"
  BY <1>1, SettlePending DEF Pending
<1>7. PendingInv' /\ ClosedInv'
  BY <1>6 DEF PendingInv, ClosedInv, Pending, Schedules
<1>8. ReadyInv' /\ ReadyIsBacked'
  BY <1>3 DEF ReadyInv, ReadyIsBacked
<1> QED BY <1>5, <1>7, <1>8

LEMMA TimerStep ==
  ASSUME IInv, TimerFires \/ WindowEnds PROVE IInv'
<1> USE DEF IInv
<1>1. CASE TimerFires /\ MayDial /\ Dial
  <2>1. ~closed /\ timer' = FALSE
        /\ UNCHANGED <<wait, closed, shake, settled, calls>>
    BY <1>1 DEF TimerFires, MayDial
  <2>2. TypeOK'
    BY <1>1, <2>1, DialFact DEF TypeOK
  <2> QED BY <1>1, <2>1, <2>2, DialFact DEF PendingInv, ReadyInv, ClosedInv, ReadyIsBacked,
             Pending, Gone, TypeOK
<1>2. CASE TimerFires /\ ~(MayDial /\ Dial)
  <2>1. timer' = FALSE /\ state' \in {state, "failed"} /\ missed' \in BOOLEAN
        /\ UNCHANGED <<dials, ws, ready, sock, wait, closed, shake, settled, calls>>
    BY <1>2 DEF TimerFires, DialThrows, NoDial, TypeOK
  <2> QED BY <2>1 DEF TypeOK, PendingInv, ReadyInv, ClosedInv, ReadyIsBacked, Pending
<1>3. CASE WindowEnds
  <2>1. wait' \in {"none", wait}
        /\ UNCHANGED <<state, ws, ready, timer, closed, dials, sock, shake, settled, calls,
                       missed>>
    BY <1>3 DEF WindowEnds
  <2> QED BY <2>1 DEF TypeOK, PendingInv, ReadyInv, ClosedInv, ReadyIsBacked, Pending
<1> QED BY <1>1, <1>2, <1>3

LEMMA CloseStep == ASSUME IInv, Close PROVE IInv'
<1> USE DEF IInv
<1>1. /\ closed' = TRUE /\ timer' = FALSE /\ ws' = None /\ sock' = Closing(ws)
      /\ calls' = Settle(Pending, "rejected")
      /\ UNCHANGED <<state, ready, wait, dials, shake, settled, missed>>
  BY DEF Close, ClosedTimer
<1>2. TypeOK'
  BY <1>1, SettleType, ClosingFact DEF TypeOK, CallRec
<1>3. \A c \in Calls : calls'[c].st # "pending"
  BY <1>1, SettlePending DEF Pending
<1>4. PendingInv' /\ ClosedInv'
  BY <1>1, <1>3 DEF PendingInv, ClosedInv, Pending
<1>5. ReadyInv' /\ ReadyIsBacked'
  BY <1>1, ClosingFact DEF ReadyInv, ReadyIsBacked, TypeOK
<1> QED BY <1>2, <1>4, <1>5

LEMMA NextIInv == IInv /\ [Next]_vars => IInv'
<1> SUFFICES ASSUME IInv, [Next]_vars PROVE IInv'
  OBVIOUS
<1>1. CASE UNCHANGED vars
  BY <1>1 DEF vars, IInv, TypeOK, PendingInv, ReadyInv, ClosedInv, ReadyIsBacked, Pending
<1>2. CASE Next
  BY <1>2, CallStep, ResponseStep, HandshakeStep, CloseEventStep, TimerStep, CloseStep
     DEF Next
<1> QED BY <1>1, <1>2

(***************************************************************************)
(* A link without a timer has a socket left, unless the timer fired in     *)
(* vain; and a dial that is shared has its socket (ReadyInv).              *)
(***************************************************************************)
Left == \E s \in Sockets : sock[s] \notin Gone

Comes == ~closed /\ dials > 0 => timer \/ missed \/ Left

LEMMA ComesFact == IInv => (NeverStranded <=> Comes)
  BY DEF IInv, TypeOK, ReadyInv, NeverStranded, Comes, Left, Gone

LEMMA StrandedStep == ASSUME IInv, Comes, [Next]_vars PROVE Comes'
<1> USE DEF IInv, Comes
<1>1. ASSUME Dial PROVE Left'
  BY <1>1, DialFact DEF Left, Gone, TypeOK
<1>2. ASSUME NEW s \in Sockets \cup {None}, sock' = Closing(s) PROVE Left => Left'
  BY <1>2, ClosingFact DEF Left
<1>3. ASSUME NEW c \in Calls, Call(c) PROVE Comes'
  <2>1. CASE Dial
    BY <1>1, <2>1
  <2>2. CASE ~Dial
    BY <1>3, <2>2 DEF Call, DialThrows, NoDial, Left
  <2> QED BY <2>1, <2>2
<1>4. ASSUME NEW c \in Calls, Response(c) \/ RequestTimeout(c) PROVE Comes'
  <2>1. UNCHANGED <<timer, closed, dials, missed>>
    BY <1>4 DEF Response, RequestTimeout
  <2>2. sock' = sock \/ sock' = Closing(ws)
    BY <1>4 DEF Response, RequestTimeout
  <2>3. Left => Left'
    BY <1>2, <2>2 DEF Left, TypeOK
  <2> QED BY <2>1, <2>3
<1>5. ASSUME NEW s \in Sockets,
             \/ Opens(s) \/ Challenge(s) \/ ChallengeEmpty(s) \/ Accepted(s)
             \/ (\E answer \in Answers : Refused(s, answer)) \/ HandshakeTimeout(s)
      PROVE  Comes'
  <2>1. UNCHANGED <<timer, closed, dials, missed>>
    BY <1>5 DEF Opens, Challenge, ChallengeEmpty, Accepted, Refused, HandshakeTimeout
  <2>2. \/ sock' = sock \/ sock' = Closing(s)
        \/ sock[s] = "connecting" /\ sock' = [sock EXCEPT ![s] = "open"]
    BY <1>5 DEF Opens, Challenge, ChallengeEmpty, Accepted, Refused, HandshakeTimeout
  <2>3. Left => Left'
    BY <1>2, <2>2 DEF Left, Gone, TypeOK
  <2> QED BY <2>1, <2>3
<1>6. ASSUME NEW s \in Sockets, CloseEvent(s) PROVE Comes'
  BY <1>6 DEF CloseEvent, Schedules, TypeOK
<1>7. ASSUME TimerFires PROVE Comes'
  <2>1. CASE Dial
    BY <1>1, <2>1
  <2>2. CASE MayDial /\ DialThrows
    BY <1>7, <2>2 DEF TimerFires, DialThrows, Dial
  <2>3. CASE ~MayDial /\ NoDial
    <3>1. missed' = (missed \/ wait # "none") /\ UNCHANGED <<dials, ready, ws, sock, closed>>
      BY <1>7, <2>3 DEF TimerFires, NoDial
    <3>2. ASSUME ~closed, wait = "none" PROVE Left
      <4>1. CASE ready # None
        BY <4>1 DEF ReadyInv, TypeOK, Left
      <4>2. CASE ready = None
        <5>1. ws \in Sockets /\ sock[ws] = "open"
          BY <2>3, <3>2, <4>2 DEF MayDial, Live, Usable, TypeOK
        <5> QED BY <5>1 DEF Gone, Left
      <4> QED BY <4>1, <4>2
    <3> QED BY <3>1, <3>2 DEF Left
  <2> QED BY <1>7, <2>1, <2>2, <2>3 DEF TimerFires
<1>8. ASSUME WindowEnds \/ UNCHANGED vars PROVE Comes'
  BY <1>8 DEF WindowEnds, vars, Left
<1>9. ASSUME Close PROVE Comes'
  BY <1>9 DEF Close
<1> QED BY <1>3, <1>4, <1>5, <1>6, <1>7, <1>8, <1>9 DEF Next

(***************************************************************************)
(* A closed link does nothing any more.                                    *)
(***************************************************************************)
LEMMA QuietStep ==
  ASSUME IInv, IInv', [Next]_vars, closed
  PROVE  dials' = dials /\ ~timer' /\ \A c \in Calls : calls'[c].st # "pending"
<1> USE DEF IInv
<1>1. closed'
  BY DEF Next, Call, Response, RequestTimeout, Opens, Challenge, ChallengeEmpty, Accepted,
         Refused, HandshakeTimeout, CloseEvent, TimerFires, WindowEnds, Close,
         vars
<1>2. ~timer' /\ \A c \in Calls : calls'[c].st # "pending"
  BY <1>1 DEF ClosedInv, Pending
<1>3. dials' = dials
  BY DEF Next, Call, Response, RequestTimeout, Opens, Challenge, ChallengeEmpty, Accepted,
         Refused, HandshakeTimeout, CloseEvent, TimerFires, WindowEnds, Close,
         vars, MayDial, DialThrows, NoDial
<1> QED BY <1>2, <1>3

(***************************************************************************)
(* Pairing.  What is still to do holds what the script claims and has not  *)
(* paired, unless it says that something failed.                           *)
(***************************************************************************)
Busy == {"connect", "approve", "check"}

LoadersUp == \A p \in Loaders : loader[p].at = "up" => loader[p].id \in Ids

ScriptUnderWay ==
  /\ script.at # "off" => script.id \in Ids
  /\ script.at \in Busy <=> script.todo # << >>

ClaimsMet ==
  script.at # "off" /\ ~script.failed =>
    \A g \in script.claims : script.id \in paired[g] \/ g \in Range(script.todo)

PairInv == PairingTypeOK /\ LoadersUp /\ ScriptUnderWay /\ ClaimsMet

LEMMA TailFact ==
  ASSUME NEW S, NEW s \in Seq(S), s # << >>
  PROVE  /\ Head(s) \in S /\ Tail(s) \in Seq(S)
         /\ Len(s) > 1 <=> Tail(s) # << >>
         /\ Range(s) = {Head(s)} \cup Range(Tail(s))
<1>1. Len(s) \in Nat \ {0} /\ DOMAIN s = 1..Len(s) /\ Head(s) = s[1] /\ Head(s) \in S
  OBVIOUS
<1>2. /\ Tail(s) \in Seq(S) /\ Len(Tail(s)) = Len(s) - 1
      /\ DOMAIN Tail(s) = 1..(Len(s) - 1)
      /\ \A i \in 1..(Len(s) - 1) : Tail(s)[i] = s[i + 1]
  OBVIOUS
<1>3. ASSUME NEW i \in 1..Len(s) PROVE s[i] \in {Head(s)} \cup Range(Tail(s))
  <2>1. CASE i = 1
    BY <1>1, <2>1
  <2>2. CASE i # 1
    <3>1. i - 1 \in 1..(Len(s) - 1) /\ (i - 1) + 1 = i
      BY <1>1, <2>2
    <3>2. s[i] = Tail(s)[i - 1]
      BY <1>2, <3>1
    <3> QED BY <1>2, <3>1, <3>2 DEF Range
  <2> QED BY <2>1, <2>2
<1>4. \A i \in 1..(Len(s) - 1) : i + 1 \in 1..Len(s)
  BY <1>1
<1>5. Range(Tail(s)) \subseteq Range(s) /\ Head(s) \in Range(s)
  BY <1>1, <1>2, <1>4 DEF Range
<1>6. Range(s) \subseteq {Head(s)} \cup Range(Tail(s))
  BY <1>1, <1>3 DEF Range
<1>7. Len(s) > 1 <=> Tail(s) # << >>
  <2>1. Tail(s) = << >> <=> Len(Tail(s)) = 0
    BY <1>2, EmptySeq
  <2> QED BY <1>1, <1>2, <2>1
<1> QED BY <1>1, <1>2, <1>5, <1>6, <1>7

LEMMA InitPairInv == PairingInit => PairInv
<1> SUFFICES ASSUME PairingInit PROVE PairInv
  OBVIOUS
<1> USE PairingAssumption
<1>1. /\ file \in Ids \cup {NoId, Torn} /\ made \in 0..MaxIds /\ left \in Seq(Gateways)
      /\ link \in [Gateways -> {"none", "unpaired", "ready"}]
      /\ paired \in [Gateways -> SUBSET Ids] /\ pending \in [Gateways -> SUBSET Ids]
  BY DEF PairingInit
<1>2. loader \in [Loaders -> LoaderState]
  BY DEF PairingInit, LoaderState
<1>3. script \in ScriptState
  BY DEF PairingInit, ScriptState
<1>4. PairingTypeOK
  BY <1>1, <1>2, <1>3 DEF PairingTypeOK
<1>5. LoadersUp /\ ScriptUnderWay /\ ClaimsMet
  BY DEF PairingInit, LoadersUp, ScriptUnderWay, ClaimsMet, Busy
<1> QED BY <1>4, <1>5 DEF PairInv

\* What the script's own steps make of its record.
LEMMA OnToFact ==
  ASSUME script \in ScriptState, script.todo # << >>, NEW failed \in BOOLEAN
  PROVE  /\ OnTo(failed) \in ScriptState
         /\ OnTo(failed).at = IF Tail(script.todo) # << >> THEN "connect" ELSE "done"
         /\ OnTo(failed).todo = Tail(script.todo) /\ OnTo(failed).id = script.id
         /\ OnTo(failed).claims = script.claims
         /\ OnTo(failed).failed = (script.failed \/ failed)
<1> DEFINE at == IF Len(script.todo) > 1 THEN "connect" ELSE "done"
           todo == Tail(script.todo)
           any == script.failed \/ failed
           next == [script EXCEPT !.at = at, !.todo = todo, !.held = FALSE, !.failed = any]
<1>1. script.todo \in Seq(Gateways) /\ script.failed \in BOOLEAN
  BY DEF ScriptState
<1>2. todo \in Seq(Gateways) /\ (Len(script.todo) > 1 <=> Tail(script.todo) # << >>)
  BY <1>1, TailFact
<1>3. any \in BOOLEAN /\ at \in {"connect", "done"}
  BY <1>1
<1>4. OnTo(failed) = next
  BY DEF OnTo
<1> HIDE DEF at, todo, any
<1>5. /\ next \in ScriptState /\ next.at = at /\ next.todo = todo /\ next.id = script.id
      /\ next.claims = script.claims /\ next.failed = any
  BY <1>2, <1>3 DEF ScriptState
<1> HIDE DEF next
<1> QED BY <1>2, <1>4, <1>5 DEF at, todo, any

\* A record that differs in where the script is and whether its request stands.
Same(s) ==
  /\ s \in ScriptState
  /\ s.todo = script.todo /\ s.id = script.id
  /\ s.claims = script.claims /\ s.failed = script.failed

LEMMA SameFact ==
  ASSUME script \in ScriptState
  PROVE  /\ \A held \in BOOLEAN : LET s == [script EXCEPT !.held = held]
                                  IN Same(s) /\ s.at = script.at
         /\ Same(ToApprove) /\ ToApprove.at = "approve"
         /\ Same(ToCheck) /\ ToCheck.at = "check"
  BY DEF Same, ScriptState, ToApprove, ToCheck

(***************************************************************************)
(* Steps of the processes that load the identity, of links and of gateways *)
(***************************************************************************)
\* What keeps the script's part of the invariant.
LEMMA ScriptKept ==
  ASSUME PairInv, Same(script'), script'.at = script.at, UNCHANGED paired
  PROVE  ScriptUnderWay' /\ ClaimsMet'
<1>1. ScriptUnderWay'
  BY DEF PairInv, ScriptUnderWay, Same, Busy
<1>2. ClaimsMet'
  BY DEF PairInv, ClaimsMet, Same
<1> QED BY <1>1, <1>2

LEMMA SameScript == ASSUME PairInv, UNCHANGED script PROVE Same(script') /\ script'.at = script.at
  BY DEF PairInv, PairingTypeOK, Same

LEMMA AsksFact ==
  ASSUME PairInv, NEW g \in Gateways, NEW id \in Ids, Asks(g, id)
  PROVE  pending' \in [Gateways -> SUBSET Ids]
  BY DEF PairInv, PairingTypeOK, Asks

LEMMA FleetFact == Fleet \in Seq(Gateways) /\ << >> \in Seq(Gateways)
  BY PairingAssumption DEF Gateways

LEMMA LoaderSet ==
  ASSUME PairInv, NEW p \in Loaders, NEW s \in LoaderState, s.at = "up" => s.id \in Ids,
         loader' = [loader EXCEPT ![p] = s]
  PROVE  loader' \in [Loaders -> LoaderState] /\ LoadersUp'
  BY DEF PairInv, PairingTypeOK, LoadersUp

LEMMA UpFact ==
  ASSUME PairInv, NEW p \in Loaders, NEW id \in Ids, Up(p, id)
  PROVE  loader' \in [Loaders -> LoaderState] /\ LoadersUp' /\ left' \in Seq(Gateways)
<1> DEFINE s == [at |-> "up", id |-> id]
<1>1. s \in LoaderState /\ s.id \in Ids
  BY DEF LoaderState
<1>2. loader' = [loader EXCEPT ![p] = s] /\ left' \in {Fleet, left}
  BY DEF Up
<1> HIDE DEF s
<1>3. loader' \in [Loaders -> LoaderState] /\ LoadersUp'
  BY <1>1, <1>2, LoaderSet
<1> QED BY <1>2, <1>3, FleetFact DEF PairInv, PairingTypeOK

LEMMA IdentityStep ==
  ASSUME PairInv,
         \/ \E p \in Loaders : Load(p) \/ CreateStops(p) \/ Create(p)
         \/ Cleanup \/ LosesField \/ CloseAll \/ ProbeEnds
  PROVE  PairInv'
<1> USE PairingAssumption
<1>1. ScriptUnderWay' /\ ClaimsMet' /\ UNCHANGED <<script, gatewayVars>>
  <2>1. UNCHANGED <<script, gatewayVars>>
    BY DEF Load, CreateStops, Create, Cleanup, LosesField, CloseAll, ProbeEnds
  <2> QED BY <2>1, SameScript, ScriptKept DEF gatewayVars
<1>2. ASSUME file' \in Ids \cup {NoId, Torn, Bare}, made' \in 0..MaxIds,
             loader' \in [Loaders -> LoaderState], LoadersUp', left' \in Seq(Gateways),
             link' \in [Gateways -> {"none", "unpaired", "ready"}]
      PROVE  PairInv'
  BY <1>1, <1>2 DEF PairInv, PairingTypeOK, gatewayVars
<1>3. /\ file \in Ids \cup {NoId, Torn, Bare} /\ made \in 0..MaxIds
      /\ loader \in [Loaders -> LoaderState] /\ left \in Seq(Gateways)
      /\ link \in [Gateways -> {"none", "unpaired", "ready"}] /\ LoadersUp
  BY DEF PairInv, PairingTypeOK
<1>4. ASSUME NEW p \in Loaders, NEW at \in {"off", "creating"},
             loader' = [loader EXCEPT ![p].at = at]
      PROVE  loader' \in [Loaders -> LoaderState] /\ LoadersUp'
  <2> DEFINE s == [loader[p] EXCEPT !.at = at]
  <2>1. s \in LoaderState /\ s.at # "up"
    BY <1>3 DEF LoaderState
  <2>2. loader' = [loader EXCEPT ![p] = s]
    BY <1>4
  <2> HIDE DEF s
  <2> QED BY <2>1, <2>2, LoaderSet
<1>5. ASSUME NEW p \in Loaders, Load(p) PROVE PairInv'
  <2>1. UNCHANGED <<file, made, link>>
    BY <1>5 DEF Load
  <2>2. CASE file \in Ids /\ Up(p, file)
    BY <1>2, <1>3, <2>1, <2>2, UpFact
  <2>3. CASE UNCHANGED left /\ loader' = [loader EXCEPT ![p].at = "creating"]
    BY <1>2, <1>3, <1>4, <2>1, <2>3
  <2> QED BY <1>5, <2>2, <2>3 DEF Load
<1>6. ASSUME NEW p \in Loaders, Create(p) PROVE PairInv'
  <2>1. made + 1 \in Ids /\ made' = made + 1 /\ file' = made + 1 /\ UNCHANGED link
    BY <1>3, <1>6 DEF Create, Ids
  <2>2. loader' \in [Loaders -> LoaderState] /\ LoadersUp' /\ left' \in Seq(Gateways)
    BY <1>6, <2>1, UpFact DEF Create
  <2>3. made' \in 0..MaxIds
    BY <2>1 DEF Ids
  <2> QED BY <1>2, <1>3, <2>1, <2>2, <2>3
<1>7. ASSUME NEW p \in Loaders, CreateStops(p) PROVE PairInv'
  <2>1. UNCHANGED <<made, left, link>> /\ file' = Torn
        /\ loader' = [loader EXCEPT ![p].at = "off"]
    BY <1>7 DEF CreateStops
  <2> QED BY <1>2, <1>3, <1>4, <2>1
<1>8. CASE Cleanup \/ LosesField
  BY <1>2, <1>3, <1>8 DEF Cleanup, LosesField, LoadersUp
<1>9. CASE CloseAll \/ ProbeEnds
  <2> DEFINE s == [at |-> "off", id |-> NoId]
  <2>1. s \in LoaderState /\ s.at # "up"
    BY DEF LoaderState
  <2>2. PICK p \in Loaders : loader' = [loader EXCEPT ![p] = s]
    BY <1>9 DEF CloseAll, ProbeEnds, Loaders
  <2> HIDE DEF s
  <2>3. loader' \in [Loaders -> LoaderState] /\ LoadersUp'
    BY <2>1, <2>2, LoaderSet
  <2>4. UNCHANGED <<file, made, left>>
        /\ link' \in [Gateways -> {"none", "unpaired", "ready"}]
    BY <1>3, <1>9 DEF CloseAll, ProbeEnds
  <2> QED BY <1>2, <1>3, <2>3, <2>4
<1> QED BY <1>5, <1>6, <1>7, <1>8, <1>9

LEMMA Untouched ==
  ASSUME PairInv, UNCHANGED identityVars
  PROVE  /\ LoadersUp'
         /\ file' \in Ids \cup {NoId, Torn, Bare} /\ made' \in 0..MaxIds
         /\ loader' \in [Loaders -> LoaderState]
  BY DEF PairInv, PairingTypeOK, LoadersUp, identityVars

LEMMA MayReplaceFact ==
  ASSUME PairInv, NEW g, NEW id, MayReplace(g, id)
  PROVE  Same(script') /\ script'.at = script.at
<1>1. script \in ScriptState
  BY DEF PairInv, PairingTypeOK
<1> QED BY <1>1, SameScript, SameFact DEF MayReplace

LEMMA HandshakeKeeps ==
  ASSUME PairInv,
         \/ \E g \in Gateways : Connect(g) \/ Drop(g) \/ \E id \in Ids : Expires(g, id)
         \/ Probe
  PROVE  PairInv'
<1>1. /\ link \in [Gateways -> {"none", "unpaired", "ready"}]
      /\ pending \in [Gateways -> SUBSET Ids] /\ paired \in [Gateways -> SUBSET Ids]
      /\ left \in Seq(Gateways) /\ script \in ScriptState
  BY DEF PairInv, PairingTypeOK
<1>2. ASSUME UNCHANGED <<identityVars, paired>>, left' \in Seq(Gateways),
             link' \in [Gateways -> {"none", "unpaired", "ready"}],
             pending' \in [Gateways -> SUBSET Ids],
             Same(script'), script'.at = script.at
      PROVE  PairInv'
  <2>1. script' \in ScriptState
    BY <1>2 DEF Same
  <2> QED BY <1>1, <1>2, <2>1, Untouched, ScriptKept DEF PairInv, PairingTypeOK
<1>3. ASSUME NEW g \in Gateways, Connect(g) PROVE PairInv'
  <2>1. /\ loader["api"].at = "up" /\ UNCHANGED <<identityVars, left, paired>>
        /\ link' \in [Gateways -> {"none", "unpaired", "ready"}]
    BY <1>1, <1>3 DEF Connect
  <2>2. loader["api"].id \in Ids
    BY <2>1 DEF PairInv, LoadersUp, Loaders
  <2>3. CASE UNCHANGED <<pending, script>>
    BY <1>1, <1>2, <2>1, <2>3, SameScript
  <2>4. CASE Asks(g, loader["api"].id) /\ MayReplace(g, loader["api"].id)
    BY <1>1, <1>2, <2>1, <2>2, <2>4, AsksFact, MayReplaceFact
  <2> QED BY <1>3, <2>3, <2>4 DEF Connect
<1>4. ASSUME NEW g \in Gateways, Drop(g) PROVE PairInv'
  <2>1. link' \in [Gateways -> {"none", "unpaired", "ready"}]
    BY <1>1, <1>4 DEF Drop
  <2> QED BY <1>1, <1>2, <1>4, <2>1, SameScript DEF Drop, gatewayVars
<1>5. ASSUME NEW g \in Gateways, NEW id \in Ids, Expires(g, id) PROVE PairInv'
  <2>1. UNCHANGED <<identityVars, left, link, paired>>
        /\ pending' \in [Gateways -> SUBSET Ids]
    BY <1>1, <1>5 DEF Expires
  <2> DEFINE held == script.held /\ ~IsHeld(g, id)
  <2>2. script' = [script EXCEPT !.held = held]
    BY <1>5 DEF Expires
  <2>3. held \in BOOLEAN
    OBVIOUS
  <2> HIDE DEF held
  <2>4. Same(script') /\ script'.at = script.at
    BY <1>1, <2>2, <2>3, SameFact
  <2> QED BY <1>1, <1>2, <2>1, <2>4
<1>6. CASE Probe
  <2>1. /\ loader["probe"].at = "up" /\ left # << >> /\ left' = Tail(left)
        /\ UNCHANGED <<identityVars, link, paired>>
    BY <1>6 DEF Probe
  <2>2. loader["probe"].id \in Ids /\ Head(left) \in Gateways /\ Tail(left) \in Seq(Gateways)
    BY <1>1, <2>1, TailFact DEF PairInv, LoadersUp, Loaders
  <2>3. CASE UNCHANGED <<pending, script>>
    BY <1>1, <1>2, <2>1, <2>2, <2>3, SameScript
  <2>4. CASE Asks(Head(left), loader["probe"].id) /\ MayReplace(Head(left), loader["probe"].id)
    BY <1>1, <1>2, <2>1, <2>2, <2>4, AsksFact, MayReplaceFact
  <2> QED BY <1>6, <2>3, <2>4 DEF Probe
<1> QED BY <1>3, <1>4, <1>5, <1>6

(***************************************************************************)
(* Steps of the pairing script.                                            *)
(***************************************************************************)
\* On to the next gateway: what is claimed of this one holds, or it failed.
LEMMA OnToKeeps ==
  ASSUME PairInv, script.at \in Busy, NEW failed \in BOOLEAN, script' = OnTo(failed),
         UNCHANGED paired,
         failed \/ script.claims = {} \/ script.id \in paired[Head(script.todo)]
  PROVE  script' \in ScriptState /\ ScriptUnderWay' /\ ClaimsMet'
<1>1. script \in ScriptState /\ script.todo # << >> /\ script.id \in Ids
  BY DEF PairInv, PairingTypeOK, ScriptUnderWay, Busy
<1>2. /\ script' \in ScriptState
      /\ script'.at = (IF Tail(script.todo) # << >> THEN "connect" ELSE "done")
      /\ script'.todo = Tail(script.todo) /\ script'.id = script.id
      /\ script'.claims = script.claims /\ script'.failed = (script.failed \/ failed)
  BY <1>1, OnToFact
<1>3. ScriptUnderWay'
  BY <1>1, <1>2 DEF ScriptUnderWay, Busy
<1>4. Range(script.todo) = {Head(script.todo)} \cup Range(Tail(script.todo))
  BY <1>1, TailFact DEF ScriptState
<1>5. ASSUME ~script'.failed, NEW g \in script'.claims
      PROVE  script'.id \in paired'[g] \/ g \in Range(script'.todo)
  <2>1. script.id \in paired[g] \/ g \in Range(script.todo)
    BY <1>2, <1>5 DEF PairInv, ClaimsMet, Busy
  <2>2. script.id \in paired[Head(script.todo)]
    BY <1>2, <1>5
  <2> QED BY <1>2, <1>4, <2>1, <2>2
<1>6. ClaimsMet'
  BY <1>5 DEF ClaimsMet
<1> QED BY <1>2, <1>3, <1>6

\* What failed claims nothing.
LEMMA FailedKeeps ==
  ASSUME PairInv, script.at \in Busy, script' = OnTo(TRUE)
  PROVE  script' \in ScriptState /\ ScriptUnderWay' /\ ClaimsMet'
<1>1. script \in ScriptState /\ script.todo # << >> /\ script.id \in Ids
  BY DEF PairInv, PairingTypeOK, ScriptUnderWay, Busy
<1>2. /\ script' \in ScriptState
      /\ script'.at = (IF Tail(script.todo) # << >> THEN "connect" ELSE "done")
      /\ script'.todo = Tail(script.todo) /\ script'.id = script.id
      /\ script'.failed = (script.failed \/ TRUE)
  BY <1>1, OnToFact
<1> QED BY <1>1, <1>2 DEF ScriptUnderWay, ClaimsMet, Busy

LEMMA ScriptStep ==
  ASSUME PairInv,
         \/ \E todo \in Chosen, dry \in BOOLEAN : Start(todo, dry)
         \/ First \/ Approve \/ Check
  PROVE  PairInv'
<1> DEFINE gw == Head(script.todo)
<1>1. /\ link \in [Gateways -> {"none", "unpaired", "ready"}]
      /\ pending \in [Gateways -> SUBSET Ids] /\ paired \in [Gateways -> SUBSET Ids]
      /\ left \in Seq(Gateways) /\ script \in ScriptState
  BY DEF PairInv, PairingTypeOK
<1>2. ASSUME UNCHANGED <<identityVars, left, link>>, script' \in ScriptState,
             ScriptUnderWay', ClaimsMet',
             pending' \in [Gateways -> SUBSET Ids], paired' \in [Gateways -> SUBSET Ids]
      PROVE  PairInv'
  BY <1>1, <1>2, Untouched DEF PairInv, PairingTypeOK
<1>3. script.at \in Busy => gw \in Gateways /\ script.id \in Ids
  BY <1>1, TailFact DEF PairInv, ScriptUnderWay, ScriptState, Busy
<1>4. ASSUME NEW todo \in Chosen, NEW dry \in BOOLEAN, Start(todo, dry) PROVE PairInv'
  <2> DEFINE at == IF todo = << >> THEN "done" ELSE "connect"
             claims == IF dry THEN {} ELSE Range(todo)
             new == [at |-> at, todo |-> todo, id |-> file, held |-> FALSE,
                     claims |-> claims, failed |-> FALSE]
  <2>1. script' = new /\ file \in Ids /\ UNCHANGED <<identityVars, left, link, gatewayVars>>
    BY <1>4 DEF Start
  <2>2. todo \in Seq(Gateways)
    <3>1. ASSUME NEW g \in Gateways, todo = <<g>> PROVE todo \in Seq(Gateways)
      BY <3>1
    <3>2. todo = Fleet \/ todo = << >> \/ \E g \in Gateways : todo = <<g>>
      BY Zenon DEF Chosen
    <3> QED BY <3>1, <3>2, FleetFact, Zenon
  <2>3. claims \subseteq Range(todo) /\ claims \in SUBSET Gateways
    BY <2>2 DEF Range
  <2>4. at \in {"done", "connect"} /\ (at = "connect" <=> todo # << >>)
    OBVIOUS
  <2> HIDE DEF at, claims
  <2>5. /\ script' \in ScriptState /\ script'.at = at /\ script'.todo = todo
        /\ script'.id \in Ids /\ script'.claims = claims
    BY <2>1, <2>2, <2>3, <2>4 DEF ScriptState
  <2>6. ScriptUnderWay' /\ ClaimsMet'
    BY <2>3, <2>4, <2>5 DEF ScriptUnderWay, ClaimsMet, Busy
  <2> QED BY <1>1, <1>2, <2>1, <2>5, <2>6 DEF gatewayVars
<1>5. ASSUME Same(script'), script.at \in Busy, script'.at \in Busy,
             \A g \in script.claims : paired[g] \subseteq paired'[g]
      PROVE  script' \in ScriptState /\ ScriptUnderWay' /\ ClaimsMet'
  <2>1. script' \in ScriptState
    BY <1>5 DEF Same
  <2>2. ScriptUnderWay'
    BY <1>5 DEF PairInv, ScriptUnderWay, Same, Busy
  <2>3. ClaimsMet'
    BY <1>5 DEF PairInv, ClaimsMet, Same, Busy
  <2> QED BY <2>1, <2>2, <2>3
<1>6. CASE First
  <2>1. script.at \in Busy /\ UNCHANGED <<identityVars, left, link, paired>>
    BY <1>6 DEF First, Busy
  <2>2. pending' \in [Gateways -> SUBSET Ids]
    BY <1>1, <1>3, <1>6, <2>1, AsksFact DEF First
  <2>3. script' \in ScriptState /\ ScriptUnderWay' /\ ClaimsMet'
    <3>1. CASE script' = OnTo(TRUE)
      BY <2>1, <3>1, OnToKeeps
    <3>2. CASE script' = OnTo(FALSE) /\ (script.claims = {} \/ script.id \in paired[gw])
      BY <2>1, <3>2, OnToKeeps
    <3>3. CASE script' = ToApprove
      BY <1>1, <1>5, <2>1, <3>3, SameFact DEF Busy
    <3> QED BY <1>6, <3>1, <3>2, <3>3 DEF First
  <2> QED BY <1>1, <1>2, <2>1, <2>2, <2>3
<1>7. CASE Approve
  <2>1. script.at \in Busy /\ UNCHANGED <<identityVars, left, link>>
    BY <1>7 DEF Approve, Busy
  <2>2. /\ pending' \in [Gateways -> SUBSET Ids] /\ paired' \in [Gateways -> SUBSET Ids]
        /\ \A g \in Gateways : paired[g] \subseteq paired'[g]
    BY <1>1, <1>3, <1>7, <2>1 DEF Approve
  <2>3. script.claims \subseteq Gateways
    BY <1>1 DEF ScriptState
  <2>4. script' \in ScriptState /\ ScriptUnderWay' /\ ClaimsMet'
    <3>1. CASE script' = OnTo(TRUE)
      BY <1>1, <2>1, <3>1, FailedKeeps
    <3>2. CASE script' = ToCheck
      BY <1>1, <1>5, <2>1, <2>2, <2>3, <3>2, SameFact DEF Busy
    <3> QED BY <1>7, <3>1, <3>2 DEF Approve
  <2> QED BY <1>2, <2>1, <2>2, <2>4
<1>8. CASE Check
  <2>1. script.at \in Busy /\ UNCHANGED <<identityVars, left, link, paired>>
    BY <1>8 DEF Check, Busy
  <2>2. pending' \in [Gateways -> SUBSET Ids]
    BY <1>1, <1>3, <1>8, <2>1, AsksFact DEF Check
  <2>3. script' \in ScriptState /\ ScriptUnderWay' /\ ClaimsMet'
    <3>1. CASE script' = OnTo(TRUE)
      BY <2>1, <3>1, OnToKeeps
    <3>2. CASE script' = OnTo(FALSE) /\ script.id \in paired[gw]
      BY <2>1, <3>2, OnToKeeps
    <3> QED BY <1>8, <3>1, <3>2 DEF Check
  <2> QED BY <1>1, <1>2, <2>1, <2>2, <2>3
<1> QED BY <1>4, <1>6, <1>7, <1>8

LEMMA NextPairInv == PairInv /\ [PairingNext]_pairingVars => PairInv'
<1> SUFFICES ASSUME PairInv, [PairingNext]_pairingVars PROVE PairInv'
  OBVIOUS
<1>1. CASE UNCHANGED pairingVars
  BY <1>1 DEF pairingVars, identityVars, gatewayVars, PairInv, PairingTypeOK, LoadersUp,
              ScriptUnderWay, ClaimsMet
<1>2. CASE Create("api") \/ ProbeCreates
  BY <1>2, IdentityStep DEF ProbeCreates, Loaders
<1> QED BY <1>1, <1>2, IdentityStep, HandshakeKeeps, ScriptStep DEF PairingNext

(***************************************************************************)
(* Every reachable state satisfies the inductive invariant.                *)
(***************************************************************************)
THEOREM Invariance == Spec => []IInv
  BY InitIInv, NextIInv, PTL DEF Spec

\* Type correctness: the link's pointers name sockets it has dialled.
THEOREM TypeCorrect == Spec => []TypeOK
  BY Invariance, PTL DEF IInv

\* No request in flight outlives the close event of its socket, for any number
\* of calls, dials and overlapping sockets.
THEOREM NoneLeftBehind == Spec => []PendingOnLiveSocket
<1>1. IInv => PendingOnLiveSocket
  BY DEF IInv, PendingInv, PendingOnLiveSocket
<1> QED BY <1>1, Invariance, PTL

\* The link says ready only while some socket whose handshake was accepted has
\* not reported its end; it need not be the link's current one.
THEOREM ReadyMeansAccepted == Spec => []ReadyIsBacked
  BY Invariance, PTL DEF IInv

\* A link that has dialled redials by itself for as long as its reconnect timer
\* does not fire in vain, and once it has, nothing keeps the next call from
\* dialling after the window: whatever the gateway and the callers do.
THEOREM HealsUnasked == Spec => []NeverStranded
<1>1. Init => Comes
  BY DEF Init, Comes
<1>2. IInv /\ Comes /\ [Next]_vars => Comes'
  BY StrandedStep
<1>3. IInv /\ Comes => NeverStranded
  BY ComesFact
<1> QED BY <1>1, <1>2, <1>3, Invariance, PTL DEF Spec

\* close() is final, whatever socket, timer or handshake is still around.
THEOREM CloseIsFinal == Spec => QuietAfterClose
<1>1. IInv /\ IInv' /\ [Next]_vars =>
        [closed => /\ dials' = dials /\ ~timer'
                   /\ \A c \in Calls : calls'[c].st # "pending"]_vars
  BY QuietStep
<1> QED BY <1>1, Invariance, PTL DEF Spec, QuietAfterClose

\* Type correctness of pairing: files, links and requests name identities that
\* were made, and the script and the probe go through the fleet.
THEOREM PairingTypeCorrect == PairingSpec => []PairingTypeOK
  BY InitPairInv, NextPairInv, PTL DEF PairingSpec, PairInv

\* A pairing script that reports no failure has paired the identity it read
\* with every gateway it claims (ReportIsTrue), for any fleet and any number of
\* identities: requests that expire or are replaced, an approval that did
\* nothing and one that did its work and failed included.
THEOREM ReportsAreTrue == PairingSpec => []ReportIsTrue
<1>1. PairInv => ReportIsTrue
  BY DEF PairInv, ScriptUnderWay, ClaimsMet, ReportIsTrue, Busy, Range
<1> QED BY <1>1, InitPairInv, NextPairInv, PTL DEF PairingSpec
=============================================================================
