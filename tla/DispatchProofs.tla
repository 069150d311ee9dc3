--------------------------- MODULE DispatchProofs ---------------------------
(***************************************************************************)
(* Theorems about Dispatch for every set of requests and topics, every     *)
(* bound and every combination of faults, checked by TLAPS.                *)
(***************************************************************************)
EXTENDS Dispatch, FiniteSetTheorems, WellFoundedInduction, TLAPS

(***************************************************************************)
(* The inductive invariant.                                                *)
(***************************************************************************)
Unique(recs) ==
  \A i, j \in Ids : recs[i].state = "dispatched" /\ recs[j].state = "dispatched" => i = j

TopicIn(recs, i) == IF recs[i].topic = None THEN i ELSE recs[i].topic

\* A pass that finds this request dispatched will not keep it in flight.
Over(recs, i) == i \in old \/ TopicIn(recs, i) \in landed

\* The request that is out: in the ledger of the last pass, ...
LedgerOut ==
  ledger # None =>
    /\ Unique(ledger)
    /\ \A i \in Ids : ledger[i].state = "dispatched" => manifest = i \/ Over(ledger, i)

\* ... in the pass before it has resolved what it loaded, ...
LoadedOut ==
  pc \in {"register", "resolve"} =>
    /\ \A i \in Ids : mem[i].state = "dispatched" => manifest = i \/ Over(mem, i)
    /\ ledger # None => \A i \in Ids : ledger[i].state = "dispatched" => mem[i] = ledger[i]

\* ... and after, when the ledger still holds what the pass has closed.
ResolvedOut ==
  /\ pc = "pick" =>
       /\ \A i \in Ids : mem[i].state = "dispatched" => i = inFlight
       /\ ledger # None =>
            \A i \in Ids : ledger[i].state = "dispatched" => mem[i].state # "queued"
  /\ pc = "publish" =>
       /\ \A i \in Ids : mem[i].state = "dispatched" => i = pick
       /\ inFlight # None => pick = inFlight
  /\ pc \in {"pick", "publish"} =>
       /\ inFlight # None => manifest = inFlight
       /\ inFlight = None /\ ledger # None =>
            \A i \in Ids : ledger[i].state = "dispatched" => Over(ledger, i)

Out == Unique(mem) /\ LedgerOut /\ LoadedOut /\ ResolvedOut /\ DispatchedIsVisible

IInv == TypeOK /\ Out

USE DispatchAssumption

(***************************************************************************)
(* Sets of ids.                                                            *)
(***************************************************************************)
LEMMA FirstIn == ASSUME NEW S \in SUBSET Ids, S # {} PROVE First(S) \in S
<1> DEFINE R == OpToRel(<, Nat)
<1>1. IsWellFoundedOn(R, Nat)
  BY NatLessThanWellFounded
<1>2. S \subseteq Nat
  OBVIOUS
<1>3. \A x, y \in Nat : y < x => <<y, x>> \in R
  BY DEF OpToRel
<1> HIDE DEF R
<1>4. PICK x \in S : \A y \in S : <<y, x>> \notin R
  BY <1>1, <1>2, WFMin
<1>5. ASSUME NEW y \in S PROVE x <= y
  <2>1. x \in Nat /\ y \in Nat
    BY <1>2
  <2>2. ~(y < x)
    BY <1>3, <1>4, <2>1
  <2> QED BY <2>1, <2>2
<1> QED BY <1>5 DEF First

LEMMA LastOfOne ==
  ASSUME NEW S \in SUBSET Ids, S # {}, \A i, j \in S : i = j
  PROVE  Last(S) \in S
<1>1. PICK i \in S : TRUE
  OBVIOUS
<1>2. \A j \in S : j <= i
  BY <1>1
<1> QED BY <1>1, <1>2 DEF Last

LEMMA AtMostOne ==
  ASSUME NEW recs, Unique(recs)
  PROVE  Cardinality({i \in Ids : recs[i].state = "dispatched"}) <= 1
<1> DEFINE S == {i \in Ids : recs[i].state = "dispatched"}
<1> SUFFICES Cardinality(S) <= 1
  OBVIOUS
<1>1. CASE S = {}
  <2>1. Cardinality({}) = 0
    BY FS_EmptySet, Zenon
  <2> HIDE DEF S
  <2> QED BY <1>1, <2>1
<1>2. CASE S # {}
  <2>1. PICK i \in S : TRUE
    BY <1>2
  <2>2. S = {i}
    BY <2>1 DEF Unique
  <2> HIDE DEF S
  <2>3. Cardinality({i}) = 1
    BY FS_Singleton, Zenon
  <2> QED BY <2>2, <2>3
<1> QED BY <1>1, <1>2

(***************************************************************************)
(* Records.                                                                *)
(***************************************************************************)
LEMMA NoRecsType == NoRecs \in [Ids -> Rec]
  BY DEF NoRecs, NoRec, Rec, States

LEMMA NoneOut == \A i \in Ids : NoRecs[i].state # "dispatched"
  BY DEF NoRecs, NoRec

LEMMA MarkType ==
  ASSUME NEW rec \in Rec, NEW st \in States
  PROVE  [rec EXCEPT !.state = st] \in Rec
  BY DEF Rec

LEMMA SeenType == ASSUME NEW rec \in Rec PROVE Seen(rec) \in Rec
  BY DEF Seen, Rec, States

LEMMA SeenOut ==
  ASSUME NEW rec \in Rec
  PROVE  (Seen(rec).state = "dispatched" \/ rec.state = "dispatched") => Seen(rec) = rec
  BY DEF Seen, Rec, States

LEMMA VerdictType ==
  ASSUME NEW i \in Ids
  PROVE  /\ Verdict(i) \in {"done", "abandoned", "dispatched"}
         /\ Verdict(i) = "dispatched" <=> ~Over(mem, i)
  BY DEF Verdict, OutputLanded, Over, TopicIn

(***************************************************************************)
(* The initial state                                                       *)
(***************************************************************************)
LEMMA InitIInv == Init => IInv
<1> SUFFICES ASSUME Init PROVE IInv
  OBVIOUS
<1>1. TypeOK
  BY NoRecsType DEF Init, TypeOK
<1>2. Out
  BY NoneOut DEF Init, Out, Unique, LedgerOut, LoadedOut, ResolvedOut, DispatchedIsVisible
<1> QED BY <1>1, <1>2 DEF IInv

(***************************************************************************)
(* Steps that leave alone what Out is about, and the clock.                *)
(***************************************************************************)
outVars == <<manifest, ledger, landed, pc, mem, inFlight, pick, old>>

LEMMA OutStays == ASSUME Out, UNCHANGED outVars PROVE Out'
  BY DEF Out, outVars, Unique, LedgerOut, LoadedOut, ResolvedOut, DispatchedIsVisible,
         Over, TopicIn

LEMMA OperatorStep == ASSUME IInv, Operator PROVE IInv'
<1> USE DEF IInv, memVars
<1>1. Out'
  BY OutStays DEF Operator, Request, Reject, Approve, ArchiveMove, ArchiveList,
              ArchiveStops, outVars
<1>2. ASSUME NEW i \in Ids, Request(i) PROVE TypeOK'
  BY <1>2 DEF Request, TypeOK
<1>3. ASSUME NEW i \in Ids, Reject(i) PROVE TypeOK'
  BY <1>3 DEF Reject, TypeOK
<1>4. ASSUME NEW i \in Ids, NEW t \in Topics, Approve(i, t) PROVE TypeOK'
  <2>1. [topic |-> t, settled |-> FALSE] \in Approved
    BY DEF Approved
  <2> QED BY <1>4, <2>1 DEF Approve, TypeOK
<1>5. ASSUME NEW i \in Ids, ArchiveMove(i) PROVE TypeOK'
  BY <1>5 DEF ArchiveMove, TypeOK
<1>6. ASSUME ArchiveList \/ ArchiveStops PROVE TypeOK'
  BY <1>6 DEF ArchiveList, ArchiveStops, TypeOK
<1> QED BY <1>1, <1>2, <1>3, <1>4, <1>5, <1>6 DEF Operator

LEMMA ScoutStep == ASSUME IInv, Scout PROVE IInv'
<1> USE DEF IInv, humanVars, memVars
<1>1. ASSUME Fire PROVE IInv'
  <2>1. [id |-> manifest, topic |-> None] \in Run
    BY <1>1 DEF Fire, TypeOK, Run
  <2> QED BY <1>1, <2>1, OutStays DEF Fire, TypeOK, outVars
<1>2. ASSUME ReadRequest PROVE IInv'
  <2> DEFINE read == [scout EXCEPT !.topic = inbox[scout.id].topic]
  <2>1. scout \in Run /\ scout.id \in Ids
    BY <1>2 DEF ReadRequest, TypeOK, Run
  <2>2. ASSUME inbox[scout.id] # None PROVE read \in Run
    <3>1. inbox[scout.id] \in Approved
      BY <2>1, <2>2 DEF TypeOK
    <3>2. inbox[scout.id].topic \in Topics
      BY <3>1 DEF Approved
    <3> QED BY <2>1, <3>1, <3>2 DEF Run
  <2>3. scout' \in Run \cup {None}
    BY <1>2, <2>2 DEF ReadRequest
  <2> QED BY <1>2, <2>3, OutStays DEF ReadRequest, TypeOK, outVars
<1>3. ASSUME Answer PROVE IInv'
  <2>1. scout.topic \in Topics /\ scout.id \in Ids
    BY <1>3 DEF Answer, TypeOK, Run
  <2>2. TypeOK'
    BY <1>3, <2>1 DEF Answer, TypeOK
  <2>3. Out'
    BY <1>3 DEF Answer, Out, Unique, LedgerOut, LoadedOut, ResolvedOut,
                DispatchedIsVisible, Over, TopicIn
  <2> QED BY <2>2, <2>3
<1>4. ASSUME RunFails PROVE IInv'
  BY <1>4, OutStays DEF RunFails, TypeOK, outVars
<1> QED BY <1>1, <1>2, <1>3, <1>4 DEF Scout

LEMMA EnvironmentStep == ASSUME IInv, Environment PROVE IInv'
<1> USE DEF IInv, humanVars, memVars
<1>1. ASSUME NEW i \in Ids, Settle(i) PROVE IInv'
  <2>1. [inbox[i] EXCEPT !.settled = TRUE] \in Approved
    BY <1>1 DEF Settle, TypeOK, Approved
  <2> QED BY <1>1, <2>1, OutStays DEF Settle, TypeOK, outVars
<1>2. ASSUME NEW i \in Ids, Expire(i) PROVE IInv'
  <2>1. TypeOK'
    BY <1>2 DEF Expire, TypeOK
  <2>2. Out'
    BY <1>2 DEF Expire, Out, Unique, LedgerOut, LoadedOut, ResolvedOut,
                DispatchedIsVisible, Over, TopicIn
  <2> QED BY <2>1, <2>2
<1>3. ASSUME NEW t \in Topics, Vanish(t) PROVE IInv'
  <2>1. TypeOK'
    BY <1>3 DEF Vanish, TypeOK
  <2>2. Out'
    BY <1>3 DEF Vanish, Outstanding, Out, Unique, LedgerOut, LoadedOut, ResolvedOut,
                DispatchedIsVisible, Over, TopicIn
  <2> QED BY <2>1, <2>2
<1>4. ASSUME LoseLedger PROVE IInv'
  <2>1. TypeOK'
    BY <1>4 DEF LoseLedger, Fault, TypeOK
  <2>2. Out'
    BY <1>4 DEF LoseLedger, Out, Unique, LedgerOut, LoadedOut, ResolvedOut,
                DispatchedIsVisible, Over, TopicIn
  <2> QED BY <2>1, <2>2
<1> QED BY <1>1, <1>2, <1>3, <1>4 DEF Environment

(***************************************************************************)
(* Steps of the pass                                                       *)
(***************************************************************************)
LEMMA LoadStep == ASSUME IInv, Load PROVE IInv'
<1> USE DEF IInv, Load, humanVars
<1>1. mem' \in [Ids -> Rec]
  BY NoRecsType DEF Readable, TypeOK
<1>2. TypeOK'
  BY <1>1 DEF TypeOK
<1>3. CASE ledger = None
  <2>1. \A i \in Ids : mem'[i].state # "dispatched"
    BY <1>3, NoneOut DEF Readable
  <2> QED BY <1>2, <1>3, <2>1 DEF Out, Unique, LedgerOut, LoadedOut, ResolvedOut,
             DispatchedIsVisible
<1>4. CASE ledger # None
  <2>1. mem' = ledger
    BY <1>4 DEF Readable
  <2> QED BY <1>2, <1>4, <2>1 DEF Out, Unique, LedgerOut, LoadedOut, ResolvedOut,
             DispatchedIsVisible, Over, TopicIn
<1> QED BY <1>3, <1>4

LEMMA RegisterStep ==
  ASSUME IInv, Register \/ RegisterFails PROVE IInv'
<1> USE DEF IInv, humanVars
<1>1. ASSUME Register PROVE IInv'
  <2>1. \A i \in Ids : Seen(mem[i]) \in Rec
    BY SeenType DEF TypeOK
  <2>2. TypeOK'
    BY <1>1, <2>1 DEF Register, TypeOK
  <2>3. \A i \in Ids :
          mem'[i].state = "dispatched" \/ mem[i].state = "dispatched" => mem'[i] = mem[i]
    BY <1>1, SeenOut DEF Register, TypeOK
  <2>4. pc = "register" /\ pc' = "resolve"
    BY <1>1 DEF Register
  <2>5. UNCHANGED <<manifest, ledger, landed, old>>
    BY <1>1 DEF Register
  <2>6. LoadedOut'
    BY <2>3, <2>4, <2>5 DEF Out, LoadedOut, Over, TopicIn
  <2> QED BY <2>2, <2>3, <2>4, <2>5, <2>6 DEF Out, Unique, LedgerOut, ResolvedOut,
             DispatchedIsVisible, Over, TopicIn
<1>2. ASSUME RegisterFails PROVE IInv'
  BY <1>2 DEF RegisterFails, Fault, TypeOK, Out, Unique, LedgerOut, LoadedOut,
              ResolvedOut, DispatchedIsVisible, Over, TopicIn
<1> QED BY <1>1, <1>2

\* Whatever the pass keeps in flight is the one the manifest names.
LEMMA ResolveStep == ASSUME IInv, Resolve PROVE IInv'
<1> DEFINE out == {i \in Ids : mem[i].state = "dispatched"}
           waiting == {i \in out : Verdict(i) = "dispatched"}
<1> USE DEF IInv, humanVars
<1>1. /\ pc = "resolve" /\ pc' = "pick"
      /\ mem' = [i \in Ids |->
                    IF i \in out THEN [mem[i] EXCEPT !.state = Verdict(i)] ELSE mem[i]]
      /\ inFlight' = IF waiting = {} THEN None ELSE Last(waiting)
      /\ UNCHANGED <<manifest, ledger, landed, old>>
  BY DEF Resolve
<1>2. \A i \in Ids : [mem[i] EXCEPT !.state = Verdict(i)] \in Rec
  BY MarkType, VerdictType DEF TypeOK, States
<1>3. waiting \in SUBSET Ids /\ \A i, j \in waiting : i = j
  BY DEF Out, Unique
<1>4. \A i \in waiting : inFlight' = i
  <2>1. waiting # {} => Last(waiting) \in waiting
    BY <1>3, LastOfOne
  <2> QED BY <1>1, <1>3, <2>1
<1>5. inFlight' \in Ids \cup {None}
  BY <1>1, <1>3, <1>4
<1>6. mem' \in [Ids -> Rec]
  BY <1>1, <1>2 DEF TypeOK
<1>7. TypeOK'
  BY <1>1, <1>5, <1>6 DEF Resolve, TypeOK
<1>8. \A i \in Ids : mem'[i].state = "dispatched" => i \in waiting
  BY <1>1, VerdictType DEF TypeOK, Rec
<1>9. Unique(mem')
  BY <1>3, <1>8 DEF Unique
<1>10. LedgerOut'
  BY <1>1 DEF Out, LedgerOut, Unique, Over, TopicIn
<1>11. inFlight' # None => inFlight' \in waiting
  BY <1>1, <1>4
<1>12. \A i \in waiting : manifest = i
  BY <1>1, VerdictType DEF Out, LoadedOut
<1>13. ASSUME ledger # None, NEW i \in Ids, ledger[i].state = "dispatched"
       PROVE  /\ mem'[i].state # "queued"
              /\ inFlight' = None => Over(ledger, i)
  <2>1. mem[i] = ledger[i] /\ i \in out
    BY <1>1, <1>13 DEF Out, LoadedOut
  <2>2. mem'[i].state = Verdict(i)
    BY <1>1, <2>1 DEF TypeOK, Rec
  <2>3. mem'[i].state # "queued"
    BY <2>2, VerdictType
  <2>4. ASSUME inFlight' = None PROVE Over(ledger, i)
    <3>1. i \notin waiting
      BY <1>4, <2>4
    <3>2. Over(mem, i)
      BY <2>1, <3>1, VerdictType
    <3> QED BY <2>1, <3>2 DEF Over, TopicIn
  <2> QED BY <2>3, <2>4
<1>14. ResolvedOut'
  BY <1>1, <1>4, <1>8, <1>11, <1>12, <1>13 DEF ResolvedOut, Over, TopicIn
<1>15. LoadedOut' /\ DispatchedIsVisible'
  BY <1>1 DEF LoadedOut, DispatchedIsVisible
<1> QED BY <1>7, <1>9, <1>10, <1>14, <1>15 DEF Out

LEMMA ChoiceType == ASSUME TypeOK PROVE Choice \in Ids \cup {None}
<1>1. Queue \in SUBSET Ids
  BY DEF Queue, TypeOK
<1> QED BY <1>1, FirstIn DEF Choice, TypeOK

LEMMA PickStep == ASSUME IInv, Pick PROVE IInv'
<1> USE DEF IInv, humanVars
<1>1. pc = "pick" /\ pc' = "publish" /\ pick' = Choice
      /\ UNCHANGED <<manifest, ledger, landed, inFlight>>
  BY DEF Pick
<1>2. Choice \in Ids \cup {None} /\ inFlight \in Ids \cup {None}
  BY ChoiceType DEF TypeOK
<1>3. CASE Choice \in {inFlight, None}
  <2>1. UNCHANGED <<mem, old>>
    BY <1>3 DEF Pick
  <2>2. TypeOK'
    BY <1>1, <1>2, <2>1 DEF Pick, TypeOK
  <2>3. inFlight # None => Choice = inFlight
    BY DEF Choice
  <2>4. \A i \in Ids : mem[i].state = "dispatched" => i = Choice
    BY <1>1, <1>2, <2>3 DEF Out, ResolvedOut
  <2> QED BY <1>1, <2>1, <2>2, <2>3, <2>4 DEF Out, Unique, LedgerOut, LoadedOut,
             ResolvedOut, DispatchedIsVisible, Over, TopicIn
<1>4. CASE Choice \notin {inFlight, None}
  <2>1. /\ inFlight = None /\ Choice \in Ids /\ mem[Choice].state = "queued"
        /\ mem' = [mem EXCEPT ![Choice] = [state |-> "dispatched", topic |-> TopicOf(Choice)]]
        /\ old' = old \ {Choice}
    <3>1. inFlight = None /\ Queue # {} /\ Choice = First(Queue)
      BY <1>4 DEF Choice
    <3>2. First(Queue) \in Queue
      BY <3>1, FirstIn DEF Queue, TypeOK
    <3> QED BY <1>2, <1>4, <3>1, <3>2 DEF Pick, Queue
  <2>2. TopicOf(Choice) \in SafeTopics
    BY <2>1 DEF TopicOf, TypeOK, Rec
  <2>3. [state |-> "dispatched", topic |-> TopicOf(Choice)] \in Rec
    BY <2>2 DEF Rec, States
  <2>4. TypeOK'
    BY <1>1, <1>2, <2>1, <2>3 DEF Pick, TypeOK
  <2>5. \A i \in Ids : mem'[i].state = "dispatched" => i = Choice
    BY <1>1, <1>2, <2>1 DEF Out, ResolvedOut, TypeOK
  <2>6. Unique(mem')
    BY <2>5 DEF Unique
  <2>7. ledger # None => ledger[Choice].state # "dispatched"
    BY <1>1, <2>1 DEF Out, ResolvedOut
  <2>8. ledger # None =>
          \A i \in Ids : ledger[i].state = "dispatched" => (Over(ledger, i) => Over(ledger, i)')
    BY <1>1, <2>1, <2>7 DEF Over, TopicIn
  <2>9. LedgerOut'
    BY <1>1, <2>8 DEF Out, LedgerOut, Unique
  <2>10. ResolvedOut'
    BY <1>1, <2>1, <2>5, <2>8 DEF Out, ResolvedOut
  <2>11. LoadedOut' /\ DispatchedIsVisible'
    BY <1>1 DEF LoadedOut, DispatchedIsVisible
  <2> QED BY <2>4, <2>6, <2>9, <2>10, <2>11 DEF Out
<1> QED BY <1>3, <1>4

LEMMA PublishStep == ASSUME IInv, Publish \/ PublishFails PROVE IInv'
<1> USE DEF IInv, humanVars, memVars
<1>1. ASSUME Publish PROVE IInv'
  <2>1. /\ pc = "publish" /\ pc' = "save" /\ manifest' = pick
        /\ UNCHANGED <<ledger, landed, mem, inFlight, pick, old>>
    BY <1>1 DEF Publish
  <2>2. TypeOK'
    BY <1>1 DEF Publish, TypeOK
  <2>3. LedgerOut'
    BY <2>1 DEF Out, LedgerOut, ResolvedOut, Unique, Over, TopicIn
  <2>4. DispatchedIsVisible'
    BY <2>1 DEF Out, ResolvedOut, DispatchedIsVisible
  <2> QED BY <2>1, <2>2, <2>3, <2>4 DEF Out, Unique, LoadedOut, ResolvedOut
<1>2. ASSUME PublishFails PROVE IInv'
  <2>1. /\ pc = "publish" /\ pc' = "save" /\ mem' = RolledBack
        /\ UNCHANGED <<manifest, ledger, landed, inFlight, pick, old>>
    BY <1>2 DEF PublishFails
  <2>2. mem' \in [Ids -> Rec]
    BY <2>1, MarkType DEF RolledBack, TypeOK, States
  <2>3. TypeOK'
    BY <1>2, <2>2 DEF PublishFails, Fault, TypeOK
  <2>4. \A i \in Ids : mem'[i].state = "dispatched" =>
                         mem[i].state = "dispatched" /\ manifest = i
    <3>1. CASE inFlight = None /\ pick # None
      <4>1. pick \in Ids /\ mem' = [mem EXCEPT ![pick].state = "queued"]
        BY <2>1, <3>1 DEF RolledBack, TypeOK
      <4>2. mem'[pick].state = "queued"
        BY <4>1 DEF TypeOK, Rec
      <4> QED BY <2>1, <4>1, <4>2 DEF Out, ResolvedOut
    <3>2. CASE ~(inFlight = None /\ pick # None)
      <4>1. mem' = mem
        BY <2>1, <3>2 DEF RolledBack
      <4> QED BY <2>1, <3>2, <4>1 DEF Out, ResolvedOut
    <3> QED BY <3>1, <3>2
  <2>5. Unique(mem') /\ DispatchedIsVisible'
    BY <2>1, <2>4 DEF Out, Unique, DispatchedIsVisible
  <2>6. LedgerOut'
    BY <2>1 DEF Out, LedgerOut, Unique, Over, TopicIn
  <2> QED BY <2>1, <2>3, <2>5, <2>6 DEF Out, LoadedOut, ResolvedOut
<1> QED BY <1>1, <1>2

LEMMA EndStep == ASSUME IInv, Save \/ SaveFails \/ Crash PROVE IInv'
<1> USE DEF IInv, humanVars
<1>1. /\ pc' \in {"idle", "down"} /\ mem' = NoRecs
      /\ UNCHANGED <<manifest, landed>> /\ old' \subseteq old
  BY DEF Save, SaveFails, Crash, EndPass
<1>2. TypeOK'
  <2>1. ledger' \in [Ids -> Rec] \cup {None}
    BY DEF Save, SaveFails, Crash, TypeOK
  <2>2. faults' \in Nat
    BY DEF Save, SaveFails, Crash, Fault, TypeOK
  <2>3. EndPass
    BY DEF Save, SaveFails, Crash
  <2> QED BY <1>1, <2>1, <2>2, <2>3, NoRecsType DEF EndPass, TypeOK
<1>3. Unique(mem')
  BY <1>1, NoneOut DEF Unique
<1>4. LedgerOut'
  <2>1. CASE Save
    <3>1. ledger' = mem /\ pc = "save"
      BY <2>1 DEF Save
    <3> QED BY <1>1, <3>1 DEF Out, LedgerOut, Unique, DispatchedIsVisible, Over, TopicIn
  <2>2. CASE SaveFails \/ Crash
    <3>1. UNCHANGED <<ledger, old>>
      BY <2>2 DEF SaveFails, Crash
    <3> QED BY <1>1, <3>1 DEF Out, LedgerOut, Unique, Over, TopicIn
  <2> QED BY <2>1, <2>2
<1> QED BY <1>1, <1>2, <1>3, <1>4 DEF Out, LoadedOut, ResolvedOut, DispatchedIsVisible

LEMMA NextIInv == IInv /\ [Next]_vars => IInv'
<1> SUFFICES ASSUME IInv, [Next]_vars PROVE IInv'
  OBVIOUS
<1>1. CASE Pass
  BY <1>1, LoadStep, RegisterStep, ResolveStep, PickStep, PublishStep, EndStep DEF Pass
<1>2. CASE PassFails
  BY <1>2, RegisterStep, PublishStep, EndStep DEF PassFails
<1>3. CASE UNCHANGED vars
  BY <1>3, OutStays DEF vars, outVars, IInv, TypeOK
<1> QED BY <1>1, <1>2, <1>3, OperatorStep, ScoutStep, EnvironmentStep DEF Next

(***************************************************************************)
(* Every reachable state satisfies the inductive invariant.                *)
(***************************************************************************)
THEOREM Invariance == Spec => []IInv
  BY InitIInv, NextIInv, PTL DEF Spec

\* Type correctness: no id, topic or record leaves its range, although the pass
\* works on the ledger of an earlier pass and on files others move.
THEOREM TypeCorrect == Spec => []TypeOK
  BY Invariance, PTL DEF IInv

\* Phase 3 has one request out at a time, for any number of requests and under
\* every combination of crashes, failed writes and lost ledgers.
THEOREM OneAtATime == Spec => []OneInFlight
<1>1. ASSUME IInv PROVE OneInFlight
  <2>1. Unique(mem) /\ (ledger # None => Unique(ledger))
    BY <1>1 DEF IInv, Out, LedgerOut
  <2> QED BY <2>1, AtMostOne DEF OneInFlight
<1> QED BY <1>1, Invariance, PTL

\* A request is recorded as dispatched only while the manifest names it: none
\* gets stuck in flight where no trigger sees it.
THEOREM NeverOutOfSight == Spec => []DispatchedIsVisible
  BY Invariance, PTL DEF IInv, Out

(***************************************************************************)
(* How often a request is dispatched                                       *)
(***************************************************************************)
\* The records the next pick will be made from, unless a fault loses them.
Book == IF pc \in {"idle", "down"} THEN Readable(ledger) ELSE mem

\* A request that can still be dispatched without another fault.
Open(i) ==
  \/ Book[i].state \in {"absent", "queued"}
  \/ pc = "publish" /\ inFlight = None /\ pick = i

Rationed ==
  \A i \in Ids : dispatches[i] <= 1 + faults /\ (Open(i) => dispatches[i] <= faults)

Marked == pc = "publish" /\ inFlight = None /\ pick # None => mem[pick].state = "dispatched"

RationInv == Rationed /\ Marked

LEMMA RationKept ==
  ASSUME IInv, Rationed, \A i \in Ids : Open(i)' => Open(i),
         UNCHANGED <<dispatches, faults>>
  PROVE  Rationed'
  BY DEF Rationed, IInv, TypeOK

\* A fault pays for one more.
LEMMA RationPaid ==
  ASSUME IInv, Rationed, UNCHANGED dispatches, faults' = faults + 1
  PROVE  Rationed'
<1>1. faults \in Nat /\ \A i \in Ids : dispatches[i] \in Nat
  BY DEF IInv, TypeOK
<1>2. \A i \in Ids : dispatches[i] <= faults'
  BY <1>1 DEF Rationed
<1> QED BY <1>1, <1>2 DEF Rationed

LEMMA RationPass == ASSUME IInv, RationInv, Pass PROVE RationInv'
<1> USE DEF IInv, RationInv, humanVars
<1>1. ASSUME Load PROVE RationInv'
  <2>1. \A i \in Ids : Open(i)' => Open(i)
    BY <1>1 DEF Load, Open, Book
  <2> QED BY <1>1, <2>1, RationKept DEF Load, Marked
<1>2. ASSUME Register PROVE RationInv'
  <2>1. \A i \in Ids : mem'[i].state \in {"absent", "queued"}
                         => mem[i].state \in {"absent", "queued"}
    BY <1>2 DEF Register, Seen, TypeOK
  <2>2. \A i \in Ids : Open(i)' => Open(i)
    BY <1>2, <2>1 DEF Register, Open, Book
  <2> QED BY <1>2, <2>2, RationKept DEF Register, Marked
<1>3. ASSUME Resolve PROVE RationInv'
  <2>1. ASSUME NEW i \in Ids, mem'[i].state \in {"absent", "queued"}
        PROVE  mem[i].state \in {"absent", "queued"}
    <3>1. CASE mem[i].state = "dispatched"
      <4>1. mem'[i] = [mem[i] EXCEPT !.state = Verdict(i)]
        BY <1>3, <3>1 DEF Resolve
      <4>2. mem'[i].state = Verdict(i)
        BY <4>1 DEF TypeOK, Rec
      <4> QED BY <2>1, <4>2, VerdictType
    <3>2. CASE mem[i].state # "dispatched"
      BY <1>3, <2>1, <3>2 DEF Resolve
    <3> QED BY <3>1, <3>2
  <2>2. \A i \in Ids : Open(i)' => Open(i)
    BY <1>3, <2>1 DEF Resolve, Open, Book
  <2> QED BY <1>3, <2>2, RationKept DEF Resolve, Marked
<1>4. ASSUME Pick PROVE RationInv'
  <2>1. CASE Choice \in {inFlight, None}
    <3>1. \A i \in Ids : Open(i)' => Open(i)
      BY <1>4, <2>1 DEF Pick, Open, Book
    <3>2. Marked'
      BY <1>4, <2>1 DEF Pick, Marked
    <3> QED BY <1>4, <2>1, <3>1, <3>2, RationKept DEF Pick
  <2>2. CASE Choice \notin {inFlight, None}
    <3>1. Choice = First(Queue) /\ Queue # {}
      BY <2>2 DEF Choice
    <3>2. Choice \in Queue
      BY <3>1, FirstIn DEF Queue, TypeOK
    <3>3. Choice \in Ids /\ mem[Choice].state = "queued"
      BY <3>2 DEF Queue, TypeOK
    <3>4. mem' = [mem EXCEPT ![Choice] = [state |-> "dispatched", topic |-> TopicOf(Choice)]]
      BY <1>4, <2>2 DEF Pick
    <3>5. mem'[Choice].state = "dispatched" /\ \A i \in Ids : i # Choice => mem'[i] = mem[i]
      BY <3>3, <3>4 DEF TypeOK
    <3>6. \A i \in Ids : Open(i)' => Open(i)
      BY <1>4, <3>3, <3>5 DEF Pick, Open, Book
    <3> QED BY <1>4, <3>5, <3>6, RationKept DEF Pick, Marked
  <2> QED BY <2>1, <2>2
<1>5. ASSUME Publish PROVE RationInv'
  <2>1. pc = "publish" /\ pc' = "save" /\ UNCHANGED <<mem, faults>>
    BY <1>5 DEF Publish, memVars
  <2>2. \A i \in Ids : Open(i)' <=> mem[i].state \in {"absent", "queued"}
    BY <2>1 DEF Open, Book
  <2>3. \A i \in Ids : mem[i].state \in {"absent", "queued"} => Open(i)
    BY <2>1 DEF Open, Book
  <2>4. CASE inFlight = None /\ pick # None
    <3>1. PICK p \in Ids : p = pick
      BY <2>4 DEF TypeOK
    <3>2. \A i \in Ids : dispatches'[i] = IF i = p THEN dispatches[i] + 1 ELSE dispatches[i]
      BY <1>5, <2>4, <3>1 DEF Publish, TypeOK
    <3>3. Open(p) /\ ~Open(p)'
      BY <2>1, <2>2, <2>4, <3>1 DEF Marked, Open
    <3>4. ASSUME NEW i \in Ids
          PROVE  dispatches'[i] <= 1 + faults /\ (Open(i)' => dispatches'[i] <= faults)
      <4>1. faults \in Nat /\ dispatches[i] \in Nat
        BY DEF TypeOK
      <4>2. CASE i = p
        BY <3>2, <3>3, <4>1, <4>2 DEF Rationed
      <4>3. CASE i # p
        <5>1. dispatches'[i] = dispatches[i] /\ (Open(i)' => Open(i))
          BY <2>2, <2>3, <3>2, <4>3
        <5> QED BY <4>1, <5>1 DEF Rationed
      <4> QED BY <4>2, <4>3
    <3> QED BY <2>1, <3>4 DEF Rationed, Marked
  <2>5. CASE ~(inFlight = None /\ pick # None)
    BY <1>5, <2>1, <2>2, <2>3, <2>5, RationKept DEF Publish, Marked
  <2> QED BY <2>4, <2>5
<1>6. ASSUME Save PROVE RationInv'
  <2>1. ledger' = mem /\ ledger' # None /\ pc = "save" /\ pc' = "idle"
    BY <1>6, LedgerAssumption DEF Save, TypeOK
  <2>2. \A i \in Ids : Open(i)' => Open(i)
    BY <2>1 DEF Open, Book, Readable
  <2> QED BY <1>6, <2>1, <2>2, RationKept DEF Save, EndPass, Marked
<1> QED BY <1>1, <1>2, <1>3, <1>4, <1>5, <1>6 DEF Pass

LEMMA RationNext == IInv /\ RationInv /\ [Next]_vars => RationInv'
<1> SUFFICES ASSUME IInv, RationInv, [Next]_vars PROVE RationInv'
  OBVIOUS
<1> USE DEF RationInv, humanVars, memVars
<1>1. CASE PassFails
  <2>1. UNCHANGED dispatches /\ faults' = faults + 1 /\ pc' # "publish"
    BY <1>1 DEF PassFails, RegisterFails, PublishFails, SaveFails, Crash, EndPass, Fault
  <2> QED BY <2>1, RationPaid DEF Marked
<1>2. ASSUME NEW i \in Ids, NEW t \in Topics, Approve(i, t) PROVE RationInv'
  <2>1. dispatches' = [dispatches EXCEPT ![i] = 0]
        /\ UNCHANGED <<faults, pc, mem, ledger, inFlight, pick>>
    BY <1>2 DEF Approve
  <2>2. \A j \in Ids : Open(j)' <=> Open(j)
    BY <2>1 DEF Open, Book
  <2>3. ASSUME NEW j \in Ids
        PROVE  dispatches'[j] <= 1 + faults /\ (Open(j)' => dispatches'[j] <= faults)
    <3>1. CASE j = i
      <4>1. dispatches'[j] = 0 /\ faults \in Nat
        BY <2>1, <3>1 DEF IInv, TypeOK
      <4> QED BY <4>1
    <3>2. CASE j # i
      BY <2>1, <2>2, <3>2 DEF Rationed, IInv, TypeOK
    <3> QED BY <3>1, <3>2
  <2> QED BY <2>1, <2>3 DEF Rationed, Marked
<1>3. CASE LoseLedger
  <2>1. UNCHANGED <<dispatches, pc, mem, inFlight, pick>> /\ faults' = faults + 1
    BY <1>3 DEF LoseLedger, Fault
  <2> QED BY <2>1, RationPaid DEF Marked
<1>4. ASSUME UNCHANGED <<dispatches, faults, pc, mem, ledger, inFlight, pick>>
      PROVE  RationInv'
  BY <1>4, RationKept DEF Open, Book, Marked
<1>5. CASE Operator
  BY <1>2, <1>4, <1>5 DEF Operator, Request, Reject, ArchiveMove, ArchiveList, ArchiveStops
<1>6. CASE Scout
  BY <1>4, <1>6 DEF Scout, Fire, ReadRequest, Answer, RunFails
<1>7. CASE Environment
  BY <1>3, <1>4, <1>7 DEF Environment, Settle, Expire, Vanish
<1>8. CASE UNCHANGED vars
  BY <1>4, <1>8 DEF vars
<1> QED BY <1>1, <1>5, <1>6, <1>7, <1>8, RationPass DEF Next

\* For any number of requests and faults, one approval is dispatched once, and
\* once more for each fault: no interplay of a retained file, a ledger that is
\* taken for empty, a timeout and a failed write fetches it over and over.
THEOREM FetchesAreRationed == Spec => []DispatchBound
<1>1. Init => RationInv
  BY LedgerAssumption DEF Init, RationInv, Rationed, Marked
<1>2. ASSUME IInv, RationInv PROVE DispatchBound
  BY <1>2 DEF RationInv, Rationed, DispatchBound, IInv, TypeOK
<1> QED BY <1>1, <1>2, RationNext, Invariance, PTL DEF Spec

(***************************************************************************)
(* A record that is not open stands for a dispatch                         *)
(***************************************************************************)
\* The latest approval of i was in the manifest, or it met a record of an
\* earlier one.
WasOut(i) == dispatches[i] > 0 \/ i \in reused

Closing == {"dispatched", "done", "abandoned"}

\* The pass has marked i and has yet to write the manifest.
JustMarked(i) == pc = "publish" /\ inFlight = None /\ pick = i

MemOut == \A i \in Ids : mem[i].state \in Closing => WasOut(i) \/ JustMarked(i)

BookOut == ledger # None => \A i \in Ids : ledger[i].state \in Closing => WasOut(i)

SweepOut == \A i \in sweep : WasOut(i)

WasOutInv == MemOut /\ BookOut /\ SweepOut

outHistory == <<dispatches, reused>>

\* What was out stays out when the histories do not change.
LEMMA WasOutStays ==
  ASSUME UNCHANGED outHistory, NEW i \in Ids PROVE WasOut(i)' <=> WasOut(i)
  BY DEF outHistory, WasOut

LEMMA WasOutOperator == ASSUME IInv, WasOutInv, Operator PROVE WasOutInv'
<1> USE DEF IInv, WasOutInv
<1>1. ASSUME UNCHANGED <<outHistory, pc, mem, ledger, inFlight, pick>>,
             sweep' \subseteq sweep
      PROVE  WasOutInv'
  BY <1>1 DEF outHistory, WasOut, MemOut, BookOut, SweepOut, JustMarked
<1>2. ASSUME NEW i \in Ids, NEW t \in Topics, Approve(i, t) PROVE WasOutInv'
  <2>1. /\ UNCHANGED <<sweep, pc, mem, ledger, inFlight, pick>>
        /\ dispatches' = [dispatches EXCEPT ![i] = 0]
        /\ reused' = IF Recorded(i) THEN reused \cup {i} ELSE reused \ {i}
    BY <1>2 DEF Approve, memVars
  <2>2. \A j \in Ids : j # i => (WasOut(j)' <=> WasOut(j))
    BY <2>1 DEF WasOut, TypeOK
  <2>3. Recorded(i) => WasOut(i)'
    BY <2>1 DEF WasOut
  <2>4. mem[i].state \in Closing => Recorded(i)
    BY DEF Recorded, Closing
  <2>5. ledger # None /\ ledger[i].state \in Closing => Recorded(i)
    BY DEF Recorded, Closing
  <2>6. i \in sweep => Recorded(i)
    BY DEF Recorded
  <2>7. MemOut'
    BY <2>1, <2>2, <2>3, <2>4 DEF MemOut, JustMarked
  <2>8. BookOut'
    BY <2>1, <2>2, <2>3, <2>5 DEF BookOut
  <2>9. SweepOut'
    BY <2>1, <2>2, <2>3, <2>6 DEF SweepOut, TypeOK
  <2> QED BY <2>7, <2>8, <2>9
<1>3. ASSUME ArchiveList PROVE WasOutInv'
  <2>1. UNCHANGED <<outHistory, pc, mem, ledger, inFlight, pick>> /\ ledger # None
    BY <1>3 DEF ArchiveList, outHistory, memVars
  <2>2. \A i \in sweep' : i \in Ids /\ ledger[i].state \in Closing
    BY <1>3 DEF ArchiveList, Archivable, Closing
  <2>3. MemOut' /\ BookOut' /\ SweepOut'
    BY <2>1, <2>2 DEF outHistory, WasOut, MemOut, BookOut, SweepOut, JustMarked
  <2> QED BY <2>3
<1>4. ASSUME NEW i \in Ids, Request(i) \/ Reject(i) \/ ArchiveMove(i) PROVE WasOutInv'
  BY <1>1, <1>4 DEF Request, Reject, ArchiveMove, outHistory, memVars
<1>5. ASSUME ArchiveStops PROVE WasOutInv'
  BY <1>1, <1>5 DEF ArchiveStops, outHistory, memVars
<1> QED BY <1>2, <1>3, <1>4, <1>5 DEF Operator

LEMMA WasOutPass == ASSUME IInv, WasOutInv, Pass \/ PassFails PROVE WasOutInv'
<1> USE DEF IInv, WasOutInv, humanVars, memVars
<1>1. UNCHANGED sweep
  BY DEF Pass, PassFails, Load, Register, RegisterFails, Resolve, Pick, Publish, PublishFails,
         Save, SaveFails, Crash, EndPass
<1>2. ASSUME UNCHANGED <<outHistory, ledger>>, MemOut' PROVE WasOutInv'
  BY <1>1, <1>2 DEF outHistory, WasOut, BookOut, SweepOut
<1>3. ASSUME Load PROVE WasOutInv'
  <2>1. UNCHANGED outHistory /\ mem' = Readable(ledger)
    BY <1>3 DEF Load, outHistory
  <2>2. \A i \in Ids : mem'[i].state \in Closing => WasOut(i)
    BY <2>1 DEF Readable, NoRecs, NoRec, Closing, BookOut
  <2>3. MemOut'
    BY <2>1, <2>2 DEF MemOut, outHistory, WasOut
  <2> QED BY <1>2, <1>3, <2>1, <2>3 DEF Load
<1>4. ASSUME pc # "publish", UNCHANGED <<outHistory, ledger>>,
             \A i \in Ids : mem'[i].state \in Closing =>
                 mem[i].state \in Closing \/ JustMarked(i)'
      PROVE  WasOutInv'
  <2>1. MemOut'
    BY <1>4 DEF MemOut, outHistory, WasOut, JustMarked
  <2> QED BY <1>2, <1>4, <2>1
<1>5. ASSUME Register \/ RegisterFails PROVE WasOutInv'
  <2>1. \A i \in Ids : Seen(mem[i]).state \in Closing => mem[i].state \in Closing
    BY DEF Seen, TypeOK, Rec, Closing
  <2>2. \A i \in Ids : mem'[i].state \in Closing => mem[i].state \in Closing
    BY <1>5, <2>1 DEF Register, RegisterFails
  <2> QED BY <1>4, <1>5, <2>2 DEF Register, RegisterFails, outHistory
<1>6. ASSUME Resolve PROVE WasOutInv'
  <2>1. \A i \in Ids : mem'[i].state \in Closing => mem[i].state \in Closing
    BY <1>6 DEF Resolve, Closing
  <2> QED BY <1>4, <1>6, <2>1 DEF Resolve, outHistory
<1>7. ASSUME Pick PROVE WasOutInv'
  <2>1. pc = "pick" /\ pc' = "publish" /\ pick' = Choice /\ UNCHANGED <<outHistory, ledger, inFlight>>
    BY <1>7 DEF Pick, outHistory
  <2>2. CASE Choice \in {inFlight, None}
    BY <1>4, <1>7, <2>1, <2>2 DEF Pick
  <2>3. CASE Choice \notin {inFlight, None}
    <3>1. mem' = [mem EXCEPT ![Choice] = [state |-> "dispatched", topic |-> TopicOf(Choice)]]
          /\ inFlight = None
      BY <1>7, <2>3 DEF Pick, Choice
    <3>2. \A i \in Ids : i # Choice => mem'[i] = mem[i]
      BY <3>1 DEF TypeOK
    <3>3. \A i \in Ids : i = Choice => JustMarked(i)'
      BY <2>1, <3>1 DEF JustMarked
    <3> QED BY <1>4, <2>1, <3>2, <3>3
  <2> QED BY <2>2, <2>3
<1>8. ASSUME Publish PROVE WasOutInv'
  <2>1. pc = "publish" /\ pc' = "save" /\ UNCHANGED <<mem, ledger, reused>>
    BY <1>8 DEF Publish
  <2>2. \A i \in Ids : WasOut(i) \/ JustMarked(i) => WasOut(i)'
    <3>1. CASE inFlight = None /\ pick # None
      <4>1. dispatches' = [dispatches EXCEPT ![pick] = @ + 1] /\ pick \in Ids
        BY <1>8, <3>1 DEF Publish, TypeOK
      <4>2. \A i \in Ids : dispatches'[i] = IF i = pick THEN dispatches[i] + 1 ELSE dispatches[i]
        BY <4>1 DEF TypeOK
      <4>3. \A i \in Ids : dispatches[i] \in Nat
        BY DEF TypeOK
      <4> QED BY <2>1, <4>2, <4>3 DEF WasOut, JustMarked
    <3>2. CASE ~(inFlight = None /\ pick # None)
      BY <1>8, <2>1, <3>2, None \notin Ids DEF Publish, WasOut, JustMarked
    <3> QED BY <3>1, <3>2
  <2>3. MemOut' /\ BookOut' /\ SweepOut'
    BY <1>1, <2>1, <2>2 DEF MemOut, BookOut, SweepOut, TypeOK
  <2> QED BY <2>3
<1>9. ASSUME PublishFails PROVE WasOutInv'
  <2>1. UNCHANGED <<outHistory, ledger>> /\ mem' = RolledBack
    BY <1>9 DEF PublishFails, outHistory
  <2>2. ASSUME NEW i \in Ids, mem'[i].state \in Closing PROVE mem[i].state \in Closing /\ ~JustMarked(i)
    <3>1. CASE inFlight = None /\ pick # None
      <4>1. mem' = [mem EXCEPT ![pick].state = "queued"]
        BY <2>1, <3>1 DEF RolledBack
      <4>2. i # pick
        BY <2>2, <4>1 DEF TypeOK, Rec, Closing
      <4> QED BY <2>2, <4>1, <4>2 DEF TypeOK, JustMarked
    <3>2. CASE ~(inFlight = None /\ pick # None)
      BY <2>1, <2>2, <3>2, None \notin Ids DEF RolledBack, JustMarked
    <3> QED BY <3>1, <3>2
  <2>3. MemOut'
    BY <2>1, <2>2 DEF MemOut, outHistory, WasOut
  <2> QED BY <1>2, <2>1, <2>3
<1>10. ASSUME Save \/ SaveFails \/ Crash PROVE WasOutInv'
  <2>1. mem' = NoRecs /\ UNCHANGED outHistory
        /\ (ledger' = ledger \/ (ledger' = mem /\ pc = "save"))
    BY <1>10 DEF Save, SaveFails, Crash, EndPass, outHistory
  <2>2. MemOut'
    BY <2>1 DEF MemOut, NoRecs, NoRec, Closing
  <2>3. BookOut'
    BY <2>1 DEF BookOut, MemOut, JustMarked, outHistory, WasOut
  <2>4. SweepOut'
    BY <1>1, <2>1 DEF SweepOut, outHistory, WasOut
  <2> QED BY <2>2, <2>3, <2>4
<1> QED BY <1>3, <1>5, <1>6, <1>7, <1>8, <1>9, <1>10 DEF Pass, PassFails

LEMMA WasOutNext == ASSUME IInv, WasOutInv, [Next]_vars PROVE WasOutInv'
<1> USE DEF IInv, WasOutInv, humanVars, memVars
<1>1. ASSUME UNCHANGED <<outHistory, pc, mem, inFlight, pick, sweep>>, ledger' \in {ledger, None}
      PROVE  WasOutInv'
  BY <1>1 DEF outHistory, WasOut, MemOut, BookOut, SweepOut, JustMarked
<1>2. CASE Scout
  BY <1>1, <1>2 DEF Scout, Fire, ReadRequest, Answer, RunFails, outHistory
<1>3. CASE Environment
  BY <1>1, <1>3 DEF Environment, Settle, Expire, Vanish, LoseLedger, outHistory
<1>4. CASE UNCHANGED vars
  BY <1>1, <1>4 DEF vars, outHistory
<1> QED BY <1>2, <1>3, <1>4, WasOutOperator, WasOutPass DEF Next

\* For any number of requests, re-approvals and faults, no request is closed in
\* the ledger or taken by `archive' that was not dispatched, unless the record
\* is an earlier approval's.
THEOREM ClosedMeansOut == Spec => []ClosedWasOut
<1>1. Init => WasOutInv
  BY DEF Init, WasOutInv, MemOut, BookOut, SweepOut, NoRecs, NoRec, Closing
<1>2. ASSUME WasOutInv PROVE ClosedWasOut
  BY <1>2 DEF WasOutInv, BookOut, SweepOut, ClosedWasOut, Closing, WasOut
<1> QED BY <1>1, <1>2, WasOutNext, Invariance, PTL DEF Spec
=============================================================================
