------------------------ MODULE ResearchTrackerProofs ------------------------
(***************************************************************************)
(* Theorems about ResearchTracker for every set of topics, every bound and *)
(* every combination of faults, checked by TLAPS.                          *)
(***************************************************************************)
EXTENDS ResearchTracker, TLAPS

(***************************************************************************)
(* The inductive invariant.                                                *)
(***************************************************************************)
Visiting == pc \in {"deliver", "sending", "archive", "archiving", "moved"}

\* The sweep holds an object for every topic it still has to visit.
HoldsObjects ==
  /\ pc \in {"idle", "down"} => detached = NoRecords
  /\ pc \notin {"idle", "down"} => \A t \in work : Held(t) # None
  /\ Visiting => cur \in Topics /\ cur \notin work /\ Held(cur) # None

\* Whatever the file does not say yet, `dirty' remembers, or a sweep threw or a
\* write failed since.
SavedOrDirty ==
  /\ pc # "down" => dirty \/ store = records \/ unsaved
  /\ pc \in {"idle", "down"} => ~dirty
  /\ pc = "down" => records = NoRecords /\ approving = {} /\ object = "none"

\* The object a deliverNow() holds is where `object' says.
ObjectHeld ==
  /\ object = "map" => manual \in Topics /\ records[manual] # None
  /\ object = "sweep" => manual \in Topics /\ detached[manual] # None

\* The Map's record of a topic can still lead to a send: it is undelivered
\* (and not being sent), or it will be created.
MapNeeds(t) ==
  IF records[t] = None THEN t \in inbox \cup approving
  ELSE ~records[t].delivered /\ ~(pc = "sending" /\ cur = t /\ detached[t] = None)
\* So can a replaced object that the sweep has still to visit.
OldNeeds(t) ==
  /\ detached[t] # None /\ ~detached[t].delivered
  /\ t \in work \/ (pc = "deliver" /\ cur = t)
\* And so can the file, when the process is down.
FileNeeds(t) == IF store[t] = None THEN t \in inbox ELSE ~store[t].delivered

Count(p) == IF p THEN 1 ELSE 0

Covered ==
  \A t \in Topics :
    /\ pc = "down" => owed[t] >= Count(FileNeeds(t))
    /\ pc # "down" => owed[t] >= Count(MapNeeds(t)) + Count(OldNeeds(t))

IInv == TypeOK /\ HoldsObjects /\ SavedOrDirty /\ ObjectHeld /\ Covered

USE TrackerAssumption, NoneAssumption

(***************************************************************************)
(* Records and assignments to them.                                        *)
(***************************************************************************)
LEMMA NoRecordsType == NoRecords \in Records /\ \A t \in Topics : NoRecords[t] = None
  BY DEF NoRecords, Records

LEMMA NewRecordFact ==
  ASSUME TypeOK, NEW t \in Topics
  PROVE  NewRecord(t) \in Rec /\ NewRecord(t) # None /\ ~NewRecord(t).delivered
<1>1. Probe(t) \in Stages
  BY DEF TypeOK, Fates, Stages, Probe, HasBrief
<1>2. NewRecord(t) \in Rec
  BY <1>1 DEF NewRecord, Rec
<1> QED BY <1>2 DEF NewRecord

LEMMA HeldType ==
  ASSUME TypeOK, NEW t \in Topics, Held(t) # None
  PROVE  Held(t) \in Rec
  BY DEF TypeOK, Records, Held

LEMMA AssignFact ==
  ASSUME TypeOK, NEW t \in Topics, Held(t) # None, NEW r \in Rec, Assign(t, r)
  PROVE  /\ records' \in Records /\ detached' \in Records
         /\ \A u \in Topics : /\ records'[u] = None <=> records[u] = None
                              /\ detached'[u] = None <=> detached[u] = None
         /\ \A u \in Topics : u # t => records'[u] = records[u] /\ detached'[u] = detached[u]
         /\ detached[t] = None => records'[t] = r /\ detached' = detached
         /\ detached[t] # None => detached'[t] = r /\ records' = records
<1>1. r # None
  OBVIOUS
<1> QED BY <1>1 DEF Assign, Held, TypeOK, Records

LEMMA VisitedType ==
  ASSUME NEW r \in Rec, NEW stage \in Stages, NEW stalled \in BOOLEAN
  PROVE  /\ [r EXCEPT !.stage = stage, !.stalled = stalled] \in Rec
         /\ [r EXCEPT !.stage = stage, !.stalled = stalled].delivered = r.delivered
  BY DEF Rec

LEMMA DeliveredFact ==
  ASSUME NEW r \in Rec PROVE Delivered(r) \in Rec /\ Delivered(r).delivered
  BY DEF Delivered, Rec

LEMMA FailedFact ==
  ASSUME NEW r \in Rec PROVE Failed(r) \in Rec /\ Failed(r).delivered = r.delivered
  BY DEF Failed, Rec

LEMMA ErrorFact ==
  ASSUME NEW r \in Rec, NEW e \in {"held", "target"}
  PROVE  [r EXCEPT !.error = e] \in Rec /\ [r EXCEPT !.error = e].delivered = r.delivered
  BY DEF Rec

LEMMA ArchivedFact ==
  ASSUME NEW r \in Rec
  PROVE  Archived(r) \in Rec /\ Archived(r).delivered = r.delivered
  BY DEF Archived, Rec

LEMMA PersistFact ==
  ASSUME TypeOK, records' \in Records, Persist
  PROVE  /\ store' \in Records /\ unsaved' \in BOOLEAN /\ faults' \in 0..MaxFaults
         /\ store' = records' \/ unsaved'
<1>1. CASE store' = records' /\ unsaved' = FALSE /\ UNCHANGED faults
  BY <1>1 DEF TypeOK
<1>2. CASE Fault("disk") /\ unsaved' = TRUE /\ UNCHANGED store
  BY <1>2 DEF Fault, TypeOK
<1> QED BY <1>1, <1>2 DEF Persist

(***************************************************************************)
(* Counting.                                                               *)
(***************************************************************************)
\* The needs of a topic do not grow.
Eased(t) == (MapNeeds(t)' => MapNeeds(t)) /\ (OldNeeds(t)' => OldNeeds(t))

LEMMA CoveredStays ==
  ASSUME TypeOK, Covered, pc # "down", pc' # "down", UNCHANGED owed,
         \A t \in Topics : Eased(t)
  PROVE  Covered'
<1> SUFFICES ASSUME NEW t \in Topics
             PROVE  owed'[t] >= Count(MapNeeds(t)') + Count(OldNeeds(t)')
  BY DEF Covered
<1>1. owed[t] \in Int /\ owed[t] >= Count(MapNeeds(t)) + Count(OldNeeds(t))
  BY DEF Covered, TypeOK
<1>2. (MapNeeds(t)' => MapNeeds(t)) /\ (OldNeeds(t)' => OldNeeds(t))
  BY DEF Eased
<1> HIDE DEF MapNeeds, OldNeeds
<1> QED BY <1>1, <1>2 DEF Count

\* A send that failed is owed, whatever else becomes of its topic.
LEMMA CoveredOwes ==
  ASSUME TypeOK, Covered, pc # "down", pc' # "down", NEW t \in Topics, Owe(t),
         ~OldNeeds(t)', \A u \in Topics : u # t => Eased(u)
  PROVE  Covered'
<1> SUFFICES ASSUME NEW u \in Topics
             PROVE  owed'[u] >= Count(MapNeeds(u)') + Count(OldNeeds(u)')
  BY DEF Covered
<1>1. owed[u] \in Int /\ owed[u] >= Count(MapNeeds(u)) + Count(OldNeeds(u))
  BY DEF Covered, TypeOK
<1>2. owed'[u] = IF u = t THEN owed[u] + 1 ELSE owed[u]
  BY DEF Owe, TypeOK
<1>3. IF u = t THEN ~OldNeeds(u)' ELSE (MapNeeds(u)' => MapNeeds(u)) /\ (OldNeeds(u)' => OldNeeds(u))
  BY DEF Eased
<1> HIDE DEF MapNeeds, OldNeeds
<1> QED BY <1>1, <1>2, <1>3 DEF Count

(***************************************************************************)
(* The initial state                                                       *)
(***************************************************************************)
LEMMA InitIInv == Init => IInv
<1> SUFFICES ASSUME Init PROVE IInv
  OBVIOUS
<1>1. TypeOK
  <2>1. [t \in Topics |-> "open"] \in [Topics -> Fates]
    BY DEF Fates
  <2>2. /\ [t \in Topics |-> 0] \in [Topics -> 0..MaxApprovals]
        /\ [t \in Topics |-> 0] \in [Topics -> Int]
        /\ 0 \in 0..MaxFaults
    OBVIOUS
  <2> QED BY <2>1, <2>2, NoRecordsType DEF Init, TypeOK
<1>2. HoldsObjects /\ SavedOrDirty /\ ObjectHeld
  BY DEF Init, HoldsObjects, Visiting, SavedOrDirty, ObjectHeld
<1>3. Covered
  BY NoRecordsType DEF Init, Covered, MapNeeds, OldNeeds, Count
<1> QED BY <1>1, <1>2, <1>3 DEF IInv

(***************************************************************************)
(* Steps of the sweep that assign to no record                             *)
(***************************************************************************)
LEMMA StartTickStep == ASSUME IInv, StartTick PROVE IInv'
<1> USE DEF IInv, exchangeVars, manualVars, fileVars
<1>1. /\ pc = "idle" /\ pc' = "next" /\ detached = NoRecords /\ ~dirty
      /\ records' = [t \in Topics |-> IF t \in Adopted THEN NewRecord(t) ELSE records[t]]
      /\ work' = {t \in Topics : records'[t] # None}
      /\ dirty' = (Adopted # {})
      /\ UNCHANGED <<inbox, approving, detached, store, owed, cur, unsaved, manual, object>>
  BY DEF StartTick, HoldsObjects, SavedOrDirty
<1>2. records' \in Records
  BY <1>1, NewRecordFact DEF TypeOK, Records
<1>3. dirty' \in BOOLEAN
  BY <1>1
<1>4. TypeOK'
  BY <1>1, <1>2, <1>3 DEF StartTick, TypeOK
<1>5. HoldsObjects'
  BY <1>1, NoRecordsType DEF HoldsObjects, Visiting, Held
<1>6. SavedOrDirty'
  <2>1. Adopted = {} => records' = records
    BY <1>1 DEF TypeOK, Records
  <2> QED BY <1>1, <2>1 DEF SavedOrDirty
<1>7. ObjectHeld'
  BY <1>1, NewRecordFact DEF ObjectHeld
<1>8. \A t \in Topics : Eased(t)
  BY <1>1, NewRecordFact, NoRecordsType DEF Eased, MapNeeds, OldNeeds, Adopted, ListApproved
<1>9. Covered'
  BY <1>1, <1>8, CoveredStays
<1> QED BY <1>4, <1>5, <1>6, <1>7, <1>9

\* No record and no topic to visit changes, and no send starts.
LEMMA QuietSweepStep ==
  ASSUME IInv, TypeOK',
         UNCHANGED <<records, store, detached, work, dirty, approving, owed, unsaved, manual,
                     object>>,
         inbox' \subseteq inbox,
         pc \notin {"idle", "down", "sending"}, pc' \notin {"idle", "down", "sending", "deliver"},
         pc' # "next" => cur' = cur /\ Visiting
  PROVE  IInv'
<1> USE DEF IInv
<1>1. HoldsObjects'
  BY DEF HoldsObjects, Visiting, Held
<1>2. SavedOrDirty' /\ ObjectHeld'
  BY DEF SavedOrDirty, ObjectHeld
<1>3. \A t \in Topics : Eased(t)
  BY DEF Eased, MapNeeds, OldNeeds
<1> QED BY <1>1, <1>2, <1>3, CoveredStays

LEMMA QuietSweepSteps ==
  ASSUME IInv, SkipDelivery \/ SkipArchive \/ StartArchive \/ MoverArchives \/ MoverFails
  PROVE  IInv'
<1> USE DEF exchangeVars, sweepVars, manualVars, fileVars
<1>1. CASE SkipDelivery
  <2>1. TypeOK'
    BY <1>1 DEF SkipDelivery, IInv, TypeOK
  <2> QED BY <1>1, <2>1, QuietSweepStep DEF SkipDelivery, Visiting
<1>2. CASE SkipArchive
  <2>1. TypeOK'
    BY <1>2 DEF SkipArchive, IInv, TypeOK
  <2> QED BY <1>2, <2>1, QuietSweepStep DEF SkipArchive
<1>3. CASE StartArchive
  <2>1. TypeOK'
    BY <1>3 DEF StartArchive, IInv, TypeOK
  <2> QED BY <1>3, <2>1, QuietSweepStep DEF StartArchive, Visiting
<1>4. CASE MoverArchives
  <2>1. TypeOK'
    BY <1>4 DEF MoverArchives, IInv, TypeOK
  <2> QED BY <1>4, <2>1, QuietSweepStep DEF MoverArchives, Visiting
<1>5. CASE MoverFails
  <2>1. faults' \in 0..MaxFaults
    BY <1>5 DEF MoverFails, Fault, IInv, TypeOK
  <2>2. TypeOK'
    BY <1>5, <2>1 DEF MoverFails, IInv, TypeOK
  <2> QED BY <1>5, <2>2, QuietSweepStep DEF MoverFails
<1> QED BY <1>1, <1>2, <1>3, <1>4, <1>5

LEMMA StartSendStep == ASSUME IInv, NEW t \in Topics, StartSend(t) PROVE IInv'
<1> USE DEF IInv, exchangeVars, sweepVars, manualVars, fileVars
<1>1. /\ pc = "deliver" /\ cur = t /\ pc' = "sending" /\ ~Held(t).delivered
      /\ owed' = [owed EXCEPT ![t] = @ - 1]
      /\ UNCHANGED <<inbox, records, store, detached, work, cur, dirty, approving, unsaved,
                     manual, object>>
  BY DEF StartSend, Deliverable
<1>2. TypeOK'
  BY DEF StartSend, TypeOK
<1>3. HoldsObjects' /\ SavedOrDirty' /\ ObjectHeld'
  BY <1>1 DEF HoldsObjects, Visiting, Held, SavedOrDirty, ObjectHeld
<1>4. ASSUME NEW u \in Topics
      PROVE  owed'[u] >= Count(MapNeeds(u)') + Count(OldNeeds(u)')
  <2>1. owed[u] \in Int /\ owed[u] >= Count(MapNeeds(u)) + Count(OldNeeds(u))
    BY <1>1 DEF Covered, TypeOK
  <2>2. CASE u = t
    <3>1. owed'[t] = owed[t] - 1
      BY <1>1 DEF TypeOK
    <3>2. t \notin work /\ Held(t) # None
      BY <1>1 DEF HoldsObjects, Visiting
    <3>3. CASE detached[t] = None
      <4>1. MapNeeds(t) /\ ~MapNeeds(t)' /\ ~OldNeeds(t)'
        BY <1>1, <3>2, <3>3 DEF MapNeeds, OldNeeds, Held
      <4> QED BY <2>1, <2>2, <3>1, <4>1 DEF Count
    <3>4. CASE detached[t] # None
      <4>1. OldNeeds(t) /\ ~OldNeeds(t)' /\ (MapNeeds(t)' => MapNeeds(t))
        BY <1>1, <3>2, <3>4 DEF MapNeeds, OldNeeds, Held
      <4> HIDE DEF IInv
      <4> QED BY <2>1, <2>2, <3>1, <4>1 DEF Count
    <3> QED BY <3>3, <3>4
  <2>3. CASE u # t
    <3>1. owed'[u] = owed[u] /\ (MapNeeds(u)' => MapNeeds(u)) /\ (OldNeeds(u)' => OldNeeds(u))
      BY <1>1, <2>3 DEF TypeOK, MapNeeds, OldNeeds
    <3> QED BY <2>1, <3>1 DEF Count
  <2> QED BY <2>2, <2>3
<1>5. Covered'
  BY <1>1, <1>4 DEF Covered
<1> QED BY <1>2, <1>3, <1>5

(***************************************************************************)
(* Steps of the sweep that assign to the record it holds                   *)
(***************************************************************************)
\* The assignment says at least as much of delivery, and reports itself.
LEMMA AssignStep ==
  ASSUME IInv, TypeOK', NEW t \in Topics, Held(t) # None,
         NEW r \in Rec, Assign(t, r), Held(t).delivered => r.delivered,
         dirty \/ r # Held(t) => dirty',
         UNCHANGED <<store, inbox, approving, owed, unsaved, manual, object>>,
         pc \notin {"idle", "down"}, pc = "sending" => cur = t /\ r.delivered,
         pc' \in {"next", "deliver", "archive"}, work' \subseteq work,
         pc' # "next" => cur' \in Topics /\ cur' \notin work' /\ Held(cur') # None,
         pc' = "deliver" => cur' \in work
  PROVE  IInv'
<1> USE DEF IInv
<1>1. /\ records' \in Records /\ detached' \in Records
      /\ \A u \in Topics : /\ records'[u] = None <=> records[u] = None
                           /\ detached'[u] = None <=> detached[u] = None
      /\ \A u \in Topics : u # t => records'[u] = records[u] /\ detached'[u] = detached[u]
      /\ detached[t] = None => records'[t] = r /\ detached' = detached
      /\ detached[t] # None => detached'[t] = r /\ records' = records
  BY AssignFact
<1>2. HoldsObjects'
  <2>1. ASSUME NEW u \in Topics, Held(u) # None
        PROVE  IF detached'[u] # None THEN detached'[u] # None ELSE records'[u] # None
    BY <1>1, <2>1 DEF Held
  <2>2. \A u \in Topics : Held(u) # None => Held(u)' # None
    BY <2>1 DEF Held
  <2>3. \A u \in work' : Held(u)' # None
    BY <2>2 DEF HoldsObjects, TypeOK
  <2>4. Visiting' => cur' \in Topics /\ cur' \notin work' /\ Held(cur)' # None
    BY <2>1 DEF Visiting, Held
  <2> QED BY <2>3, <2>4 DEF HoldsObjects
<1>3. SavedOrDirty'
  <2>1. r = Held(t) => records' = records
    BY <1>1 DEF Held, Records, TypeOK
  <2> QED BY <2>1 DEF SavedOrDirty
<1>4. ObjectHeld'
  BY <1>1 DEF ObjectHeld
<1>5. ASSUME NEW u \in Topics PROVE Eased(u)
  <2>1. CASE u # t
    BY <1>1, <2>1 DEF Eased, MapNeeds, OldNeeds
  <2>2. CASE u = t /\ detached[t] = None
    BY <1>1, <2>2 DEF Eased, MapNeeds, OldNeeds, Held
  <2>3. CASE u = t /\ detached[t] # None
    BY <1>1, <2>3 DEF Eased, MapNeeds, OldNeeds, Held
  <2> QED BY <2>1, <2>2, <2>3
<1> QED BY <1>2, <1>3, <1>4, <1>5, CoveredStays

LEMMA MovedFact ==
  ASSUME TypeOK, NEW t \in Topics, Held(t) # None, NEW new \in MarkStalled(Moved(t)) \cup {Moved(t)}
  PROVE  new \in Rec /\ new.delivered = Held(t).delivered
<1> DEFINE r == Held(t)
           moved == [r EXCEPT !.stage = Probe(t),
                              !.stalled = IF Probe(t) = r.stage THEN @ ELSE FALSE]
<1>1. r \in Rec
  BY HeldType
<1>2. Probe(t) \in Stages
  BY DEF TypeOK, Fates, Stages, Probe, HasBrief
<1>3. moved \in Rec /\ moved.delivered = r.delivered
  <2> HIDE DEF r
  <2> QED BY <1>1, <1>2 DEF Rec
<1>4. Moved(t) = moved
  BY DEF Moved
<1> HIDE DEF moved, r
<1>5. [moved EXCEPT !.stalled = TRUE] \in Rec
      /\ [moved EXCEPT !.stalled = TRUE].delivered = r.delivered
  BY <1>3 DEF Rec
<1>6. new = moved \/ new = [moved EXCEPT !.stalled = TRUE]
  BY <1>4 DEF MarkStalled
<1> QED BY <1>3, <1>5, <1>6 DEF r

LEMMA VisitStep == ASSUME IInv, NEW t \in Topics, Visit(t) PROVE IInv'
<1> USE DEF IInv, exchangeVars, manualVars, fileVars
<1>1. /\ pc = "next" /\ t \in work /\ work' = work \ {t}
      /\ \/ pc' = "deliver" /\ cur' = t
         \/ pc' = "next" /\ cur' = cur
      /\ UNCHANGED <<store, inbox, approving, owed, unsaved, manual, object>>
  BY DEF Visit
<1>2. Held(t) # None
  BY <1>1 DEF HoldsObjects
<1>3. PICK new \in MarkStalled(Moved(t)) : Assign(t, new) /\ dirty' = Dirty(Held(t), new)
  BY DEF Visit
<1>4. new \in Rec /\ new.delivered = Held(t).delivered
  BY <1>2, <1>3, MovedFact
<1>5. dirty' \in BOOLEAN /\ (dirty \/ new # Held(t) => dirty')
  BY <1>3 DEF Dirty, TypeOK
<1>6. TypeOK'
  <2>1. records' \in Records /\ detached' \in Records
    BY <1>2, <1>3, <1>4, AssignFact
  <2> QED BY <1>1, <1>5, <2>1 DEF Visit, TypeOK
<1> QED BY <1>1, <1>2, <1>3, <1>4, <1>5, <1>6, AssignStep

LEMMA PutStep ==
  ASSUME IInv, NEW e \in {"held", "target"}, pc = "deliver", Put(e) PROVE IInv'
<1> USE DEF IInv, exchangeVars, manualVars, fileVars
<1> DEFINE r == Held(cur)
           new == IF e = "held" /\ r.error # "none" THEN r ELSE [r EXCEPT !.error = e]
<1>1. /\ Assign(cur, new) /\ dirty' = Dirty(r, new)
      /\ pc' = "archive"
      /\ UNCHANGED <<store, inbox, approving, owed, work, cur, unsaved, manual, object>>
  BY DEF Put
<1>2. cur \in Topics /\ cur \notin work /\ r # None /\ r \in Rec
  BY HeldType DEF HoldsObjects, Visiting
<1>3. new \in Rec /\ new.delivered = r.delivered
  BY <1>2, ErrorFact
<1> HIDE DEF new
<1>4. dirty' \in BOOLEAN /\ (dirty \/ new # r => dirty')
  BY <1>1 DEF Dirty, TypeOK
<1>5. TypeOK'
  <2>1. records' \in Records /\ detached' \in Records
    BY <1>1, <1>2, <1>3, AssignFact
  <2> QED BY <1>1, <1>4, <2>1 DEF Put, TypeOK
<1> QED BY <1>1, <1>2, <1>3, <1>4, <1>5, AssignStep

LEMMA MarkArchivedStep == ASSUME IInv, MarkArchived PROVE IInv'
<1> USE DEF IInv, exchangeVars, manualVars, fileVars
<1> DEFINE r == Held(cur)
           new == Archived(r)
<1>1. /\ Assign(cur, new) /\ dirty' = TRUE /\ pc \in {"archive", "moved"}
      /\ pc' = "next" /\ cur' = None
      /\ UNCHANGED <<store, inbox, approving, owed, work, unsaved, manual, object>>
  BY DEF MarkArchived
<1>2. cur \in Topics /\ r # None /\ r \in Rec
  BY <1>1, HeldType DEF HoldsObjects, Visiting
<1>3. new \in Rec /\ new.delivered = r.delivered
  BY <1>2, ArchivedFact
<1> HIDE DEF new
<1>4. TypeOK'
  <2>1. records' \in Records /\ detached' \in Records
    BY <1>1, <1>2, <1>3, AssignFact
  <2> QED BY <1>1, <2>1 DEF MarkArchived, TypeOK
<1> QED BY <1>1, <1>2, <1>3, <1>4, AssignStep

\* The answer to a send is on the record, which was taken for delivered.
LEMMA SentStep ==
  ASSUME IInv, NEW new \in Rec, new.delivered, SendEnds(new),
         faults' \in 0..MaxFaults, posted' = posted \cup {cur}, UNCHANGED owed
  PROVE  IInv'
<1> USE DEF IInv, exchangeVars, manualVars, fileVars
<1>1. /\ Assign(cur, new) /\ dirty' = TRUE /\ pc = "sending" /\ pc' = "archive"
      /\ UNCHANGED <<store, inbox, approving, owed, work, cur, unsaved, manual, object>>
  BY DEF SendEnds
<1>2. cur \in Topics /\ cur \notin work /\ Held(cur) # None
  BY <1>1 DEF HoldsObjects, Visiting
<1>3. TypeOK'
  <2>1. records' \in Records /\ detached' \in Records
    BY <1>1, <1>2, AssignFact
  <2> QED BY <1>1, <1>2, <2>1 DEF SendEnds, TypeOK
<1> QED BY <1>1, <1>2, <1>3, AssignStep

LEMMA SendOkStep == ASSUME IInv, SendOk PROVE IInv'
<1>1. Held(cur) \in Rec
  BY HeldType DEF SendOk, SendEnds, IInv, HoldsObjects, Visiting
<1>2. Delivered(Held(cur)) \in Rec /\ Delivered(Held(cur)).delivered
  BY <1>1, DeliveredFact
<1>3. faults' \in 0..MaxFaults
  BY DEF SendOk, IInv, TypeOK
<1> QED BY <1>2, <1>3, SentStep DEF SendOk

LEMMA FailedStep ==
  ASSUME IInv, SendEnds(Failed(Held(cur))), faults' \in 0..MaxFaults, posted' \subseteq Topics,
         Owe(cur)
  PROVE  IInv'
<1> USE DEF IInv, exchangeVars, manualVars, fileVars
<1> DEFINE new == Failed(Held(cur))
<1>1. /\ Assign(cur, new) /\ dirty' = TRUE /\ pc = "sending" /\ pc' = "archive"
      /\ owed' = [owed EXCEPT ![cur] = @ + 1]
      /\ UNCHANGED <<store, inbox, approving, work, cur, unsaved, manual, object>>
  BY DEF SendEnds, Owe
<1>2. cur \in Topics /\ cur \notin work /\ Held(cur) # None /\ Held(cur) \in Rec
  BY <1>1, HeldType DEF HoldsObjects, Visiting
<1>3. new \in Rec
  BY <1>2, FailedFact
<1> HIDE DEF new
<1>4. /\ records' \in Records /\ detached' \in Records
      /\ \A u \in Topics : /\ records'[u] = None <=> records[u] = None
                           /\ detached'[u] = None <=> detached[u] = None
      /\ \A u \in Topics : u # cur => records'[u] = records[u] /\ detached'[u] = detached[u]
  BY <1>1, <1>2, <1>3, AssignFact
<1>5. TypeOK'
  <2>1. owed' \in [Topics -> Int]
    BY <1>1, <1>2 DEF TypeOK
  <2>2. UNCHANGED <<autoArchive, fate, fetched, witnessed, approvals>>
    BY DEF SendEnds
  <2> QED BY <1>1, <1>2, <1>4, <2>1, <2>2 DEF TypeOK
<1>6. HoldsObjects'
  <2>1. \A u \in Topics : Held(u) # None => Held(u)' # None
    BY <1>4 DEF Held
  <2> QED BY <1>1, <1>2, <2>1 DEF HoldsObjects, Visiting, TypeOK
<1>7. SavedOrDirty' /\ ObjectHeld'
  BY <1>1, <1>4 DEF SavedOrDirty, ObjectHeld
<1>8. /\ ~OldNeeds(cur)'
      /\ \A u \in Topics : u # cur => Eased(u)
  BY <1>1, <1>2, <1>4 DEF Eased, MapNeeds, OldNeeds
<1>9. Covered'
  BY <1>1, <1>2, <1>8, CoveredOwes
<1> QED BY <1>5, <1>6, <1>7, <1>9

(***************************************************************************)
(* A sweep that throws, and its end                                        *)
(***************************************************************************)
LEMMA ThrowsFact ==
  ASSUME IInv, NEW t \in Topics, Held(t) # None, NEW new \in Rec, Throws(t, new),
         pc \notin {"idle", "down"}, posted' \subseteq Topics, owed' \in [Topics -> Int]
  PROVE  /\ TypeOK' /\ HoldsObjects' /\ SavedOrDirty' /\ ObjectHeld'
         /\ \A u \in Topics : records'[u] = None <=> records[u] = None
         /\ \A u \in Topics : u # t => records'[u] = records[u]
         /\ detached[t] = None => records'[t] = new
         /\ detached[t] # None => records' = records
         /\ \A u \in Topics : ~OldNeeds(u)'
         /\ pc' = "idle" /\ UNCHANGED <<inbox, approving>>
<1> USE DEF IInv, exchangeVars, manualVars, fileVars
<1>1. /\ records' = IF detached[t] = None THEN [records EXCEPT ![t] = new] ELSE records
      /\ detached' = NoRecords
      /\ object' = IF object = "sweep" THEN "none" ELSE object
      /\ pc' = "idle" /\ work' = {} /\ cur' = None /\ dirty' = FALSE /\ unsaved' = TRUE
      /\ UNCHANGED <<autoArchive, inbox, fate, fetched, witnessed, store, approving, manual,
                     approvals>>
      /\ faults' \in 0..MaxFaults
  BY DEF Throws, Orphaned, Fault, TypeOK
<1>2. new # None
  OBVIOUS
<1>3. /\ records' \in Records
      /\ \A u \in Topics : records'[u] = None <=> records[u] = None
      /\ \A u \in Topics : u # t => records'[u] = records[u]
      /\ detached[t] = None => records'[t] = new
      /\ detached[t] # None => records' = records
  BY <1>1, <1>2 DEF Held, TypeOK, Records
<1>4. TypeOK'
  BY <1>1, <1>3, NoRecordsType DEF TypeOK
<1>5. HoldsObjects' /\ SavedOrDirty'
  BY <1>1 DEF HoldsObjects, Visiting, SavedOrDirty
<1>6. ObjectHeld'
  BY <1>1, <1>3 DEF ObjectHeld
<1>7. \A u \in Topics : ~OldNeeds(u)'
  BY <1>1, NoRecordsType DEF OldNeeds
<1> QED BY <1>1, <1>3, <1>4, <1>5, <1>6, <1>7

\* It says at least as much of delivery as before, or owes the send.
LEMMA ThrowsStep ==
  ASSUME IInv, NEW t \in Topics, Held(t) # None, NEW new \in Rec, Throws(t, new),
         pc \notin {"idle", "down"}, posted' \subseteq Topics,
         Held(t).delivered => new.delivered, pc = "sending" => cur = t,
         \/ UNCHANGED owed /\ (pc = "sending" => new.delivered)
         \/ Owe(t)
  PROVE  IInv'
<1> USE DEF IInv
<1>1. owed' \in [Topics -> Int]
  BY DEF Owe, TypeOK
<1>2. /\ TypeOK' /\ HoldsObjects' /\ SavedOrDirty' /\ ObjectHeld'
      /\ \A u \in Topics : records'[u] = None <=> records[u] = None
      /\ \A u \in Topics : u # t => records'[u] = records[u]
      /\ detached[t] = None => records'[t] = new
      /\ detached[t] # None => records' = records
      /\ \A u \in Topics : ~OldNeeds(u)'
      /\ pc' = "idle" /\ UNCHANGED <<inbox, approving>>
  BY <1>1, ThrowsFact
<1>3. \A u \in Topics : u # t => Eased(u)
  BY <1>2 DEF Eased, MapNeeds
<1>4. UNCHANGED owed /\ (pc = "sending" => new.delivered) => Eased(t)
  BY <1>2 DEF Eased, MapNeeds, Held
<1>5. CASE UNCHANGED owed /\ (pc = "sending" => new.delivered)
  BY <1>2, <1>3, <1>4, <1>5, CoveredStays
<1>6. CASE Owe(t)
  BY <1>2, <1>3, <1>6, CoveredOwes
<1> QED BY <1>5, <1>6

LEMMA SendFailsStep == ASSUME IInv, SendFails PROVE IInv'
<1>1. pc = "sending" /\ Owe(cur) /\ cur \in Topics /\ Held(cur) # None
  BY DEF SendFails, SendEnds, IInv, HoldsObjects, Visiting
<1>2. Held(cur) \in Rec
  BY <1>1, HeldType DEF IInv
<1>3. faults' \in 0..MaxFaults /\ posted' \subseteq Topics
  BY <1>1 DEF SendFails, Throws, Fault, IInv, TypeOK
<1>4. Failed(Held(cur)) \in Rec /\ Failed(Held(cur)).delivered = Held(cur).delivered
  BY <1>2, FailedFact
<1>5. CASE SendEnds(Failed(Held(cur)))
  BY <1>1, <1>3, <1>5, FailedStep
<1>6. CASE Throws(cur, Failed(Held(cur)))
  BY <1>1, <1>3, <1>4, <1>6, ThrowsStep
<1> QED BY <1>5, <1>6 DEF SendFails

LEMMA UnauditedStepFact == ASSUME IInv, UnauditedStep PROVE IInv'
<1>1. ASSUME NEW t \in Topics, VisitThrows(t) PROVE IInv'
  <2>1. pc = "next" /\ Held(t) # None /\ posted' \subseteq Topics /\ UNCHANGED owed
    BY <1>1 DEF VisitThrows, IInv, HoldsObjects, TypeOK
  <2>2. PICK new \in {Moved(t)} \cup MarkStalled(Moved(t)) : Throws(t, new)
    BY <1>1 DEF VisitThrows
  <2>3. new \in Rec /\ new.delivered = Held(t).delivered
    BY <2>1, <2>2, MovedFact DEF IInv
  <2> QED BY <2>1, <2>2, <2>3, ThrowsStep
<1>2. pc \in {"deliver", "sending", "moved"} => cur \in Topics /\ Held(cur) # None
  BY DEF IInv, HoldsObjects, Visiting
<1>3. pc \in {"deliver", "sending", "moved"} => Held(cur) \in Rec
  BY <1>2, HeldType DEF IInv
<1>4. CASE HoldThrows
  <2>1. pc = "deliver" /\ posted' \subseteq Topics /\ UNCHANGED owed
    BY <1>4 DEF HoldThrows, IInv, TypeOK
  <2>2. /\ [Held(cur) EXCEPT !.error = "held"] \in Rec
        /\ [Held(cur) EXCEPT !.error = "held"].delivered = Held(cur).delivered
    BY <1>3, <2>1, ErrorFact
  <2>3. Throws(cur, [Held(cur) EXCEPT !.error = "held"])
    BY <1>4 DEF HoldThrows
  <2> QED BY <1>2, <2>1, <2>2, <2>3, ThrowsStep
<1>5. CASE SendUnaudited
  <2> DEFINE both == Failed(Delivered(Held(cur)))
  <2>1. pc = "sending" /\ posted' = posted \cup {cur} /\ UNCHANGED owed
    BY <1>5 DEF SendUnaudited, SendEnds
  <2>2. both \in Rec /\ both.delivered
    <3>1. Delivered(Held(cur)) \in Rec /\ Delivered(Held(cur)).delivered
      BY <1>3, <2>1, DeliveredFact
    <3> QED BY <3>1, FailedFact
  <2>3. posted' \subseteq Topics
    BY <1>2, <2>1 DEF IInv, TypeOK
  <2>4. faults' \in 0..MaxFaults
    BY <1>5 DEF SendUnaudited, Throws, Fault, IInv, TypeOK
  <2>5. SendEnds(both) \/ Throws(cur, both)
    BY <1>5 DEF SendUnaudited
  <2> HIDE DEF both
  <2>6. CASE SendEnds(both)
    BY <2>1, <2>2, <2>4, <2>6, SentStep
  <2>7. CASE Throws(cur, both)
    BY <1>2, <2>1, <2>2, <2>3, <2>7, ThrowsStep
  <2> QED BY <2>5, <2>6, <2>7
<1>6. CASE ArchiveThrows
  <2>1. pc = "moved" /\ posted' \subseteq Topics /\ UNCHANGED owed
    BY <1>6 DEF ArchiveThrows, IInv, TypeOK
  <2>2. Archived(Held(cur)) \in Rec /\ Archived(Held(cur)).delivered = Held(cur).delivered
    BY <1>3, <2>1, ArchivedFact
  <2>3. Throws(cur, Archived(Held(cur)))
    BY <1>6 DEF ArchiveThrows
  <2> QED BY <1>2, <2>1, <2>2, <2>3, ThrowsStep
<1> QED BY <1>1, <1>4, <1>5, <1>6 DEF UnauditedStep

LEMMA EndTickStep == ASSUME IInv, EndTick PROVE IInv'
<1> USE DEF IInv, exchangeVars, manualVars, fileVars
<1>1. PICK gone \in SUBSET {t \in Topics \ approving : Prunable(t)} :
        /\ records' = [t \in Topics |-> IF t \in gone THEN None ELSE records[t]]
        /\ IF dirty \/ gone # {} THEN Persist ELSE UNCHANGED <<fileVars, faults>>
        /\ Orphaned(object = "sweep" \/ manual \in gone)
  BY DEF EndTick
<1>2. /\ pc = "next" /\ pc' = "idle" /\ detached' = NoRecords /\ dirty' = FALSE
      /\ UNCHANGED <<inbox, approving, owed, manual>>
  BY DEF EndTick
<1>3. records' \in Records
  BY <1>1 DEF Records, TypeOK
<1>4. /\ store' \in Records /\ unsaved' \in BOOLEAN /\ faults' \in 0..MaxFaults
      /\ store' = records' \/ unsaved'
  <2>1. CASE dirty \/ gone # {}
    BY <1>1, <1>3, <2>1, PersistFact
  <2>2. CASE ~(dirty \/ gone # {})
    <3>1. UNCHANGED <<store, unsaved, faults>> /\ ~dirty
      BY <1>1, <2>2
    <3>2. records' = records
      BY <1>1, <2>2 DEF Records, TypeOK
    <3> QED BY <1>2, <3>1, <3>2 DEF SavedOrDirty, TypeOK
  <2> QED BY <2>1, <2>2
<1>5. object' = IF object = "sweep" \/ manual \in gone THEN "none" ELSE object
  BY <1>1 DEF Orphaned
<1>6. TypeOK'
  BY <1>2, <1>3, <1>4, <1>5, NoRecordsType DEF EndTick, TypeOK
<1>7. HoldsObjects' /\ SavedOrDirty' /\ ObjectHeld'
  BY <1>1, <1>2, <1>4, <1>5 DEF HoldsObjects, Visiting, SavedOrDirty, ObjectHeld
<1>8. ASSUME NEW t \in Topics PROVE Eased(t)
  <2>1. t \in gone => t \notin inbox /\ t \notin approving
    BY <1>1 DEF Prunable
  <2> QED BY <1>1, <1>2, <2>1, NoRecordsType DEF Eased, MapNeeds, OldNeeds
<1>9. Covered'
  BY <1>2, <1>8, CoveredStays
<1> QED BY <1>6, <1>7, <1>9

(***************************************************************************)
(* HTTP handlers                                                           *)
(***************************************************************************)
LEMMA TrackStep == ASSUME IInv, NEW t \in Topics, Track(t) PROVE IInv'
<1> USE DEF IInv, exchangeVars, sweepVars, manualVars, fileVars
<1>1. /\ t \in approving /\ approving' = approving \ {t}
      /\ detached' = IF SweepHolds(t) THEN [detached EXCEPT ![t] = Held(t)] ELSE detached
      /\ records' = [records EXCEPT ![t] = NewRecord(t)]
      /\ Persist
      /\ object' = IF manual = t /\ object = "map"
                     THEN IF SweepHolds(t) /\ detached[t] = None THEN "sweep" ELSE "none"
                     ELSE object
      /\ owed' = IF records[t] # None THEN [owed EXCEPT ![t] = @ + 1] ELSE owed
      /\ pc \in {"idle", "sending", "archiving", "moved"}
      /\ UNCHANGED <<inbox, pc, work, cur, dirty, manual>>
  BY DEF Track, Callbacks, Owe
<1>2. SweepHolds(t) => pc # "idle" /\ Held(t) # None /\ (t \in work \/ t = cur)
  BY <1>1 DEF SweepHolds, HoldsObjects, Visiting
<1>3. /\ NewRecord(t) \in Rec /\ NewRecord(t) # None /\ ~NewRecord(t).delivered
      /\ SweepHolds(t) => Held(t) \in Rec
  BY <1>2, NewRecordFact, HeldType
<1>4. records' \in Records /\ detached' \in Records
  BY <1>1, <1>3 DEF Records, TypeOK
<1>5. /\ \A u \in Topics : u # t => records'[u] = records[u] /\ detached'[u] = detached[u]
      /\ records'[t] = NewRecord(t)
      /\ detached'[t] = IF SweepHolds(t) THEN Held(t) ELSE detached[t]
  BY <1>1 DEF Records, TypeOK
<1>6. TypeOK'
  <2>1. owed' \in [Topics -> Int]
    BY <1>1 DEF TypeOK
  <2>2. store' \in Records /\ unsaved' \in BOOLEAN /\ faults' \in 0..MaxFaults
    BY <1>1, <1>4, PersistFact
  <2>3. object' \in {"map", "sweep", "none"}
    BY <1>1 DEF TypeOK
  <2> QED BY <1>1, <1>4, <2>1, <2>2, <2>3 DEF Track, TypeOK
<1>7. HoldsObjects'
  <2>1. pc = "idle" => detached' = detached
    BY <1>1, <1>2
  <2>2. \A u \in Topics : Held(u) # None => Held(u)' # None
    BY <1>3, <1>5 DEF Held
  <2> QED BY <1>1, <2>1, <2>2 DEF HoldsObjects, Visiting, TypeOK
<1>8. SavedOrDirty' /\ ObjectHeld'
  <2>1. store' = records' \/ unsaved'
    BY <1>1, <1>4, PersistFact
  <2>2. SavedOrDirty'
    BY <1>1, <2>1 DEF SavedOrDirty
  <2>3. ObjectHeld'
    BY <1>1, <1>2, <1>3, <1>5 DEF ObjectHeld, TypeOK
  <2> QED BY <2>2, <2>3
<1>9. ASSUME NEW u \in Topics
      PROVE  owed'[u] >= Count(MapNeeds(u)') + Count(OldNeeds(u)')
  <2>1. owed[u] \in Int /\ owed[u] >= Count(MapNeeds(u)) + Count(OldNeeds(u))
    BY <1>1 DEF Covered, TypeOK
  <2>2. CASE u # t
    <3>1. owed'[u] = owed[u] /\ (MapNeeds(u)' => MapNeeds(u)) /\ (OldNeeds(u)' => OldNeeds(u))
      BY <1>1, <1>5, <2>2 DEF TypeOK, MapNeeds, OldNeeds
    <3> QED BY <2>1, <3>1 DEF Count
  <2>3. CASE u = t /\ records[t] = None
    <3>1. owed'[u] = owed[u] /\ MapNeeds(u)
      BY <1>1, <2>3 DEF MapNeeds
    <3>2. detached'[t] = detached[t]
      BY <1>2, <1>5, <2>3 DEF Held
    <3>3. OldNeeds(u)' => OldNeeds(u)
      BY <1>1, <2>3, <3>2 DEF OldNeeds
    <3> HIDE DEF IInv, MapNeeds, OldNeeds
    <3> QED BY <2>1, <3>1, <3>3 DEF Count
  <2>4. CASE u = t /\ records[t] # None
    <3>1. owed'[u] = owed[u] + 1
      BY <1>1, <2>4 DEF TypeOK
    <3>2. OldNeeds(u)' => OldNeeds(u) \/ (MapNeeds(u) /\ ~OldNeeds(u))
      BY <1>1, <1>2, <1>5, <2>4 DEF MapNeeds, OldNeeds, Held, HoldsObjects, Visiting
    <3> HIDE DEF IInv, MapNeeds, OldNeeds
    <3> QED BY <2>1, <3>1, <3>2 DEF Count
  <2> QED BY <2>2, <2>3, <2>4
<1>10. Covered'
  BY <1>1, <1>9 DEF Covered
<1> QED BY <1>6, <1>7, <1>8, <1>10

LEMMA PressDeliverStep == ASSUME IInv, NEW t \in Topics, PressDeliver(t) PROVE IInv'
<1> USE DEF IInv, exchangeVars, sweepVars, manualVars, fileVars, PressDeliver, Callbacks
<1>1. TypeOK'
  BY DEF TypeOK
<1>2. HoldsObjects' /\ SavedOrDirty' /\ ObjectHeld'
  BY DEF HoldsObjects, Visiting, Held, SavedOrDirty, ObjectHeld
<1>3. \A u \in Topics : Eased(u)
  BY DEF Eased, MapNeeds, OldNeeds
<1> QED BY <1>1, <1>2, <1>3, CoveredStays

\* The object a deliverNow() holds is marked where it is.
LEMMA MarkedFact ==
  ASSUME NEW rs \in Records, NEW t \in Topics, rs[t] # None, NEW new,
         new \in {[rs EXCEPT ![t] = Delivered(@)], [rs EXCEPT ![t] = Failed(@)]}
  PROVE  /\ new \in Records
         /\ \A u \in Topics : /\ new[u] = None <=> rs[u] = None
                              /\ rs[u] # None /\ rs[u].delivered => new[u].delivered
<1>1. PICK r : new = [rs EXCEPT ![t] = r] /\ (r = Delivered(rs[t]) \/ r = Failed(rs[t]))
  BY DEF Records
<1>2. rs[t] \in Rec
  BY DEF Records
<1>3. r \in Rec /\ r # None /\ (rs[t].delivered => r.delivered)
  BY <1>1, <1>2, DeliveredFact, FailedFact
<1> QED BY <1>1, <1>3 DEF Records

LEMMA ManualEndsStep == ASSUME IInv, ManualEnds PROVE IInv'
<1> USE DEF IInv, exchangeVars, sweepVars, manualVars, fileVars
<1>1. /\ manual \in Topics /\ pc \in {"idle", "sending", "archiving", "moved"}
      /\ manual' = None /\ object' = "none" /\ Persist
      /\ UNCHANGED <<autoArchive, inbox, fate, fetched, witnessed, pc, work, cur,
                     dirty, approving, posted, approvals, owed>>
  BY DEF ManualEnds, Callbacks, TypeOK
<1>2. /\ records' \in Records
      /\ \A u \in Topics : /\ records'[u] = None <=> records[u] = None
                           /\ records[u] # None /\ records[u].delivered => records'[u].delivered
  <2>1. CASE object = "map"
    <3>1. records[manual] # None
      BY <2>1 DEF ObjectHeld
    <3>2. records' \in {[records EXCEPT ![manual] = Delivered(@)],
                        [records EXCEPT ![manual] = Failed(@)]}
      BY <2>1 DEF ManualEnds
    <3> QED BY <1>1, <3>1, <3>2, MarkedFact DEF TypeOK
  <2>2. CASE object # "map"
    BY <2>2 DEF ManualEnds, TypeOK
  <2> QED BY <2>1, <2>2
<1>3. /\ detached' \in Records /\ (pc = "idle" => detached' = detached)
      /\ \A u \in Topics : /\ detached'[u] = None <=> detached[u] = None
                           /\ detached[u] # None /\ detached[u].delivered => detached'[u].delivered
  <2>1. CASE object = "sweep"
    <3>1. detached[manual] # None
      BY <2>1 DEF ObjectHeld
    <3>2. detached' \in {[detached EXCEPT ![manual] = Delivered(@)],
                         [detached EXCEPT ![manual] = Failed(@)]}
      BY <2>1 DEF ManualEnds
    <3>3. pc # "idle"
      BY <1>1, <3>1, NoRecordsType DEF HoldsObjects
    <3> QED BY <1>1, <3>1, <3>2, <3>3, MarkedFact DEF TypeOK
  <2>2. CASE object # "sweep"
    BY <2>2 DEF ManualEnds, TypeOK
  <2> QED BY <2>1, <2>2
<1>4. /\ store' \in Records /\ unsaved' \in BOOLEAN /\ faults' \in 0..MaxFaults
      /\ store' = records' \/ unsaved'
  BY <1>1, <1>2, PersistFact
<1>5. TypeOK'
  BY <1>1, <1>2, <1>3, <1>4 DEF TypeOK
<1>6. HoldsObjects'
  BY <1>1, <1>2, <1>3 DEF HoldsObjects, Visiting, Held, TypeOK
<1>7. SavedOrDirty' /\ ObjectHeld'
  BY <1>1, <1>4 DEF SavedOrDirty, ObjectHeld
<1>8. \A u \in Topics : Eased(u)
  BY <1>1, <1>2, <1>3 DEF Eased, MapNeeds, OldNeeds
<1>9. Covered'
  BY <1>1, <1>8, CoveredStays
<1> QED BY <1>5, <1>6, <1>7, <1>9

(***************************************************************************)
(* The process stops and starts again.                                     *)
(***************************************************************************)
LEMMA CrashStep == ASSUME IInv, Crash PROVE IInv'
<1> USE DEF IInv, exchangeVars, manualVars, fileVars
<1>1. /\ pc # "down" /\ pc' = "down"
      /\ owed' = [t \in Topics |-> IF Forgotten(t) THEN owed[t] + 1 ELSE owed[t]]
      /\ records' = NoRecords /\ detached' = NoRecords
      /\ work' = {} /\ dirty' = FALSE /\ approving' = {} /\ object' = "none"
      /\ unsaved' = FALSE /\ UNCHANGED <<store, inbox>>
  BY DEF Crash
<1>2. owed' \in [Topics -> Int]
  BY <1>1 DEF TypeOK
<1>3. faults' \in 0..MaxFaults /\ posted' \subseteq Topics
  BY DEF Crash, Fault, TypeOK
<1>4. TypeOK'
  BY <1>1, <1>2, <1>3, NoRecordsType DEF Crash, TypeOK
<1>5. HoldsObjects' /\ SavedOrDirty' /\ ObjectHeld'
  BY <1>1 DEF HoldsObjects, Visiting, SavedOrDirty, ObjectHeld
<1>6. ASSUME NEW t \in Topics PROVE owed'[t] >= Count(FileNeeds(t)')
  <2>1. owed[t] \in Int /\ owed[t] >= Count(MapNeeds(t)) + Count(OldNeeds(t))
    BY <1>1 DEF Covered, TypeOK
  <2>2. owed'[t] = IF Forgotten(t) THEN owed[t] + 1 ELSE owed[t]
    BY <1>1
  <2>3. FileNeeds(t)' => MapNeeds(t) \/ Forgotten(t)
    BY <1>1 DEF FileNeeds, MapNeeds, Forgotten, Unmarked
  <2> HIDE DEF IInv, MapNeeds, OldNeeds, FileNeeds, Forgotten
  <2> QED BY <2>1, <2>2, <2>3 DEF Count
<1>7. Covered'
  BY <1>1, <1>6 DEF Covered
<1> QED BY <1>4, <1>5, <1>7

LEMMA BootStep == ASSUME IInv, Boot PROVE IInv'
<1> USE DEF IInv, exchangeVars, sweepVars, manualVars, fileVars
<1>1. /\ pc = "down" /\ pc' = "idle" /\ records' = store
      /\ detached = NoRecords /\ approving = {} /\ ~dirty /\ object = "none"
      /\ UNCHANGED <<store, inbox, approving, detached, work, dirty, owed, object>>
  BY DEF Boot, HoldsObjects, SavedOrDirty
<1>2. TypeOK'
  BY DEF Boot, TypeOK
<1>3. HoldsObjects' /\ SavedOrDirty' /\ ObjectHeld'
  BY <1>1 DEF HoldsObjects, Visiting, SavedOrDirty, ObjectHeld
<1>4. ASSUME NEW t \in Topics
      PROVE  owed'[t] >= Count(MapNeeds(t)') + Count(OldNeeds(t)')
  <2>1. owed[t] \in Int /\ owed[t] >= Count(FileNeeds(t)) /\ owed'[t] = owed[t]
    BY <1>1 DEF Covered, TypeOK
  <2>2. ~OldNeeds(t)' /\ (MapNeeds(t)' => FileNeeds(t))
    BY <1>1, NoRecordsType DEF OldNeeds, MapNeeds, FileNeeds
  <2> HIDE DEF IInv, MapNeeds, OldNeeds, FileNeeds
  <2> QED BY <2>1, <2>2 DEF Count
<1>5. Covered'
  BY <1>1, <1>4 DEF Covered
<1> QED BY <1>2, <1>3, <1>5

(***************************************************************************)
(* Humans and the enclave                                                  *)
(***************************************************************************)
LEMMA ApproveStep ==
  ASSUME IInv, NEW t \in Topics, NEW byUi \in BOOLEAN, Approve(t, byUi) PROVE IInv'
<1> USE DEF IInv, exchangeVars, sweepVars, manualVars, fileVars, trackerVars
<1>1. /\ inbox' = inbox \cup {t} /\ owed' = [owed EXCEPT ![t] = @ + 1]
      /\ approving' = IF byUi THEN approving \cup {t} ELSE approving
      /\ byUi => pc # "down"
      /\ UNCHANGED <<records, store, detached, pc, work, cur, dirty, unsaved, manual, object>>
  BY DEF Approve, ResolveResearch, Owe
<1>2. TypeOK'
  <2>1. owed' \in [Topics -> Int]
    BY <1>1 DEF TypeOK
  <2>2. approvals' \in [Topics -> 0..MaxApprovals]
    BY DEF Approve, ResolveResearch, TypeOK, TrackerAssumption
  <2> QED BY <1>1, <2>1, <2>2 DEF Approve, ResolveResearch, TypeOK
<1>3. HoldsObjects' /\ SavedOrDirty' /\ ObjectHeld'
  BY <1>1 DEF HoldsObjects, Visiting, Held, SavedOrDirty, ObjectHeld
<1>4. ASSUME NEW u \in Topics
      PROVE  /\ owed'[u] \in Int /\ owed[u] \in Int
             /\ u = t => owed'[u] = owed[u] + 1
             /\ u # t => owed'[u] = owed[u]
             /\ OldNeeds(u)' = OldNeeds(u)
             /\ u # t => MapNeeds(u)' = MapNeeds(u) /\ FileNeeds(u)' = FileNeeds(u)
  BY <1>1 DEF TypeOK, OldNeeds, MapNeeds, FileNeeds
<1>5. Covered'
  <2> SUFFICES ASSUME NEW u \in Topics
               PROVE  /\ pc' = "down" => owed'[u] >= Count(FileNeeds(u)')
                      /\ pc' # "down" => owed'[u] >= Count(MapNeeds(u)') + Count(OldNeeds(u)')
    BY DEF Covered
  <2>1. /\ pc = "down" => owed[u] >= Count(FileNeeds(u))
        /\ pc # "down" => owed[u] >= Count(MapNeeds(u)) + Count(OldNeeds(u))
    BY DEF Covered
  <2>2. pc' = pc
    BY <1>1
  <2> HIDE DEF IInv, MapNeeds, OldNeeds, FileNeeds
  <2> QED BY <1>4, <2>1, <2>2 DEF Count
<1> QED BY <1>2, <1>3, <1>5

\* Steps the needs of no topic depend on, but for leaving the inbox.
LEMMA QuietOutsideStep ==
  ASSUME IInv, TypeOK', UNCHANGED trackerVars, UNCHANGED <<approving, owed>>,
         inbox' \subseteq inbox
  PROVE  IInv'
<1> USE DEF IInv, sweepVars, manualVars, fileVars, trackerVars
<1>1. HoldsObjects' /\ SavedOrDirty' /\ ObjectHeld'
  BY DEF HoldsObjects, Visiting, Held, SavedOrDirty, ObjectHeld
<1>2. CASE pc = "down"
  <2>1. ASSUME NEW t \in Topics PROVE owed'[t] >= Count(FileNeeds(t)')
    <3>1. owed[t] \in Int /\ owed[t] >= Count(FileNeeds(t)) /\ owed'[t] = owed[t]
      BY <1>2 DEF Covered, TypeOK
    <3>2. FileNeeds(t)' => FileNeeds(t)
      BY DEF FileNeeds
    <3> HIDE DEF IInv, FileNeeds
    <3> QED BY <3>1, <3>2 DEF Count
  <2> QED BY <1>1, <1>2, <2>1 DEF Covered
<1>3. CASE pc # "down"
  <2>1. \A t \in Topics : Eased(t)
    BY DEF Eased, MapNeeds, OldNeeds
  <2> QED BY <1>1, <1>3, <2>1, CoveredStays
<1> QED BY <1>2, <1>3

LEMMA OutsideStepFact == ASSUME IInv, OutsideStep PROVE IInv'
<1>1. CASE \E t \in Topics, byUi \in BOOLEAN : Approve(t, byUi)
  BY <1>1, ApproveStep
<1>2. CASE \E t \in Topics : HumanArchives(t)
  <2> PICK t \in Topics : HumanArchives(t)
    BY <1>2
  <2>1. TypeOK'
    BY DEF HumanArchives, IInv, TypeOK, trackerVars, sweepVars, manualVars, fileVars
  <2> QED BY <2>1, QuietOutsideStep DEF HumanArchives
<1>3. CASE \E t \in Topics : FetchRecorded(t)
  <2> PICK t \in Topics : FetchRecorded(t)
    BY <1>3
  <2>1. TypeOK'
    BY DEF FetchRecorded, IInv, TypeOK, trackerVars, sweepVars, manualVars, fileVars
  <2> QED BY <2>1, QuietOutsideStep DEF FetchRecorded
<1>4. CASE \E t \in Topics, to \in Fates \ {"open"} : Settles(t, to)
  <2> PICK t \in Topics, to \in Fates \ {"open"} : Settles(t, to)
    BY <1>4
  <2>1. fate' \in [Topics -> Fates] /\ fetched' \subseteq Topics
    BY DEF Settles, IInv, TypeOK
  <2>2. TypeOK'
    BY <2>1 DEF Settles, IInv, TypeOK, trackerVars, sweepVars, manualVars, fileVars
  <2> QED BY <2>2, QuietOutsideStep DEF Settles
<1>5. CASE \E t \in Topics : SavesWitness(t)
  <2> PICK t \in Topics : SavesWitness(t)
    BY <1>5
  <2>1. TypeOK'
    BY DEF SavesWitness, IInv, TypeOK, trackerVars, sweepVars, manualVars, fileVars
  <2> QED BY <2>1, QuietOutsideStep DEF SavesWitness
<1> QED BY <1>1, <1>2, <1>3, <1>4, <1>5 DEF OutsideStep

(***************************************************************************)
(* The invariant, and what it gives                                        *)
(***************************************************************************)
LEMMA StutterStep == ASSUME IInv, UNCHANGED vars PROVE IInv'
<1>1. TypeOK'
  BY DEF vars, IInv, TypeOK
<1> QED BY <1>1, QuietOutsideStep DEF vars, trackerVars, sweepVars, manualVars, fileVars

LEMMA NextIInv == IInv /\ [Next]_vars => IInv'
<1> SUFFICES ASSUME IInv, [Next]_vars PROVE IInv'
  OBVIOUS
<1>1. CASE SweepStep
  <2>1. CASE StartTick BY <2>1, StartTickStep
  <2>2. CASE \E t \in Topics : Visit(t) BY <2>2, VisitStep
  <2>3. CASE SkipDelivery \/ SkipArchive \/ StartArchive \/ MoverArchives
    BY <2>3, QuietSweepSteps
  <2>4. CASE Hold BY <2>4, PutStep DEF Hold
  <2>5. CASE NoTarget BY <2>5, PutStep DEF NoTarget
  <2>6. CASE \E t \in Topics : StartSend(t) BY <2>6, StartSendStep
  <2>7. CASE SendOk BY <2>7, SendOkStep
  <2>8. CASE MarkArchived BY <2>8, MarkArchivedStep
  <2>9. CASE EndTick BY <2>9, EndTickStep
  <2> QED BY <1>1, <2>1, <2>2, <2>3, <2>4, <2>5, <2>6, <2>7, <2>8, <2>9 DEF SweepStep
<1>2. CASE SendFails BY <1>2, SendFailsStep
<1>3. CASE MoverFails BY <1>3, QuietSweepSteps
<1>9. CASE UnauditedStep BY <1>9, UnauditedStepFact
<1>4. CASE HandlerStep
  BY <1>4, TrackStep, PressDeliverStep, ManualEndsStep DEF HandlerStep
<1>5. CASE Crash BY <1>5, CrashStep
<1>6. CASE Boot BY <1>6, BootStep
<1>7. CASE OutsideStep BY <1>7, OutsideStepFact
<1>8. CASE UNCHANGED vars BY <1>8, StutterStep
<1> QED BY <1>1, <1>2, <1>3, <1>4, <1>5, <1>6, <1>7, <1>8, <1>9 DEF Next

\* The inductive invariant holds in every reachable state.
THEOREM Invariance == Spec => []IInv
<1> QED BY InitIInv, NextIInv, PTL DEF Spec

\* Every variable of the tracker keeps its type.
THEOREM TypeCorrect == Spec => []TypeOK
<1>1. IInv => TypeOK
  BY DEF IInv
<1> QED BY <1>1, Invariance, PTL

\* The tracker never starts an automatic send that no approval, failed
\* attempt, lost mark or replaced record (maybeDeliver(), track()) accounts for.
THEOREM SentForAReason == Spec => []NoNeedlessResend
<1>1. IInv => NoNeedlessResend
  <2> SUFFICES ASSUME IInv, NEW t \in Topics PROVE owed[t] >= 0
    BY DEF NoNeedlessResend
  <2>1. owed[t] \in Int
    BY DEF IInv, TypeOK
  <2>2. /\ pc = "down" => owed[t] >= Count(FileNeeds(t))
        /\ pc # "down" => owed[t] >= Count(MapNeeds(t)) + Count(OldNeeds(t))
    BY DEF IInv, Covered
  <2> QED BY <2>1, <2>2 DEF Count
<1> QED BY <1>1, Invariance, PTL

\* Whenever runTick() has returned, the file holds what the Map holds, or a
\* sweep threw or a write failed since it was last written.
THEOREM FileIsCurrent == Spec => []SavedBetweenSweeps
<1>1. IInv => SavedBetweenSweeps
  BY DEF IInv, SavedOrDirty, SavedBetweenSweeps
<1> QED BY <1>1, Invariance, PTL
=============================================================================
