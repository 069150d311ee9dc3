--------------------------- MODULE ResearchTracker ---------------------------
(***************************************************************************)
(* The control plane's side of a research request: ResearchTracker         *)
(* (control-plane/apps/api/src/services/research-tracker.ts) sweeps the    *)
(* exchange, announces a promoted brief in a gateway session and has the   *)
(* mover archive the answered request.  Its records live in a Map that is  *)
(* saved to a file at the end of a sweep, not after each step, and not at  *)
(* all by a sweep that throws because an audit row cannot be written.      *)
(*                                                                         *)
(* Node is single-threaded: an HTTP handler runs only while a sweep waits  *)
(* for the gateway or for the mover (Callbacks), but the sealer and a      *)
(* human at a terminal change the exchange at any time.  A request and its *)
(* topic share a name here, as the request's producer is told to choose.   *)
(***************************************************************************)
EXTENDS Integers, FiniteSets

CONSTANTS
  Topics,        \* topic ids, which are also the request ids
  None,          \* no record
  MaxApprovals,  \* bound on approvals per topic
  Faults,        \* which of FaultKinds may happen
  MaxFaults      \* bound on the number of faults

FaultKinds == {"crash", "refused", "lost", "mover", "disk"}

ASSUME TrackerAssumption ==
  /\ IsFiniteSet(Topics)
  /\ MaxApprovals \in Nat
  /\ Faults \subseteq FaultKinds
  /\ MaxFaults \in Nat

VARIABLES
  autoArchive, \* the option of that name
  inbox,       \* exchange/inbox
  fate,        \* what the enclave made of the topic
  fetched,     \* topics whose ledger record says done or abandoned
  witnessed,   \* topics whose saved ledger entry has source_reads_imperative
  records,     \* the Map
  store,       \* the file at storePath
  detached,    \* objects the sweep still holds after the Map dropped them
  pc,          \* where the sweep is
  work,        \* topics of the sweep's snapshot not visited yet
  cur,         \* the topic being visited
  dirty,       \* runTick's `dirty'
  approving,   \* approved by the mover, track() not yet called
  manual,      \* a deliverNow() waiting for the gateway
  object,      \* where the record it holds is: the Map's, the sweep's only, nobody's
  unsaved,     \* history: a sweep threw or a write failed since the file was written
  posted,      \* topics with an automatic notice in a session
  approvals,   \* approvals so far, by topic
  faults,      \* faults so far
  owed         \* history: automatic sends still accounted for, by topic

exchangeVars == <<inbox, fate, fetched, witnessed>>
sweepVars == <<work, cur, dirty>>
manualVars == <<manual, object>>
fileVars == <<store, unsaved>>
vars == <<autoArchive, inbox, fate, fetched, witnessed, records, store, detached, pc,
          work, cur, dirty, approving, manual, object, unsaved, posted, approvals, faults,
          owed>>

Fates == {"open", "condemned", "abandoned", "plain", "imperative"}
Stages == {"open", "condemned", "abandoned", "brief"}
Rec == [stage : Stages, delivered : BOOLEAN,
        error : {"none", "held", "target", "failed"},
        archived : BOOLEAN, stalled : BOOLEAN]
Records == [Topics -> Rec \cup {None}]
ASSUME NoneAssumption == None \notin Rec

NoRecords == [t \in Topics |-> None]

TypeOK ==
  /\ autoArchive \in BOOLEAN
  /\ inbox \subseteq Topics
  /\ fate \in [Topics -> Fates]
  /\ fetched \subseteq Topics
  /\ witnessed \subseteq Topics
  /\ records \in Records
  /\ store \in Records
  /\ detached \in Records
  /\ pc \in {"down", "idle", "next", "deliver", "sending", "archive", "archiving", "moved"}
  /\ work \subseteq Topics
  /\ cur \in Topics \cup {None}
  /\ dirty \in BOOLEAN
  /\ approving \subseteq Topics
  /\ manual \in Topics \cup {None}
  /\ object \in {"map", "sweep", "none"}
  /\ unsaved \in BOOLEAN
  /\ posted \subseteq Topics
  /\ approvals \in [Topics -> 0..MaxApprovals]
  /\ faults \in 0..MaxFaults
  /\ owed \in [Topics -> Int]

Init ==
  /\ autoArchive \in BOOLEAN
  /\ inbox = {} /\ fetched = {} /\ witnessed = {}
  /\ fate = [t \in Topics |-> "open"]
  /\ records = NoRecords /\ store = NoRecords /\ detached = NoRecords
  /\ pc = "idle" /\ work = {} /\ cur = None /\ dirty = FALSE
  /\ approving = {} /\ manual = None /\ object = "none" /\ posted = {} /\ unsaved = FALSE
  /\ approvals = [t \in Topics |-> 0] /\ owed = [t \in Topics |-> 0]
  /\ faults = 0

Fault(kind) ==
  /\ kind \in Faults /\ faults < MaxFaults
  /\ faults' = faults + 1

Owe(t) == owed' = [owed EXCEPT ![t] = @ + 1]

(***************************************************************************)
(* What the service reads off the disk                                     *)
(***************************************************************************)
HasBrief(t) == fate[t] \in {"plain", "imperative"}
\* probeStage(), the stages before a settled one being one.
Probe(t) == IF HasBrief(t) THEN "brief" ELSE fate[t]
Terminal(stage) == stage # "open"
\* readBrief().sourceReadsImperative: the ledger's word, as last saved.
ReadsImperative(t) == t \in witnessed

NewRecord(t) == [stage |-> Probe(t), delivered |-> FALSE, error |-> "none",
                 archived |-> FALSE, stalled |-> FALSE]

\* The record object the sweep holds: its snapshot outlives the Map's entry.
Held(t) == IF detached[t] # None THEN detached[t] ELSE records[t]
\* It is assigned to where it is, and the sweep's `dirty' set.
Assign(t, r) ==
  IF detached[t] # None
    THEN detached' = [detached EXCEPT ![t] = r] /\ UNCHANGED records
    ELSE records' = [records EXCEPT ![t] = r] /\ UNCHANGED detached

\* persist() of the Map as it is about to be; a full disk is only reported.
Persist ==
  \/ store' = records' /\ unsaved' = FALSE /\ UNCHANGED faults
  \/ Fault("disk") /\ unsaved' = TRUE /\ UNCHANGED store

\* deliverNow() is left with an object that nobody else has.
Orphaned(lost) == object' = IF lost THEN "none" ELSE object

(***************************************************************************)
(* The sweep                                                               *)
(***************************************************************************)
\* listApproved() lists the inbox, and adopt() takes what the Map does not know.
ListApproved == inbox
Adopted == {t \in ListApproved : records[t] = None}

StartTick ==
  /\ pc = "idle"
  /\ records' = [t \in Topics |-> IF t \in Adopted THEN NewRecord(t) ELSE records[t]]
  /\ work' = {t \in Topics : records'[t] # None}
  /\ dirty' = (Adopted # {})
  /\ pc' = "next"
  /\ UNCHANGED <<autoArchive, exchangeVars, fileVars, detached, cur, approving, manualVars,
                 posted, approvals, faults, owed>>

\* An audit row cannot be written and the sweep throws, which tick() catches:
\* what it did to record t stays, and nothing is pruned or saved.
Throws(t, new) ==
  /\ Fault("disk")
  /\ records' = IF detached[t] = None THEN [records EXCEPT ![t] = new] ELSE records
  /\ detached' = NoRecords /\ Orphaned(object = "sweep")
  /\ pc' = "idle" /\ work' = {} /\ cur' = None /\ dirty' = FALSE /\ unsaved' = TRUE
  /\ UNCHANGED <<autoArchive, exchangeVars, store, approving, manual, approvals>>

\* Slip: only a change of stage is reported.
DirtyOnStage(old, new) == dirty \/ new.stage # old.stage
Dirty(old, new) == dirty \/ new # old

\* markStalled(): a record that stays open may be late.
MarkStalled(r) == IF Terminal(r.stage) THEN {r} ELSE {r, [r EXCEPT !.stalled = TRUE]}

\* The stage as the disk has it now
Moved(t) == [Held(t) EXCEPT !.stage = Probe(t),
                            !.stalled = IF Probe(t) = Held(t).stage THEN @ ELSE FALSE]

\* One record; one with a brief goes on to delivery.
Visit(t) ==
  /\ pc = "next" /\ t \in work
  /\ work' = work \ {t}
  /\ \E new \in MarkStalled(Moved(t)) : Assign(t, new) /\ dirty' = Dirty(Held(t), new)
  /\ IF HasBrief(t) THEN pc' = "deliver" /\ cur' = t ELSE UNCHANGED <<pc, cur>>
  /\ UNCHANGED <<autoArchive, exchangeVars, fileVars, approving, manualVars, posted,
                 approvals, faults, owed>>

\* The new stage is not recorded in the audit log, or not the delay.
VisitThrows(t) ==
  /\ pc = "next" /\ t \in work
  /\ \E new \in {Moved(t)} \cup MarkStalled(Moved(t)) :
       new # Held(t) /\ Throws(t, new)
  /\ UNCHANGED <<posted, owed>>

\* maybeDeliver() returns at once: there is nothing left to announce.
SkipDelivery ==
  /\ pc = "deliver" /\ Held(cur).delivered
  /\ pc' = "archive"
  /\ UNCHANGED <<autoArchive, exchangeVars, records, fileVars, detached, sweepVars,
                 approving, manualVars, posted, approvals, faults, owed>>

\* maybeDeliver() leaves a reason on the record, a hold only if it has none.
Put(error) ==
  LET new == IF error = "held" /\ Held(cur).error # "none"
               THEN Held(cur) ELSE [Held(cur) EXCEPT !.error = error]
  IN /\ Assign(cur, new) /\ dirty' = Dirty(Held(cur), new)
     /\ pc' = "archive"
     /\ UNCHANGED <<autoArchive, exchangeVars, fileVars, work, cur, approving, manualVars,
                    posted, approvals, faults, owed>>

Hold == pc = "deliver" /\ ~Held(cur).delivered /\ ReadsImperative(cur) /\ Put("held")

HoldThrows ==
  /\ pc = "deliver" /\ ~Held(cur).delivered /\ ReadsImperative(cur)
  /\ Held(cur).error = "none"
  /\ Throws(cur, [Held(cur) EXCEPT !.error = "held"])
  /\ UNCHANGED <<posted, owed>>

\* Slip: a record with an error on it is not tried again.
DeliverableOnce(t) ==
  ~Held(t).delivered /\ ~ReadsImperative(t) /\ Held(t).error = "none"
Deliverable(t) == ~Held(t).delivered /\ ~ReadsImperative(t)

\* resolveTarget() finds no session on the research gateway ...
NoTarget == pc = "deliver" /\ ~Held(cur).delivered /\ ~ReadsImperative(cur) /\ Put("target")

\* ... or it does, and the sweep waits for sendMessage().
StartSend(t) ==
  /\ pc = "deliver" /\ cur = t /\ Deliverable(t)
  /\ pc' = "sending"
  /\ owed' = [owed EXCEPT ![t] = @ - 1]
  /\ UNCHANGED <<autoArchive, exchangeVars, records, fileVars, detached, sweepVars,
                 approving, manualVars, posted, approvals, faults>>

SendEnds(new) ==
  /\ pc = "sending"
  /\ Assign(cur, new) /\ dirty' = TRUE
  /\ pc' = "archive"
  /\ UNCHANGED <<autoArchive, exchangeVars, fileVars, work, cur, approving, manualVars,
                 approvals>>

Delivered(r) == [r EXCEPT !.delivered = TRUE, !.error = "none"]
Failed(r) == [r EXCEPT !.error = "failed"]

SendOk ==
  /\ SendEnds(Delivered(Held(cur)))
  /\ posted' = posted \cup {cur}
  /\ UNCHANGED <<faults, owed>>

\* The gateway takes the notice, and the audit row cannot be written: the mark
\* stays and the error goes beside it.  If that cannot be audited either the
\* sweep throws.
SendUnaudited ==
  LET both == Failed(Delivered(Held(cur)))
  IN /\ \/ SendEnds(both) /\ Fault("disk")
        \/ pc = "sending" /\ Throws(cur, both)
     /\ posted' = posted \cup {cur}
     /\ UNCHANGED owed

\* The gateway refuses, or takes the notice and the answer is lost.
SendFails ==
  /\ \/ /\ SendEnds(Failed(Held(cur)))
        /\ \/ Fault("refused") /\ UNCHANGED posted
           \/ Fault("lost") /\ posted' = posted \cup {cur}
     \/ /\ pc = "sending" /\ Throws(cur, Failed(Held(cur)))
        /\ posted' \in {posted, posted \cup {cur}}
  /\ Owe(cur)

(***************************************************************************)
(* maybeArchive()                                                          *)
(***************************************************************************)
\* Slip: a brief that was held or refused is not swept away.
WantsArchiveQuiet(t) ==
  autoArchive /\ ~Held(t).archived /\ Held(t).error = "none"
WantsArchive(t) == autoArchive /\ ~Held(t).archived

InboxRecordDone(t) == t \in fetched

\* Not wanted, or the ledger does not say the fetch is over.
SkipArchive ==
  /\ pc = "archive"
  /\ ~WantsArchive(cur) \/ (cur \in inbox /\ ~InboxRecordDone(cur))
  /\ pc' = "next" /\ cur' = None
  /\ UNCHANGED <<autoArchive, exchangeVars, records, fileVars, detached, work, dirty,
                 approving, manualVars, posted, approvals, faults, owed>>

Archived(r) == [r EXCEPT !.archived = TRUE]

\* Marked as archived: it has gone already, or the mover reports success.
MarkArchived ==
  /\ \/ pc = "archive" /\ WantsArchive(cur) /\ cur \notin inbox
     \/ pc = "moved"
  /\ Assign(cur, Archived(Held(cur))) /\ dirty' = TRUE
  /\ pc' = "next" /\ cur' = None
  /\ UNCHANGED <<autoArchive, exchangeVars, fileVars, work, approving, manualVars, posted,
                 approvals, faults, owed>>

ArchiveThrows ==
  /\ pc = "moved" /\ Throws(cur, Archived(Held(cur)))
  /\ UNCHANGED <<posted, owed>>

StartArchive ==
  /\ pc = "archive" /\ WantsArchive(cur) /\ cur \in inbox /\ InboxRecordDone(cur)
  /\ pc' = "archiving"
  /\ UNCHANGED <<autoArchive, exchangeVars, records, fileVars, detached, sweepVars,
                 approving, manualVars, posted, approvals, faults, owed>>

\* research-request-mover.sh archive <id>, which asks the ledger again.
MoverArchives ==
  /\ pc = "archiving" /\ cur \in inbox \cap fetched
  /\ inbox' = inbox \ {cur}
  /\ pc' = "moved"
  /\ UNCHANGED <<autoArchive, fate, fetched, witnessed, records, fileVars, detached,
                 sweepVars, approving, manualVars, posted, approvals, faults, owed>>

\* It exits with an error, as it does for a request that is not there.
MoverFails ==
  /\ pc = "archiving"
  /\ IF cur \in inbox THEN Fault("mover") ELSE UNCHANGED faults
  /\ pc' = "next" /\ cur' = None
  /\ UNCHANGED <<autoArchive, exchangeVars, records, fileVars, detached, work, dirty,
                 approving, manualVars, posted, approvals, owed>>

\* Slip: a record goes as soon as its retention is over.
PrunableAnywhere(t) ==
  /\ records[t] # None /\ Terminal(records[t].stage)
  /\ records[t].archived \/ ~autoArchive
\* prune(), retention aside.
Prunable(t) ==
  /\ records[t] # None /\ Terminal(records[t].stage)
  /\ records[t].archived \/ ~autoArchive
  /\ t \notin inbox

\* prune() and persist(); the retention of any of the prunable may be over,
\* but for what a handler is just approving.
EndTick ==
  /\ pc = "next" /\ work = {}
  /\ \E gone \in SUBSET {t \in Topics \ approving : Prunable(t)} :
       /\ records' = [t \in Topics |-> IF t \in gone THEN None ELSE records[t]]
       /\ IF dirty \/ gone # {} THEN Persist ELSE UNCHANGED <<fileVars, faults>>
       /\ Orphaned(object = "sweep" \/ manual \in gone)
  /\ detached' = NoRecords
  /\ pc' = "idle" /\ dirty' = FALSE
  /\ UNCHANGED <<autoArchive, exchangeVars, work, cur, approving, manual, posted,
                 approvals, owed>>

(***************************************************************************)
(* HTTP handlers, while the sweep waits or none runs                       *)
(***************************************************************************)
Callbacks == pc \in {"idle", "sending", "archiving", "moved"}
SweepHolds(t) == pc # "idle" /\ t \in work \cup {cur}

\* track(): a new object under the topic, saved with the rest of the Map.  The
\* old one is left to the sweep, unless that holds an older one, and to a
\* deliverNow().
Track(t) ==
  /\ Callbacks /\ t \in approving
  /\ approving' = approving \ {t}
  /\ detached' = IF SweepHolds(t) THEN [detached EXCEPT ![t] = Held(t)] ELSE detached
  /\ object' = IF manual = t /\ object = "map"
                 THEN IF SweepHolds(t) /\ detached[t] = None THEN "sweep" ELSE "none"
                 ELSE object
  /\ records' = [records EXCEPT ![t] = NewRecord(t)]
  /\ Persist
  /\ IF records[t] # None THEN Owe(t) ELSE UNCHANGED owed
  /\ UNCHANGED <<autoArchive, exchangeVars, pc, sweepVars, manual, posted, approvals>>

\* deliverNow(): an operator asks for the notice, held or not.
PressDeliver(t) ==
  /\ Callbacks /\ manual = None
  /\ records[t] # None /\ HasBrief(t)
  /\ manual' = t /\ object' = "map"
  /\ UNCHANGED <<autoArchive, exchangeVars, records, fileVars, detached, pc, sweepVars,
                 approving, posted, approvals, faults, owed>>

\* The gateway answers deliverNow(), or does not: the object it holds is marked
\* wherever it is by now, and the Map is saved.
ManualEnds ==
  LET marked(rs) == {[rs EXCEPT ![manual] = Delivered(@)], [rs EXCEPT ![manual] = Failed(@)]}
  IN /\ Callbacks /\ manual # None
     /\ manual' = None /\ object' = "none"
     /\ records' \in IF object = "map" THEN marked(records) ELSE {records}
     /\ detached' \in IF object = "sweep" THEN marked(detached) ELSE {detached}
     /\ Persist
     /\ UNCHANGED <<autoArchive, exchangeVars, pc, sweepVars, approving, posted, approvals,
                    owed>>

(***************************************************************************)
(* The process stops and starts again with load().                         *)
(***************************************************************************)
\* A delivery whose mark goes with the process, or the end of a record, which
\* the file still has as undelivered.
Unmarked(t) == store[t] = None \/ ~store[t].delivered
Forgotten(t) ==
  \/ pc = "sending" /\ cur = t
  \/ records[t] # None /\ records[t].delivered /\ Unmarked(t)
  \/ records[t] = None /\ store[t] # None /\ Unmarked(t)

Crash ==
  /\ pc # "down" /\ Fault("crash")
  /\ owed' = [t \in Topics |-> IF Forgotten(t) THEN owed[t] + 1 ELSE owed[t]]
  /\ posted' \in {posted, posted \cup {t \in Topics : pc = "sending" /\ cur = t}}
  /\ records' = NoRecords /\ detached' = NoRecords
  /\ pc' = "down" /\ work' = {} /\ cur' = None /\ dirty' = FALSE /\ unsaved' = FALSE
  /\ approving' = {} /\ manual' = None /\ object' = "none"
  /\ UNCHANGED <<autoArchive, exchangeVars, store, approvals>>

Boot ==
  /\ pc = "down"
  /\ records' = store
  /\ pc' = "idle"
  /\ UNCHANGED <<autoArchive, exchangeVars, fileVars, detached, sweepVars, approving,
                 manualVars, posted, approvals, faults, owed>>

(***************************************************************************)
(* Humans and the enclave                                                  *)
(***************************************************************************)
trackerVars == <<autoArchive, records, fileVars, detached, pc, sweepVars, manualVars,
                 posted, faults>>

\* resolveResearch() has the mover approve: it moves the request to the inbox.
ResolveResearch(t) ==
  /\ approvals[t] < MaxApprovals
  /\ approvals' = [approvals EXCEPT ![t] = @ + 1]
  /\ inbox' = inbox \cup {t}

\* Approved through the API, which will call track(), or, byUi false, with the
\* mover in a terminal.
Approve(t, byUi) ==
  /\ byUi => pc # "down" /\ Callbacks
  /\ ResolveResearch(t)
  /\ approving' = IF byUi THEN approving \cup {t} ELSE approving
  /\ Owe(t)
  /\ UNCHANGED <<trackerVars, fate, fetched, witnessed>>

HumanArchives(t) ==
  /\ t \in inbox \cap fetched
  /\ inbox' = inbox \ {t}
  /\ UNCHANGED <<trackerVars, fate, fetched, witnessed, approving, approvals, owed>>

\* The sealer saves that scout's fetch is over.
FetchRecorded(t) ==
  /\ t \in inbox /\ t \notin fetched
  /\ fetched' = fetched \cup {t}
  /\ UNCHANGED <<trackerVars, inbox, fate, witnessed, approving, approvals, owed>>

\* The sealer gives up, on the fetch or on the brief, or publishes one; it may
\* publish after it gave up.
Settles(t, to) ==
  /\ approvals[t] > 0 /\ ~HasBrief(t)
  /\ to = "abandoned" => fate[t] = "open" /\ t \notin fetched
  /\ to = "condemned" => fate[t] = "open"
  /\ fate' = [fate EXCEPT ![t] = to]
  /\ fetched' = IF to = "abandoned" THEN fetched \cup {t} ELSE fetched
  /\ UNCHANGED <<trackerVars, inbox, witnessed, approving, approvals, owed>>

\* The sealer publishes a brief with atomic_write() and saves the ledger with
\* the witness only at the end of its pass.
SavesWitness(t) ==
  /\ fate[t] = "imperative" /\ t \notin witnessed
  /\ witnessed' = witnessed \cup {t}
  /\ UNCHANGED <<trackerVars, inbox, fate, fetched, approving, approvals, owed>>

SweepStep ==
  \/ StartTick
  \/ \E t \in Topics : Visit(t)
  \/ SkipDelivery \/ Hold \/ NoTarget
  \/ \E t \in Topics : StartSend(t)
  \/ SendOk
  \/ SkipArchive \/ MarkArchived \/ StartArchive \/ MoverArchives
  \/ EndTick

HandlerStep ==
  \/ \E t \in Topics : Track(t)
  \/ \E t \in Topics : PressDeliver(t)
  \/ ManualEnds

OutsideStep ==
  \/ \E t \in Topics, byUi \in BOOLEAN : Approve(t, byUi)
  \/ \E t \in Topics : HumanArchives(t)
  \/ \E t \in Topics : FetchRecorded(t)
  \/ \E t \in Topics, to \in Fates \ {"open"} : Settles(t, to)
  \/ \E t \in Topics : SavesWitness(t)

\* An audit row cannot be written.
UnauditedStep ==
  \/ \E t \in Topics : VisitThrows(t)
  \/ HoldThrows \/ SendUnaudited \/ ArchiveThrows

Next ==
  \/ SweepStep \/ SendFails \/ MoverFails \/ UnauditedStep
  \/ HandlerStep \/ Crash \/ Boot \/ OutsideStep

Spec == Init /\ [][Next]_vars

(***************************************************************************)
(* Fairness: the timer always starts the next sweep, a sweep always goes   *)
(* on, and a dead process is restarted.  A session to deliver into exists  *)
(* at infinitely many of the moments one is asked for.  Nothing is assumed *)
(* of the operator or of the sealer.                                       *)
(***************************************************************************)
FairSpec ==
  /\ Spec
  /\ WF_vars(SweepStep \/ MoverFails) /\ WF_vars(Boot)
  /\ \A t \in Topics : SF_vars(StartSend(t))

(***************************************************************************)
(* Properties                                                              *)
(***************************************************************************)
\* A brief is announced once: the tracker starts another send only for another
\* approval, after an attempt that failed, after a crash before the delivery or
\* the end of the record was saved, or when track() replaced a record.  In
\* particular a pruned record is never adopted again (prune(), "announce it a
\* second time"), and a sweep that throws after a send does not send again.
NoNeedlessResend == \A t \in Topics : owed[t] >= 0

\* Between sweeps the file says what the Map says, unless a sweep threw or the
\* file could not be written since it last was: every other assignment to a
\* record reports itself to runTick() or saves the Map at once, and the next
\* write that succeeds makes up for all that is missing.
SavedBetweenSweeps == pc = "idle" => store = records \/ unsaved

\* A brief that does not read as commands is announced, if its request was
\* ever saved: after failed sends, sweeps that threw, crashes, restarts and
\* without a session for a while.  (An operator's own delivery or the end of
\* retention will do.)
Announced ==
  \A t \in Topics :
    fate[t] = "plain" /\ store[t] # None
      ~> \/ t \in posted
         \/ pc # "down" /\ (records[t] = None \/ records[t].delivered)

\* With autoArchive an answered request leaves the inbox, whatever became of
\* its announcement, unless its record says it has left already.
Swept ==
  \A t \in Topics :
    autoArchive /\ HasBrief(t) /\ t \in inbox \cap fetched /\ store[t] # None
      ~> t \notin inbox \/ (records[t] # None /\ records[t].archived)
=============================================================================
