------------------------------ MODULE Dispatch ------------------------------
(***************************************************************************)
(* The return channel: a research request that main writes into requests/, *)
(* a human approves into inbox/ (scripts/research-request-mover.sh), phase *)
(* 3 of scripts/quarantine-seal.sh publishes in .inbox-state/PENDING.txt,  *)
(* and scout's cron trigger (scout-triggers/inbox-pending.js) turns into a *)
(* run with one fetch.                                                     *)
(*                                                                         *)
(* The queue's state lives in the sealer's ledger; the pass works on a     *)
(* copy in memory (`mem') and writes it back at the end.  What comes back  *)
(* is observed, not reported: an answer is a file named after the topic.   *)
(***************************************************************************)
EXTENDS Integers, FiniteSets

CONSTANTS
  Ids,           \* request ids, numbered in the order of their file names
  Topics,        \* what the requests have in their topic_id field
  SafeTopics,    \* names SAFE_NAME_RE accepts
  None,          \* "no such file"
  MaxApprovals,  \* bound on the number of approvals
  Faults,        \* which of FaultKinds may happen
  MaxFaults      \* bound on the number of faults

FaultKinds == {"crash", "unsaved", "corrupt", "io"}

ASSUME DispatchAssumption ==
  /\ Ids \subseteq Nat
  /\ Ids \subseteq SafeTopics
  /\ None \notin Topics \cup SafeTopics
  /\ MaxApprovals \in Nat
  /\ Faults \subseteq FaultKinds
  /\ MaxFaults \in Nat

VARIABLES
  requests,    \* ids with a file in requests/
  inbox,       \* inbox/<id>.json
  sweep,       \* what a running `archive' found eligible and has yet to move
  manifest,    \* .inbox-state/PENDING.txt
  ledger,      \* the inbox records of ledger/seal-ledger.json; None: unreadable
  landed,      \* topics with an answer in raw/, normalized/ or a briefs directory
  pc,          \* where the pass is; "down" after a crash
  mem,         \* the pass's copy of the records
  listed,      \* the pass's `present'
  inFlight,    \* the pass's `in_flight'
  pick,        \* the pass's `pick'
  scout,       \* the request scout's current run is about
  old,         \* requests last dispatched INBOX_DISPATCH_TIMEOUT_SECONDS ago
  approvals,   \* approvals so far
  faults,      \* faults so far
  dispatches,  \* history: times the latest approval of an id was dispatched
  reused       \* history: ids whose latest approval met a record of an earlier one

humanVars == <<requests, inbox, sweep, approvals>>
memVars   == <<mem, listed, inFlight, pick>>
vars == <<requests, inbox, sweep, manifest, ledger, landed, pc, mem, listed,
          inFlight, pick, scout, old, approvals, faults, dispatches, reused>>

States == {"absent", "queued", "dispatched", "done", "abandoned"}
Rec == [state : States, topic : SafeTopics \cup {None}]
NoRec == [state |-> "absent", topic |-> None]
NoRecs == [i \in Ids |-> NoRec]
ASSUME LedgerAssumption == None \notin [Ids -> Rec]
Approved == [topic : Topics, settled : BOOLEAN]
\* A run of scout: topic is None until it has read the request.
Run == [id : Ids, topic : Topics \cup {None}]

TypeOK ==
  /\ requests \subseteq Ids
  /\ inbox \in [Ids -> Approved \cup {None}]
  /\ sweep \subseteq Ids
  /\ manifest \in Ids \cup {None}
  /\ ledger \in [Ids -> Rec] \cup {None}
  /\ landed \subseteq Topics
  /\ pc \in {"idle", "down", "register", "resolve", "pick", "publish", "save"}
  /\ mem \in [Ids -> Rec]
  /\ listed \subseteq Ids
  /\ inFlight \in Ids \cup {None}
  /\ pick \in Ids \cup {None}
  /\ scout \in Run \cup {None}
  /\ old \subseteq Ids
  /\ approvals \in Nat
  /\ faults \in Nat
  /\ dispatches \in [Ids -> Nat]
  /\ reused \subseteq Ids

Init ==
  /\ requests = {}
  /\ inbox = [i \in Ids |-> None]
  /\ sweep = {}
  /\ manifest = None
  /\ ledger = None
  /\ landed = {}
  /\ pc = "idle"
  /\ mem = NoRecs
  /\ listed = {}
  /\ inFlight = None
  /\ pick = None
  /\ scout = None
  /\ old = {}
  /\ approvals = 0
  /\ faults = 0
  /\ dispatches = [i \in Ids |-> 0]
  /\ reused = {}

Fault(kind) ==
  /\ kind \in Faults
  /\ faults < MaxFaults
  /\ faults' = faults + 1

First(S) == CHOOSE i \in S : \A j \in S : i <= j
Last(S)  == CHOOSE i \in S : \A j \in S : j <= i

(***************************************************************************)
(* main and the operator.  Requests that fail validate() are not modelled: *)
(* `approve' refuses them and changes nothing.  What topic a request names *)
(* is settled when it is approved, since nothing looks at it before.       *)
(***************************************************************************)
Request(i) ==
  /\ approvals < MaxApprovals
  /\ requests' = requests \cup {i}
  /\ UNCHANGED <<inbox, sweep, approvals, manifest, ledger, landed, pc, memVars,
                 scout, old, faults, dispatches, reused>>

Reject(i) ==
  /\ requests' = requests \ {i}
  /\ UNCHANGED <<inbox, sweep, approvals, manifest, ledger, landed, pc, memVars,
                 scout, old, faults, dispatches, reused>>

\* The sealer, or a running `archive', still goes by an earlier approval of i.
Recorded(i) ==
  \/ i \in sweep
  \/ mem[i].state \notin {"absent", "queued"}
  \/ ledger # None /\ ledger[i].state \notin {"absent", "queued"}

\* cp to a temporary name, mv -f over whatever has that id, rm: which a script
\* that is stopped does not get to.
Approve(i, t) ==
  /\ i \in requests
  /\ approvals < MaxApprovals
  /\ inbox' = [inbox EXCEPT ![i] = [topic |-> t, settled |-> FALSE]]
  /\ requests' \in {requests, requests \ {i}}
  /\ approvals' = approvals + 1
  /\ dispatches' = [dispatches EXCEPT ![i] = 0]
  /\ reused' = IF Recorded(i) THEN reused \cup {i} ELSE reused \ {i}
  /\ UNCHANGED <<sweep, manifest, ledger, landed, pc, memVars, scout, old, faults>>

\* Slip: a request the ledger has never heard of is archivable too.
ArchivableUnknown(i) == ledger[i].state \in {"absent", "done", "abandoned"}
Archivable(i) == ledger[i].state \in {"done", "abandoned"}

\* `archive', first half: what the ledger on disk allows, of one id or of all.
ArchiveList ==
  /\ sweep = {} /\ ledger # None
  /\ \E only \in {Ids} \cup {{i} : i \in Ids} :
       sweep' = {i \in only : inbox[i] # None /\ Archivable(i)}
  /\ sweep' # {}
  /\ UNCHANGED <<requests, inbox, approvals, manifest, ledger, landed, pc, memVars,
                 scout, old, faults, dispatches, reused>>

\* `archive', second half: mv, name by name.
ArchiveMove(i) ==
  /\ i \in sweep
  /\ sweep' = sweep \ {i}
  /\ inbox' = [inbox EXCEPT ![i] = None]
  /\ UNCHANGED <<requests, approvals, manifest, ledger, landed, pc, memVars,
                 scout, old, faults, dispatches, reused>>

\* An mv fails, or the script is stopped: what is left in the list stays.
ArchiveStops ==
  /\ sweep # {}
  /\ sweep' = {}
  /\ UNCHANGED <<requests, inbox, approvals, manifest, ledger, landed, pc, memVars,
                 scout, old, faults, dispatches, reused>>

(***************************************************************************)
(* The pass of the sealer, phase 3.                                        *)
(***************************************************************************)
\* A ledger that is missing or unreadable counts as an empty one.
Readable(book) == IF book = None THEN NoRecs ELSE book

Load ==
  /\ pc \in {"idle", "down"}
  /\ mem' = Readable(ledger)
  /\ pc' = "register"
  /\ UNCHANGED <<humanVars, manifest, ledger, landed, listed, inFlight, pick,
                 scout, old, faults, dispatches, reused>>

\* Slip: the record of a request still in the inbox starts over.
SeenAnew(rec) == [NoRec EXCEPT !.state = "queued"]
\* inbox_entry(): get or create.
Seen(rec) == IF rec.state = "absent" THEN [rec EXCEPT !.state = "queued"] ELSE rec

\* 1. Register what is in the inbox and has settled.
Register ==
  /\ pc = "register"
  /\ listed' = {i \in Ids : inbox[i] # None /\ inbox[i].settled}
  /\ mem' = [i \in Ids |-> IF i \in listed' THEN Seen(mem[i]) ELSE mem[i]]
  /\ pc' = "resolve"
  /\ UNCHANGED <<humanVars, manifest, ledger, landed, inFlight, pick,
                 scout, old, faults, dispatches, reused>>

\* The inbox cannot be listed: nothing is picked in this pass.
RegisterFails ==
  /\ pc = "register"
  /\ Fault("io")
  /\ listed' = {}
  /\ pc' = "resolve"
  /\ UNCHANGED <<humanVars, manifest, ledger, landed, mem, inFlight, pick,
                 scout, old, dispatches, reused>>

\* output_landed(), on the cached topic; the stem stands in for a missing one.
OutputLanded(i) == (IF mem[i].topic = None THEN i ELSE mem[i].topic) \in landed

\* Slip: a request that timed out goes back to the queue.
VerdictRetries(i) ==
  IF OutputLanded(i) THEN "done" ELSE IF i \in old THEN "queued" ELSE "dispatched"
\* Slip: there is no timeout.
VerdictWaits(i) == IF OutputLanded(i) THEN "done" ELSE "dispatched"
Verdict(i) ==
  CASE OutputLanded(i) -> "done"
    [] ~OutputLanded(i) /\ i \in old -> "abandoned"
    [] OTHER -> "dispatched"

\* 2. Resolve what was dispatched; the last one unresolved is in flight.
Resolve ==
  LET out == {i \in Ids : mem[i].state = "dispatched"}
      waiting == {i \in out : Verdict(i) = "dispatched"}
  IN
  /\ pc = "resolve"
  /\ mem' = [i \in Ids |->
               IF i \in out THEN [mem[i] EXCEPT !.state = Verdict(i)] ELSE mem[i]]
  /\ inFlight' = IF waiting = {} THEN None ELSE Last(waiting)
  /\ pc' = "pick"
  /\ UNCHANGED <<humanVars, manifest, ledger, landed, listed, pick,
                 scout, old, faults, dispatches, reused>>

\* topic_id_of(): cached, else read from the file, else the stem.
TopicOf(i) ==
  CASE mem[i].topic # None -> mem[i].topic
    [] mem[i].topic = None /\ inbox[i] # None /\ inbox[i].topic \in SafeTopics
         -> inbox[i].topic
    [] OTHER -> i

Queue == {i \in listed : mem[i].state = "queued"}

\* Slip: the next request is taken although one is in flight.
ChoiceEager == IF Queue # {} THEN First(Queue) ELSE inFlight
\* The request in flight again, or the first one queued.
Choice ==
  CASE inFlight # None -> inFlight
    [] inFlight = None /\ Queue # {} -> First(Queue)
    [] OTHER -> None

\* 3. Pick one and mark it dispatched, in memory.
Pick ==
  /\ pc = "pick"
  /\ pick' = Choice
  /\ IF Choice \in {inFlight, None}
       THEN UNCHANGED <<mem, old>>
       ELSE /\ mem' = [mem EXCEPT ![Choice] =
                         [state |-> "dispatched", topic |-> TopicOf(Choice)]]
            /\ old' = old \ {Choice}
  /\ pc' = "publish"
  /\ UNCHANGED <<humanVars, manifest, ledger, landed, listed, inFlight,
                 scout, faults, dispatches, reused>>

Publish ==
  /\ pc = "publish"
  /\ manifest' = pick
  /\ dispatches' = IF inFlight = None /\ pick # None
                     THEN [dispatches EXCEPT ![pick] = @ + 1] ELSE dispatches
  /\ pc' = "save"
  /\ UNCHANGED <<humanVars, ledger, landed, memVars, scout, old, faults, reused>>

\* Slip: the mark stays although the manifest could not be written.
RolledBackNever == mem
\* A request just marked goes back to the queue; one in flight stays marked.
RolledBack ==
  IF inFlight = None /\ pick # None
    THEN [mem EXCEPT ![pick].state = "queued"] ELSE mem

\* The manifest cannot be written: the old one stays.
PublishFails ==
  /\ pc = "publish"
  /\ Fault("io")
  /\ mem' = RolledBack
  /\ pc' = "save"
  /\ UNCHANGED <<humanVars, manifest, ledger, landed, listed, inFlight, pick,
                 scout, old, dispatches, reused>>

EndPass ==
  /\ mem' = NoRecs /\ listed' = {} /\ inFlight' = None /\ pick' = None
  /\ UNCHANGED <<humanVars, manifest, landed, scout, dispatches, reused>>

\* The time of a dispatch that is closed in the ledger is of no use any more.
Save ==
  /\ pc = "save"
  /\ ledger' = mem
  /\ pc' = "idle"
  /\ old' = {i \in old : mem[i].state = "dispatched"}
  /\ EndPass
  /\ UNCHANGED faults

SaveFails ==
  /\ pc = "save"
  /\ Fault("unsaved")
  /\ pc' = "idle"
  /\ EndPass
  /\ UNCHANGED <<ledger, old>>

Crash ==
  /\ pc \notin {"idle", "down"}
  /\ Fault("crash")
  /\ pc' = "down"
  /\ EndPass
  /\ UNCHANGED <<ledger, old>>

Pass == Load \/ Register \/ Resolve \/ Pick \/ Publish \/ Save
PassFails == RegisterFails \/ PublishFails \/ SaveFails \/ Crash

(***************************************************************************)
(* Scout, the clock, and what else touches the files.                      *)
(***************************************************************************)
\* The trigger: whatever the manifest names starts a run, every time it is read.
Fire ==
  /\ scout = None /\ manifest # None
  /\ scout' = [id |-> manifest, topic |-> None]
  /\ UNCHANGED <<humanVars, manifest, ledger, landed, pc, memVars, old, faults,
                 dispatches, reused>>

\* The run reads the request it was told of, if it is still there.
ReadRequest ==
  /\ scout # None /\ scout.topic = None
  /\ scout' = IF inbox[scout.id] = None THEN None
              ELSE [scout EXCEPT !.topic = inbox[scout.id].topic]
  /\ UNCHANGED <<humanVars, manifest, ledger, landed, pc, memVars, old, faults,
                 dispatches, reused>>

\* Its one fetch, written to raw/<topic>.md.
Answer ==
  /\ scout # None /\ scout.topic # None
  /\ landed' = landed \cup {scout.topic}
  /\ scout' = None
  /\ UNCHANGED <<humanVars, manifest, ledger, pc, memVars, old, faults, dispatches,
                 reused>>

RunFails ==
  /\ scout # None /\ scout.topic # None
  /\ scout' = None
  /\ UNCHANGED <<humanVars, manifest, ledger, landed, pc, memVars, old, faults,
                 dispatches, reused>>

\* An approved file becomes SEAL_MIN_AGE_SECONDS old.
Settle(i) ==
  /\ inbox[i] # None /\ ~inbox[i].settled
  /\ inbox' = [inbox EXCEPT ![i].settled = TRUE]
  /\ UNCHANGED <<requests, sweep, approvals, manifest, ledger, landed, pc, memVars,
                 scout, old, faults, dispatches, reused>>

Outstanding(i) ==
  mem[i].state = "dispatched" \/ (ledger # None /\ ledger[i].state = "dispatched")

\* INBOX_DISPATCH_TIMEOUT_SECONDS pass after a dispatch.
Expire(i) ==
  /\ Outstanding(i) /\ i \notin old
  /\ old' = old \cup {i}
  /\ UNCHANGED <<humanVars, manifest, ledger, landed, pc, memVars, scout, faults,
                 dispatches, reused>>

\* The last trace of an answer goes: its source is reaped a day after it was
\* condemned, or its brief is moved away.  Both take longer than the timeout.
Vanish(t) ==
  /\ t \in landed
  /\ \A i \in Ids : Outstanding(i) => i \in old
  /\ landed' = landed \ {t}
  /\ UNCHANGED <<humanVars, manifest, ledger, pc, memVars, scout, old, faults,
                 dispatches, reused>>

\* The ledger is deleted or damaged on disk.
LoseLedger ==
  /\ ledger # None
  /\ Fault("corrupt")
  /\ ledger' = None
  /\ UNCHANGED <<humanVars, manifest, landed, pc, memVars, scout, old,
                 dispatches, reused>>

Operator ==
  \/ \E i \in Ids : \/ Request(i) \/ Reject(i) \/ ArchiveMove(i)
                    \/ \E t \in Topics : Approve(i, t)
  \/ ArchiveList \/ ArchiveStops
Scout == Fire \/ ReadRequest \/ Answer \/ RunFails
Environment ==
  \/ \E i \in Ids : Settle(i) \/ Expire(i)
  \/ \E t \in Topics : Vanish(t)
  \/ LoseLedger

Next == Operator \/ Pass \/ PassFails \/ Scout \/ Environment

Spec == Init /\ [][Next]_vars

\* The loop starts a pass every SEAL_POLL_SECONDS and restarts after a crash
\* (sealer-loop.sh), and time passes.  Nothing is assumed of the operator, the
\* trigger or scout.
FairSpec ==
  /\ Spec
  /\ WF_vars(Pass)
  /\ \A i \in Ids : WF_vars(Settle(i)) /\ WF_vars(Expire(i))

(***************************************************************************)
(* Properties                                                              *)
(***************************************************************************)
\* One request at a time is out, in the file and in the pass: scout's run has
\* one network action, so a second would be dropped (quarantine-seal.sh:1084).
OneInFlight ==
  /\ Cardinality({i \in Ids : mem[i].state = "dispatched"}) <= 1
  /\ ledger # None =>
       Cardinality({i \in Ids : ledger[i].state = "dispatched"}) <= 1

\* When the pass is about to record a request as dispatched, the manifest names
\* it: none is marked dispatched that no trigger can see, whichever writes
\* failed in this pass and whatever crashes came before it.
DispatchedIsVisible ==
  pc = "save" => \A i \in Ids : mem[i].state = "dispatched" => manifest = i

\* No request is recorded as done or abandoned, and none is on the list of a
\* running `archive', whose approval was never in the manifest, unless the record
\* is that of an earlier approval: the mark of a dispatch is made before the
\* manifest is written and saved after it, by a pass that may fail in between,
\* and `archive' moves files by what the ledger said when it started.
ClosedWasOut ==
  \A i \in Ids :
    \/ i \in sweep
    \/ ledger # None /\ ledger[i].state \in {"done", "abandoned"}
    => dispatches[i] > 0 \/ i \in reused

\* One approval is dispatched once, and once more for each fault that can lose
\* the record of it: retained file, fail-open ledger and timeout do not compose
\* into an unbounded fetch loop.
DispatchBound == \A i \in Ids : dispatches[i] <= 1 + faults

\* Every approval is dispatched, unless the sealer still has a record that an
\* earlier approval of the id was; and then it is archived or its record closed:
\* a run that fails, or answers nothing, does not wedge the queue.  What is left
\* out is the recovery the comments promise, "re-approve it to try again"
\* (quarantine-seal.sh:1219): the record stays closed, and such an approval is
\* never dispatched.
Served ==
  \A i \in Ids :
    inbox[i] # None ~>
      /\ dispatches[i] > 0 \/ i \in reused
      /\ \/ inbox[i] = None
         \/ ledger # None /\ ledger[i].state \in {"done", "abandoned"}
=============================================================================
