------------------------------- MODULE Sealer -------------------------------
(***************************************************************************)
(* The airlock pass of openclaw-enclave/scripts/quarantine-seal.sh, run    *)
(* every SEAL_POLL_SECONDS by sealer/sealer-loop.sh, together with the     *)
(* two agents it mediates between: scout, which drops fetched documents    *)
(* into raw/, and the curator, which reads normalized/ and writes briefs   *)
(* into briefs-pending/.                                                   *)
(*                                                                         *)
(* The pass is one sequential process that shares its directories with    *)
(* the agents without any lock.  It is modelled at the grain of its file   *)
(* operations, so every agent step can fall between any two of them.  Its  *)
(* ledger lives in memory during the pass (`entries', `lastReap') and is   *)
(* written to disk (`ledger') only at the very end.                        *)
(***************************************************************************)
EXTENDS Integers, FiniteSets

CONSTANTS
  Stems,         \* file stems, the join key of every directory
  Docs,          \* contents a fetch may bring back (identified by sha256)
  Imperative,    \* the contents source_reads_imperative() fires on
  None,          \* "no such file"
  Partial,       \* what reading a file that is still being written returns
  MaxAttempts,   \* SEAL_MAX_ATTEMPTS
  SettleGuard,   \* SEAL_MIN_AGE_SECONDS > 0
  FlaggedMount,  \* briefs-flagged/ is mounted and writable
  Faults,        \* which of FaultKinds may happen
  MaxFaults,     \* bound on the number of faults
  MaxFetches,    \* bound on the number of documents scout drops per stem
  MaxDays        \* bound on the clock, in units of REAP_AFTER_SECONDS

FaultKinds == {"crash", "unsaved", "corrupt", "io"}
Never == -1

ASSUME SealerAssumption ==
  /\ Imperative \subseteq Docs
  /\ None \notin Docs \cup {Partial}
  /\ Partial \notin Docs
  /\ MaxAttempts \in Nat \ {0}
  /\ SettleGuard \in BOOLEAN
  /\ FlaggedMount \in BOOLEAN
  /\ Faults \subseteq FaultKinds
  /\ MaxFaults \in Nat
  /\ MaxFetches \in Nat
  /\ MaxDays \in Nat

VARIABLES
  raw,         \* raw/<stem>.md: scout's drop, open while it is being written
  normalized,  \* normalized/<stem>.md
  archive,     \* normalized/archive/: every content ever swept, by stem
  pending,     \* briefs-pending/<stem>.json
  rejected,    \* stems with a briefs-pending/<stem>.json.rejected
  briefs,      \* briefs/<stem>.json, which cell 3 polls
  flagged,     \* briefs-flagged/<stem>.json, which nothing polls
  manifest,    \* normalized/PENDING.txt
  ledger,      \* ledger/seal-ledger.json
  entries,     \* the pass's in-memory copy of the ledger's entries
  lastReap,    \* ... and of its last_reap
  pc,          \* where the pass is; "down" after a crash
  work,        \* files of the current loop's directory listing not yet visited
  cur,         \* the stem being handled
  held,        \* the brief being handled and the source text it was judged on
  briefed,     \* the pass's `briefed' set
  reading,     \* the document the curator has in its context, by stem
  day,         \* the clock
  faults,      \* faults so far
  fetches,     \* documents dropped so far, by stem
  latest,      \* history: the newest document scout dropped
  raced,       \* history: stems re-dropped while the pass held their raw file
  drop         \* history: what happened to the newest normalized document

fileVars == <<raw, normalized, archive, pending, rejected, briefs, flagged, manifest>>
memVars  == <<entries, lastReap, work, cur, held, briefed>>
envVars  == <<reading, day, fetches>>
vars == <<raw, normalized, archive, pending, rejected, briefs, flagged, manifest,
          ledger, entries, lastReap, pc, work, cur, held, briefed,
          reading, day, faults, fetches, latest, raced, drop>>

(***************************************************************************)
(* Files and records                                                       *)
(***************************************************************************)
Texts == Docs \cup {Partial}
RawFile == [doc : Docs, settled : BOOLEAN]
\* What the curator writes: the sha it copied, its own answer to "did the
\* source try to instruct you", and whether shape and cited lines are valid.
PendingBrief == [sha : Texts, flag : BOOLEAN, valid : BOOLEAN, settled : BOOLEAN]
\* What the sealer publishes: claims are about `claims', quoted from `excerpt'.
PublishedBrief == [claims : Texts, excerpt : Texts, flag : BOOLEAN]
HeldBrief == [claims : Texts, excerpt : Texts \cup {None}, flag : BOOLEAN]
States == {"absent", "pending", "condemned", "reaped", "promoted", "promoted-flagged"}
Entry == [state : States, attempts : Nat, condemnedAt : Nat \cup {Never},
          witness : BOOLEAN]
Ledger == [entries : [Stems -> Entry], lastReap : Nat \cup {Never}]
Drop == [doc : Texts \cup {None}, rejections : Nat, briefed : BOOLEAN]

NoEntry == [state |-> "absent", attempts |-> 0, condemnedAt |-> Never,
            witness |-> FALSE]
NoEntries == [s \in Stems |-> NoEntry]
EmptyLedger == [entries |-> NoEntries, lastReap |-> Never]
NoDrop == [doc |-> None, rejections |-> 0, briefed |-> FALSE]
Present(dir) == {s \in Stems : dir[s] # None}

ASSUME FileAssumption == None \notin RawFile \cup PendingBrief

TypeOK ==
  /\ raw \in [Stems -> RawFile \cup {None}]
  /\ normalized \in [Stems -> Texts \cup {None}]
  /\ archive \in [Stems -> SUBSET Texts]
  /\ pending \in [Stems -> PendingBrief \cup {None}]
  /\ rejected \subseteq Stems
  /\ briefs \in [Stems -> PublishedBrief \cup {None}]
  /\ flagged \in [Stems -> PublishedBrief \cup {None}]
  /\ manifest \subseteq Stems
  /\ ledger \in Ledger
  /\ entries \in [Stems -> Entry]
  /\ lastReap \in Nat \cup {Never}
  /\ pc \in {"idle", "down", "normalize", "readRaw", "unlinkRaw", "judge",
             "readBrief", "reject", "publish", "unlinkBrief", "sweep", "manifest", "save"}
  /\ work \subseteq Stems
  /\ cur \in Stems \cup {None}
  /\ held \in HeldBrief \cup {None}
  /\ briefed \subseteq Stems
  /\ reading \in [Stems -> Texts \cup {None}]
  /\ day \in Nat
  /\ faults \in Nat
  /\ fetches \in [Stems -> Nat]
  /\ latest \in [Stems -> Docs \cup {None}]
  /\ raced \subseteq Stems
  /\ drop \in [Stems -> Drop]

Init ==
  /\ raw = [s \in Stems |-> None]
  /\ normalized = [s \in Stems |-> None]
  /\ archive = [s \in Stems |-> {}]
  /\ pending = [s \in Stems |-> None]
  /\ rejected = {}
  /\ briefs = [s \in Stems |-> None]
  /\ flagged = [s \in Stems |-> None]
  /\ manifest = {}
  /\ ledger = EmptyLedger
  /\ entries = NoEntries
  /\ lastReap = Never
  /\ pc = "idle"
  /\ work = {}
  /\ cur = None
  /\ held = None
  /\ briefed = {}
  /\ reading = [s \in Stems |-> None]
  /\ day = 0
  /\ faults = 0
  /\ fetches = [s \in Stems |-> 0]
  /\ latest = [s \in Stems |-> None]
  /\ raced = {}
  /\ drop = [s \in Stems |-> NoDrop]

Fault(kind) ==
  /\ kind \in Faults
  /\ faults < MaxFaults
  /\ faults' = faults + 1

(***************************************************************************)
(* The pass.  Load: a ledger that cannot be read (kind "corrupt") is       *)
(* replaced by an empty one.                                               *)
(***************************************************************************)
Load(book) ==
  /\ pc \in {"idle", "down"}
  /\ entries' = book.entries
  /\ lastReap' = book.lastReap
  /\ work' = Present(raw)
  /\ pc' = "normalize"
  /\ UNCHANGED <<fileVars, envVars, ledger, cur, held, briefed, latest, raced, drop>>

StartPass == Load(ledger) /\ UNCHANGED faults
StartPassCorrupt == Fault("corrupt") /\ Load(EmptyLedger)

\* Slip: the age of the file is not looked at.
ReadyUnguarded(file) == file # None
\* safe_entries(): the settle guard lets a young file alone.
Ready(file) == file # None /\ (file.settled \/ ~SettleGuard)

\* Phase 1, safe_entries(RAW): the stat of one listed file.
StatRaw(s) ==
  /\ pc = "normalize" /\ s \in work
  /\ work' = work \ {s}
  /\ IF Ready(raw[s]) THEN cur' = s /\ pc' = "readRaw" ELSE UNCHANGED <<cur, pc>>
  /\ UNCHANGED <<fileVars, envVars, ledger, entries, lastReap, held, briefed,
                 faults, latest, raced, drop>>

\* Phase 1, read_text() and atomic_write(): what is on disk now is normalized.
NormalizeRaw ==
  /\ pc = "readRaw"
  /\ LET text == IF raw[cur].settled THEN raw[cur].doc ELSE Partial IN
       /\ normalized' = [normalized EXCEPT ![cur] = text]
       /\ drop' = [drop EXCEPT ![cur] = [NoDrop EXCEPT !.doc = text]]
  /\ pc' = "unlinkRaw"
  /\ UNCHANGED <<raw, archive, pending, rejected, briefs, flagged, manifest, ledger,
                 memVars, envVars, faults, latest, raced>>

\* ... or it cannot be read: logged, and left for the next pass.
SkipRaw ==
  /\ pc = "readRaw"
  /\ Fault("io")
  /\ pc' = "normalize" /\ cur' = None
  /\ UNCHANGED <<fileVars, envVars, ledger, entries, lastReap, work, held, briefed,
                 latest, raced, drop>>

\* Slip: a known stem keeps its old state.
ResetKeepsState(e) ==
  [e EXCEPT !.state = IF e.state = "absent" THEN "pending" ELSE @, !.attempts = 0]
\* A new drop of a stem: pending again, with a full set of attempts.
Reset(e) ==
  [e EXCEPT !.state = "pending", !.attempts = 0, !.condemnedAt = Never]

\* Phase 1, entry.unlink() and the ledger record.
UnlinkRaw ==
  /\ pc = "unlinkRaw"
  /\ raw' = [raw EXCEPT ![cur] = None]
  /\ entries' = [entries EXCEPT ![cur] = Reset(@)]
  /\ pc' = "normalize"
  /\ cur' = None
  /\ UNCHANGED <<normalized, archive, pending, rejected, briefs, flagged, manifest,
                 ledger, lastReap, work, held, briefed, envVars, faults,
                 latest, raced, drop>>

EndNormalize ==
  /\ pc = "normalize" /\ work = {}
  /\ work' = Present(pending)
  /\ pc' = "judge"
  /\ UNCHANGED <<fileVars, envVars, ledger, entries, lastReap, cur, held, briefed,
                 faults, latest, raced, drop>>

(***************************************************************************)
(* Phase 2.  Judging reads the brief and its source once; nothing but this *)
(* process writes normalized/, so both reads are one step, after the stat  *)
(* of the brief.                                                           *)
(***************************************************************************)
\* ledger_entry(): get or create.
Known(e) == IF e.state = "absent" THEN [e EXCEPT !.state = "pending"] ELSE e

\* Slip: the sha is not compared.
ResolvesAnySha(brief, text) ==
  brief.settled /\ brief.valid /\ text # None
\* brief_violation() and resolve_evidence(): whether the brief resolves
\* against this source text.  A file caught open does not parse.
Resolves(brief, text) ==
  brief.settled /\ brief.valid /\ text # None /\ text = brief.sha

\* Slip: only the curator's own answer counts.
DivertsOnFlagOnly(flag, text) == flag
\* Either opinion is enough to divert: the curator's or the detector's.
Diverts(flag, text) == flag \/ text \in Imperative

\* safe_entries(BRIEFS_PENDING): the stat of one listed file.
StatBrief(s) ==
  /\ pc = "judge" /\ s \in work
  /\ work' = work \ {s}
  /\ IF Ready(pending[s]) THEN cur' = s /\ pc' = "readBrief" ELSE UNCHANGED <<cur, pc>>
  /\ UNCHANGED <<fileVars, envVars, ledger, entries, lastReap, held, briefed,
                 faults, latest, raced, drop>>

\* The source could not be read for a transient reason: not an attempt.
SkipSource ==
  /\ pc = "readBrief" /\ normalized[cur] # None
  /\ Fault("io")
  /\ pc' = "judge" /\ cur' = None
  /\ UNCHANGED <<fileVars, envVars, ledger, entries, lastReap, work, held, briefed,
                 latest, raced, drop>>

\* What the pass goes on with.
BriefRead == [claims |-> pending[cur].sha, excerpt |-> normalized[cur],
              flag |-> pending[cur].flag]

\* Rejected, published, or HELD in briefs-pending/ for want of the mount.
JudgeBrief ==
  LET brief == pending[cur]
      text == normalized[cur]
  IN
  /\ pc = "readBrief"
  /\ \/ /\ ~Resolves(brief, text)
        /\ pc' = "reject" /\ held' = BriefRead
        /\ UNCHANGED <<entries, cur>>
     \/ /\ Resolves(brief, text)
        /\ entries' = [entries EXCEPT ![cur] =
                         [Known(@) EXCEPT !.witness = text \in Imperative]]
        /\ IF Diverts(brief.flag, text) /\ ~FlaggedMount
             THEN pc' = "judge" /\ cur' = None /\ UNCHANGED held
             ELSE pc' = "publish" /\ held' = BriefRead /\ UNCHANGED cur
  /\ UNCHANGED <<fileVars, envVars, ledger, lastReap, work, briefed, faults,
                 latest, raced, drop>>

\* A brief that cannot be read is rejected like one that does not parse.
RejectUnread ==
  /\ pc = "readBrief"
  /\ Fault("io")
  /\ pc' = "reject" /\ held' = BriefRead
  /\ UNCHANGED <<fileVars, envVars, ledger, entries, lastReap, work, cur, briefed,
                 latest, raced, drop>>

\* One rejection on the record: counted, and condemned at the limit.
Rejected(e) ==
  LET n == Known(e).attempts + 1
      condemn == n >= MaxAttempts /\ e.state # "condemned"
  IN [Known(e) EXCEPT !.attempts = n,
                      !.state = IF condemn THEN "condemned" ELSE @,
                      !.condemnedAt = IF condemn THEN day ELSE @]

\* reject(): counted in memory, then the file is renamed out of the way.
RejectBrief ==
  /\ pc = "reject"
  /\ entries' = [entries EXCEPT ![cur] = Rejected(@)]
  /\ pending' = [pending EXCEPT ![cur] = None]
  /\ rejected' = rejected \cup {cur}
  /\ drop' = [drop EXCEPT ![cur].rejections = @ + 1]
  /\ pc' = "judge" /\ cur' = None /\ held' = None
  /\ UNCHANGED <<raw, normalized, archive, briefs, flagged, manifest, ledger,
                 lastReap, work, briefed, envVars, faults, latest, raced>>

\* Promotion, first half: atomic_write() into the destination directory.
PublishBrief ==
  /\ pc = "publish"
  /\ IF Diverts(held.flag, held.excerpt)
       THEN flagged' = [flagged EXCEPT ![cur] = held] /\ UNCHANGED briefs
       ELSE briefs' = [briefs EXCEPT ![cur] = held] /\ UNCHANGED flagged
  /\ drop' = [drop EXCEPT ![cur].briefed = @ \/ held.excerpt = drop[cur].doc]
  /\ pc' = "unlinkBrief"
  /\ UNCHANGED <<raw, normalized, archive, pending, rejected, manifest, ledger,
                 memVars, envVars, faults, latest, raced>>

\* Promotion, second half: entry.unlink() and the ledger state.
UnlinkBrief ==
  /\ pc = "unlinkBrief"
  /\ pending' = [pending EXCEPT ![cur] = None]
  /\ entries' = [entries EXCEPT ![cur].state =
                   IF Diverts(held.flag, held.excerpt) THEN "promoted-flagged"
                                                       ELSE "promoted"]
  /\ pc' = "judge" /\ cur' = None /\ held' = None
  /\ UNCHANGED <<raw, normalized, archive, rejected, briefs, flagged, manifest, ledger,
                 lastReap, work, briefed, envVars, faults, latest, raced, drop>>

\* Either half fails with an OSError: logged, and the brief stays pending.
PromotionFails ==
  /\ pc \in {"publish", "unlinkBrief"}
  /\ Fault("io")
  /\ pc' = "judge" /\ cur' = None /\ held' = None
  /\ UNCHANGED <<fileVars, envVars, ledger, entries, lastReap, work, briefed,
                 latest, raced, drop>>

(***************************************************************************)
(* The daily reap.  A ledger without a last_reap only starts the clock.    *)
(***************************************************************************)
ReapDue == lastReap # Never /\ lastReap < day
\* Slip: the day between condemning and deleting is skipped.
ReapableAtOnce(s) == entries[s].state = "condemned"
Reapable(s) ==
  /\ entries[s].state = "condemned"
  /\ entries[s].condemnedAt # Never /\ entries[s].condemnedAt < day

Victims == {s \in Stems : ReapDue /\ Reapable(s)}
Delete(sources, briefsOf) ==
  /\ pc = "judge" /\ work = {}
  /\ normalized' = [s \in Stems |-> IF s \in sources THEN None ELSE normalized[s]]
  /\ rejected' = rejected \ briefsOf
  /\ entries' = [s \in Stems |->
                   IF s \in Victims THEN [entries[s] EXCEPT !.state = "reaped"]
                                    ELSE entries[s]]
  /\ lastReap' = IF lastReap = Never \/ ReapDue THEN day ELSE lastReap
  /\ pc' = "sweep"
  /\ UNCHANGED <<raw, archive, pending, briefs, flagged, manifest, ledger,
                 work, cur, held, briefed, envVars, latest, raced, drop>>

Reap == Delete(Victims, Victims) /\ UNCHANGED faults
\* Some files cannot be deleted: logged, and their stems are reaped for all that.
ReapFails ==
  /\ Fault("io")
  /\ \E sources, briefsOf \in SUBSET Victims :
       sources \cap briefsOf # Victims /\ Delete(sources, briefsOf)

(***************************************************************************)
(* Phase 4 and the manifests.  The `briefed' set is computed once and used *)
(* by both; the ledger outranks the directories for any stem it knows.     *)
(***************************************************************************)
Published(s) == briefs[s] # None \/ flagged[s] # None
\* Slip: the ledger's promoted states are not consulted.
AlreadyBriefedNoLedger ==
  Present(pending)
    \cup {s \in Stems : Published(s) /\ entries[s].state = "absent"}
\* Slip: a rejected brief counts as an answer.
AlreadyBriefedRejected ==
  Present(pending) \cup rejected
    \cup {s \in Stems : entries[s].state \in {"promoted", "promoted-flagged"}}
    \cup {s \in Stems : Published(s) /\ entries[s].state = "absent"}
\* Slip: an old brief counts even for a stem the ledger knows.
AlreadyBriefedAnyBrief ==
  Present(pending)
    \cup {s \in Stems : entries[s].state \in {"promoted", "promoted-flagged"}}
    \cup {s \in Stems : Published(s)}
AlreadyBriefed ==
  Present(pending)
    \cup {s \in Stems : entries[s].state \in {"promoted", "promoted-flagged"}}
    \cup {s \in Stems : Published(s) /\ entries[s].state = "absent"}

Archive(moved) ==
  /\ pc = "sweep"
  /\ briefed' = AlreadyBriefed
  /\ archive' = [s \in Stems |->
                   IF s \in moved THEN archive[s] \cup {normalized[s]} ELSE archive[s]]
  /\ normalized' = [s \in Stems |-> IF s \in moved THEN None ELSE normalized[s]]
  /\ pc' = "manifest"
  /\ UNCHANGED <<raw, pending, rejected, briefs, flagged, manifest, ledger,
                 entries, lastReap, work, cur, held, envVars, latest, raced, drop>>

Sweepable == {s \in AlreadyBriefed : normalized[s] # None /\ Published(s)}
Sweep == Archive(Sweepable) /\ UNCHANGED faults
\* os.replace() fails for some of them: logged, never fatal.
SweepFails ==
  /\ Fault("io")
  /\ \E moved \in SUBSET Sweepable : moved # Sweepable /\ Archive(moved)

\* Slip: condemned stems stay listed.
OutstandingUnbounded(s) == normalized[s] # None /\ s \notin briefed
Outstanding(s) ==
  /\ normalized[s] # None /\ s \notin briefed
  /\ entries[s].state \notin {"condemned", "reaped"}

WriteManifest ==
  /\ pc = "manifest"
  /\ manifest' = {s \in Stems : Outstanding(s)}
  /\ pc' = "save"
  /\ UNCHANGED <<raw, normalized, archive, pending, rejected, briefs, flagged, ledger,
                 memVars, envVars, faults, latest, raced, drop>>

\* The end of the process, orderly or not: its memory is gone.
Exit(to) ==
  /\ pc' = to
  /\ entries' = NoEntries /\ lastReap' = Never
  /\ work' = {} /\ cur' = None /\ held' = None /\ briefed' = {}
  /\ UNCHANGED <<fileVars, envVars, latest, raced, drop>>

SaveLedger ==
  /\ pc = "save"
  /\ ledger' = [entries |-> entries, lastReap |-> lastReap]
  /\ Exit("idle")
  /\ UNCHANGED faults

\* The write of the ledger fails: logged, the pass still ends normally.
SaveFails ==
  /\ pc = "save"
  /\ Fault("unsaved")
  /\ Exit("idle")
  /\ UNCHANGED ledger

\* SIGKILL, or an exception nothing catches, anywhere in the pass; the loop
\* starts the next one.
Crash ==
  /\ pc \notin {"idle", "down"}
  /\ Fault("crash")
  /\ Exit("down")
  /\ UNCHANGED ledger

(***************************************************************************)
(* The agents and the clock                                                *)
(***************************************************************************)
passVars == <<ledger, memVars, pc>>

\* scout starts to write raw/<stem>.md, over an earlier drop if one is there.
ScoutWrites(s, d) ==
  /\ fetches[s] < MaxFetches
  /\ fetches' = [fetches EXCEPT ![s] = @ + 1]
  /\ raw' = [raw EXCEPT ![s] = [doc |-> d, settled |-> FALSE]]
  /\ latest' = [latest EXCEPT ![s] = d]
  /\ raced' = IF cur = s /\ pc \in {"readRaw", "unlinkRaw"} THEN raced \cup {s} ELSE raced
  /\ UNCHANGED <<normalized, archive, pending, rejected, briefs, flagged, manifest,
                 passVars, reading, day, faults, drop>>

\* The write is over and SEAL_MIN_AGE_SECONDS have passed since.
RawSettles(s) ==
  /\ raw[s] # None /\ ~raw[s].settled
  /\ raw' = [raw EXCEPT ![s].settled = TRUE]
  /\ UNCHANGED <<normalized, archive, pending, rejected, briefs, flagged, manifest,
                 passVars, envVars, faults, latest, raced, drop>>

\* The curator reads a document its manifest names ...
CuratorReads(s) ==
  /\ s \in manifest /\ normalized[s] # None
  /\ reading' = [reading EXCEPT ![s] = normalized[s]]
  /\ UNCHANGED <<fileVars, passVars, day, fetches, faults, latest, raced, drop>>

\* ... and some time later writes a brief of what it read, good or bad.
CuratorWrites(s, flag, valid) ==
  /\ reading[s] # None
  /\ pending' = [pending EXCEPT ![s] = [sha |-> reading[s], flag |-> flag,
                                        valid |-> valid, settled |-> FALSE]]
  /\ reading' = [reading EXCEPT ![s] = None]
  /\ UNCHANGED <<raw, normalized, archive, rejected, briefs, flagged, manifest,
                 passVars, day, fetches, faults, latest, raced, drop>>

BriefSettles(s) ==
  /\ pending[s] # None /\ ~pending[s].settled
  /\ pending' = [pending EXCEPT ![s].settled = TRUE]
  /\ UNCHANGED <<raw, normalized, archive, rejected, briefs, flagged, manifest,
                 passVars, envVars, faults, latest, raced, drop>>

\* A human files a brief away, into briefs/archive/ for one.
HumanMovesBrief(s) ==
  /\ briefs[s] # None
  /\ briefs' = [briefs EXCEPT ![s] = None]
  /\ UNCHANGED <<raw, normalized, archive, pending, rejected, flagged, manifest,
                 passVars, envVars, faults, latest, raced, drop>>

\* REAP_AFTER_SECONDS pass; a pass itself takes seconds.
DayPasses ==
  /\ pc \in {"idle", "down"}
  /\ day < MaxDays
  /\ day' = day + 1
  /\ UNCHANGED <<fileVars, passVars, reading, fetches, faults, latest, raced, drop>>

PassStep ==
  \/ StartPass
  \/ \E s \in Stems : StatRaw(s)
  \/ NormalizeRaw \/ UnlinkRaw \/ EndNormalize
  \/ \E s \in Stems : StatBrief(s)
  \/ JudgeBrief \/ RejectBrief \/ PublishBrief \/ UnlinkBrief
  \/ Reap \/ Sweep \/ WriteManifest \/ SaveLedger

FaultStep ==
  \/ StartPassCorrupt
  \/ SkipRaw \/ SkipSource \/ RejectUnread
  \/ PromotionFails \/ ReapFails \/ SweepFails \/ SaveFails \/ Crash

AgentStep ==
  \/ \E s \in Stems, d \in Docs : ScoutWrites(s, d)
  \/ \E s \in Stems : RawSettles(s)
  \/ \E s \in Stems : CuratorReads(s)
  \/ \E s \in Stems, flag, valid \in BOOLEAN : CuratorWrites(s, flag, valid)
  \/ \E s \in Stems : BriefSettles(s)
  \/ \E s \in Stems : HumanMovesBrief(s)
  \/ DayPasses

Next == PassStep \/ FaultStep \/ AgentStep

Spec == Init /\ [][Next]_vars

(***************************************************************************)
(* Fairness: the loop always starts the next pass and a pass always goes   *)
(* on; files settle with time; the curator's cron job reads what the       *)
(* manifest lists and finishes the brief it began.  The pass is strongly   *)
(* fair to a settled brief: its period is shorter than the curator's, so   *)
(* it does not find the same brief half-written every time it looks.       *)
(***************************************************************************)
Fairness ==
  /\ WF_vars(PassStep)
  /\ \A s \in Stems :
       /\ WF_vars(RawSettles(s))
       /\ WF_vars(BriefSettles(s))
       /\ WF_vars(CuratorReads(s))
       /\ WF_vars(\E flag, valid \in BOOLEAN : CuratorWrites(s, flag, valid))
       /\ SF_vars(StatRaw(s) /\ Ready(raw[s]))
       /\ SF_vars(StatBrief(s) /\ Ready(pending[s]))

FairSpec == Spec /\ Fairness

(***************************************************************************)
(* Safety                                                                  *)
(***************************************************************************)

\* A published brief quotes exactly the document its claims were distilled
\* from, even when the stem was fetched again while the brief was in flight.
EvidenceBound ==
  \A s \in Stems, dir \in {briefs, flagged} :
    dir[s] # None => dir[s].claims = dir[s].excerpt

\* Whatever the curator answered, briefs/ never holds a brief of a source that
\* reads as instructions, nor one the curator flagged.
Diversion ==
  \A s \in Stems :
    briefs[s] # None => ~briefs[s].flag /\ briefs[s].excerpt \notin Imperative

\* The text a published brief quotes can still be found: the source of every
\* brief on disk is in normalized/ or in normalized/archive/.
EvidenceKept ==
  \A s \in Stems, dir \in {briefs, flagged} :
    dir[s] # None => dir[s].excerpt \in archive[s] \cup {normalized[s]}

\* The settle guard: a half-written document is normalized only if scout
\* began to rewrite it after the pass had looked at its age.
NoTruncation ==
  \A s \in Stems : normalized[s] = Partial => s \in raced

\* The newest document scout dropped is never lost: it is in raw/, or in
\* normalized/, or archived, or was reaped after enough failed briefs.
NewestKept ==
  \A s \in Stems :
    latest[s] # None /\ s \notin raced =>
      \/ raw[s] # None
      \/ normalized[s] = latest[s]
      \/ latest[s] \in archive[s]
      \/ drop[s].rejections >= MaxAttempts

\* Between passes, a normalized document nobody has rejected or briefed, and
\* for which no brief is waiting, is on the curator's list: a fetch of a known
\* stem is new work however the previous one ended.
FreshDropListed ==
  pc = "idle" =>
    \A s \in Stems :
      LET d == drop[s] IN
      d.doc # None /\ d.rejections = 0 /\ ~d.briefed /\ pending[s] = None
        => normalized[s] = d.doc /\ s \in manifest

\* Between passes, the curator is asked only for documents that are work: none
\* that has failed MaxAttempts times since it was dropped, and none it has
\* already briefed, wherever that brief was moved.
ManifestIsWork ==
  pc = "idle" => \A s \in manifest : drop[s].rejections < MaxAttempts /\ ~drop[s].briefed

(***************************************************************************)
(* Action properties                                                       *)
(***************************************************************************)

\* A document vanishes from normalized/ without being archived only by a reap
\* of one that failed MaxAttempts times, at least a day after its condemnation
\* was written to the ledger's file.
ReapEarned ==
  [][\A s \in Stems :
       normalized[s] # None /\ normalized'[s] = None /\ normalized[s] \notin archive'[s]
         => /\ drop[s].rejections >= MaxAttempts
            /\ ledger.entries[s].state = "condemned"
            /\ ledger.entries[s].condemnedAt < day]_vars

(***************************************************************************)
(* Liveness                                                                *)
(***************************************************************************)

\* Every drop is eventually published or fails MaxAttempts times.
EventuallyAnswered ==
  \A s \in Stems :
    raw[s] # None ~> \/ Published(s)
                     \/ ledger.entries[s].state \in {"condemned", "reaped"}
=============================================================================
