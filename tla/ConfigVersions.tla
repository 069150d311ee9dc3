---------------------------- MODULE ConfigVersions ----------------------------
(***************************************************************************)
(* A gateway's configuration file and the versions kept of it:             *)
(* ConfigService (control-plane/apps/api/src/services/config-service.ts),  *)
(* the config routes of app.ts, the page that edits it (web                *)
(* pages/ConfigPage.tsx) and the audit log both write to.                  *)
(*                                                                         *)
(* A document is the number of the edit that made it and whether its       *)
(* secrets are still there.  A method of the service writes several files  *)
(* one after the other; done is how many of them it wrote before the       *)
(* process ended or the disk was full, and torn says that the next one was *)
(* left unreadable.  An editor does not save between two of those writes.  *)
(***************************************************************************)
EXTENDS AuditLog

CONSTANTS
  MaxVersions,  \* versions kept (50)
  MaxEdits,     \* bound on the edits
  MaxIds        \* bound on the versions saved

ASSUME ConfigAssumption == MaxVersions \in Nat \ {0} /\ MaxEdits \in Nat /\ MaxIds \in Nat

VARIABLES
  host,    \* openclaw.json
  backup,  \* .ocp-backup
  index,   \* index.json, newest first; empty if it is unreadable
  ids,     \* versions saved so far
  edits,   \* edits so far
  live,    \* the page: the file as last loaded
  draft,   \* the page: the editor
  before,  \* history: what the control plane last overwrote
  since,   \* history: versions saved before that
  spent,   \* history: faults before that
  undo     \* history: what host was before the last apply, if nothing but proposals followed

configVars == <<host, backup, index, ids, edits, live, draft, before, since, spent, undo>>
vars == <<auditVars, configVars>>

None == [edit |-> -1, secrets |-> FALSE]   \* no document
Torn == [edit |-> -2, secrets |-> FALSE]   \* half a file
Doc == [edit : -2..MaxEdits, secrets : BOOLEAN]
Version == [id : 1..MaxIds, doc : Doc, source : {"snapshot", "proposed", "applied"}]

TypeOK ==
  /\ AuditTypeOK
  /\ \A d \in {host, backup, live, draft, before, undo} : d \in Doc
  /\ index \in Seq(Version) /\ Len(index) <= MaxVersions
  /\ ids \in 0..MaxIds /\ since \in 0..MaxIds /\ spent \in 0..MaxFaults
  /\ edits \in 0..MaxEdits

Init ==
  /\ AuditInit
  /\ host = [edit |-> 0, secrets |-> TRUE]
  /\ backup = None /\ index = << >> /\ ids = 0 /\ edits = 0
  /\ live = None /\ draft = None /\ before = None /\ since = 0 /\ spent = 0
  /\ undo = None

\* maskSecretsInJsonText()
Masked(doc) == [doc EXCEPT !.secrets = FALSE]

\* saveVersion() under the number id
Saved(idx, id, doc, source) ==
  LET next == <<[id |-> id, doc |-> doc, source |-> source]>> \o idx
  IN SubSeq(next, 1, IF Len(next) < MaxVersions THEN Len(next) ELSE MaxVersions)

Save(doc, source) ==
  /\ ids < MaxIds /\ ids' = ids + 1 /\ index' = Saved(index, ids + 1, doc, source)

\* The index is cut short, or the version's own file before it.
SaveStops == Fault /\ index' \in {index, << >>}

(***************************************************************************)
(* The service                                                             *)
(***************************************************************************)
\* A full disk may cut the audit row short.
NoRow == log' = log \/ log' = [log EXCEPT !.partial = TRUE]
Rows(n) == log.events + n <= MaxEvents

\* snapshot() and its route
TakeSnapshot == Save(host, "snapshot")
Snapshot ==
  /\ Rows(1)
  /\ \/ TakeSnapshot /\ log' = Appended(log) /\ UNCHANGED faults
     \/ SaveStops /\ UNCHANGED <<ids, log>>
     \/ TakeSnapshot /\ Fault /\ NoRow
  /\ undo' = None
  /\ UNCHANGED <<archive, host, backup, edits, live, draft, before, since, spent>>

\* propose() of the draft, and its route
TakeProposal == draft.edit >= 0 /\ Save(draft, "proposed")
Propose ==
  /\ Rows(1)
  /\ \/ TakeProposal /\ log' = Appended(log) /\ UNCHANGED <<faults, undo>>
     \/ draft.edit >= 0 /\ SaveStops /\ undo' = None /\ UNCHANGED <<ids, log>>
     \/ TakeProposal /\ Fault /\ NoRow /\ UNCHANGED undo
  /\ UNCHANGED <<archive, host, backup, edits, live, draft, before, since, spent>>

\* The pre-apply snapshot, after which the version is looked up.
Snapshotted == Saved(index, ids + 1, host, "snapshot")
Found(id) == {i \in 1..Len(Snapshotted) : Snapshotted[i].id = id /\ Snapshotted[i].doc # Torn}
Target(id) == Snapshotted[CHOOSE i \in Found(id) : TRUE].doc

\* Slip: the backup is taken of what was written.
BackupLate(doc) == doc
BackupOf(doc) == host

\* applyVersion() makes done of its writes: the pre-apply snapshot, the
\* backup, the host file, the applied version.
ApplyWrites(id, done, torn) ==
  LET doc == Target(id)
      cut(n) == torn /\ done + 1 = n
  IN /\ ids + 2 <= MaxIds /\ ids' = ids + 2
     /\ index' = IF done = 4 THEN Saved(Snapshotted, ids + 2, doc, "applied")
                 ELSE IF cut(1) \/ cut(4) THEN << >>
                 ELSE IF done >= 1 THEN Snapshotted ELSE index
     /\ backup' = IF done >= 2 THEN BackupOf(doc) ELSE IF cut(2) THEN Torn ELSE backup
     /\ host' = IF done >= 3 THEN doc ELSE IF cut(3) THEN Torn ELSE host
     /\ IF done >= 3 \/ cut(3) THEN before' = host /\ since' = ids /\ spent' = faults
                               ELSE UNCHANGED <<before, since, spent>>
     /\ UNCHANGED <<archive, edits, live, draft>>

Applied(id) ==
  Found(id) # {} /\ ApplyWrites(id, 4, FALSE) /\ undo' = host /\ UNCHANGED faults

ApplyStops(id) ==
  /\ Found(id) # {} /\ Fault /\ undo' = None
  /\ \/ \E done \in 0..3, torn \in BOOLEAN : ApplyWrites(id, done, torn) /\ UNCHANGED log
     \/ ApplyWrites(id, 4, FALSE) /\ NoRow

\* The version is gone, pushed out by the snapshot perhaps, or is not JSON, or
\* its secrets are of the kind assertNoSecretsInPlaintext() knows.
ApplyRefused(id) ==
  /\ Found(id) # {} => Target(id).secrets
  /\ Save(host, "snapshot") /\ undo' = None
  /\ UNCHANGED <<auditVars, host, backup, edits, live, draft, before, since, spent>>

\* The page applies a version with the hash it has of the host file.
Apply(id) ==
  /\ live \in {None, host} /\ Rows(1)
  /\ \/ Applied(id) /\ log' = Appended(log)
     \/ ApplyStops(id)
     \/ ApplyRefused(id)

\* Slip: a version nobody applied is rolled back to.
AnyVersion(v) == TRUE
Rollbackable(v) == v.source \in {"snapshot", "applied"}

\* rollback() applies the second newest, whatever the host file holds.
RolledBack(id) == Applied(id) /\ log' = Appended(Appended(log))
RollbackTo(id) ==
  \/ RolledBack(id)
  \/ ApplyStops(id)
  \/ Found(id) # {} /\ ApplyWrites(id, 4, FALSE) /\ undo' = None
       /\ Fault /\ log' \in {Appended(log), [Appended(log) EXCEPT !.partial = TRUE]}
  \/ ApplyRefused(id)

\* Position i holds the newest of the versions that can be rolled back to.
Newest(i) == Rollbackable(index[i]) /\ \A k \in 1..(i - 1) : ~Rollbackable(index[k])

\* Position j holds the one after it.
SecondNewest(j) ==
  /\ Rollbackable(index[j])
  /\ \E i \in 1..(j - 1) :
       Newest(i) /\ \A k \in (i + 1)..(j - 1) : ~Rollbackable(index[k])

Rollback ==
  Rows(2) /\ \E j \in 1..Len(index) : SecondNewest(j) /\ RollbackTo(index[j].id)

(***************************************************************************)
(* The page and the operator's editor                                      *)
(***************************************************************************)
\* A button of the page asks the service for one thing, and the page loads the
\* file again or fails to.
Button == Snapshot \/ Propose \/ Rollback \/ \E id \in 1..ids : Apply(id)

\* getLive(): the file's hash and a masked preview
GetLive == live' = host

\* The page loads the file, and an empty editor takes its preview.
Load ==
  /\ GetLive /\ draft' = IF draft = None THEN Masked(host) ELSE draft
  /\ UNCHANGED <<auditVars, host, backup, index, ids, edits, before, since, spent, undo>>

Type ==
  /\ draft # None /\ edits < MaxEdits /\ edits' = edits + 1
  /\ draft' = [draft EXCEPT !.edit = edits + 1]
  /\ UNCHANGED <<auditVars, host, backup, index, ids, live, before, since, spent, undo>>

\* Another gateway is picked and this one again.
Switch ==
  /\ live # None /\ live' = None /\ draft' = None
  /\ UNCHANGED <<auditVars, host, backup, index, ids, edits, before, since, spent, undo>>

HandEdit ==
  /\ edits < MaxEdits /\ edits' = edits + 1
  /\ host' = [edit |-> edits + 1, secrets |-> TRUE]
  /\ UNCHANGED <<auditVars, backup, index, ids, live, draft, before, since, spent, undo>>

Next ==
  \/ AuditNext /\ UNCHANGED configVars
  \/ Button
  \/ Load \/ Type \/ Switch \/ HandEdit

Spec == Init /\ [][Next]_vars

(***************************************************************************)
(* Properties                                                              *)
(***************************************************************************)
\* What the control plane last overwrote can be brought back, from a version
\* or from the backup, wherever that apply or rollback or one call since then
\* was cut short, until enough versions were saved to push it out.
Recoverable ==
  before # None /\ ids - since <= MaxVersions /\ faults - spent <= 1
    => before = backup \/ \E i \in 1..Len(index) : index[i].doc = before

\* A rollback after a completed apply or rollback undoes it, unless a snapshot
\* was taken or an apply was cut short since: proposals and edits by hand do
\* not count.
RollbackUndoes ==
  [][\A id \in 1..ids : RolledBack(id) /\ undo # None => host' = undo]_vars
=============================================================================
