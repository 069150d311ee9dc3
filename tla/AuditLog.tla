------------------------------- MODULE AuditLog -------------------------------
(***************************************************************************)
(* The audit log of the control plane: AuditStore                          *)
(* (control-plane/apps/api/src/services/audit-store.ts) and the routes of  *)
(* app.ts that append to it and rotate it.  A row is the number of its     *)
(* event and the number its prevHash stands for: hashEvent() covers both,  *)
(* so a row's hash is its number as long as both are as written.  Every    *)
(* method runs to its end without another in between; what interrupts one  *)
(* is a full disk or the end of the process.  A row that lacks no more     *)
(* than its newline counts as half a line: what is written next is glued   *)
(* to it all the same.                                                     *)
(***************************************************************************)
EXTENDS Integers, Sequences, FiniteSets

CONSTANTS
  Keeps,      \* the retention counts asked for
  MaxEvents,  \* bound on the events
  MaxFaults   \* bound on failed writes and crashes

ASSUME AuditAssumption == Keeps \subseteq Nat /\ MaxEvents \in Nat /\ MaxFaults \in Nat

VARIABLES
  log,      \* the store and its file
  archive,  \* the archive file
  faults

auditVars == <<log, archive, faults>>

Null == 0   \* no hash
Events == 1..MaxEvents
Row == [id : Events, prev : Events \cup {Null}]

AuditTypeOK ==
  /\ log \in [file : Seq(Row),            \* the lines that parse
              partial : BOOLEAN,          \* the file ends in half a line
              last : Events \cup {Null},  \* lastHash
              events : 0..MaxEvents,      \* history: events appended
              spoiled : SUBSET Events]    \* history: events a failed write took
  /\ archive \in [rows : SUBSET Events,    \* the lines that parse
                  half : BOOLEAN,          \* the file ends in half a line
                  glued : SUBSET Events]   \* history: rows written after half a line
  /\ faults \in 0..MaxFaults

Ids(rows) == {rows[i].id : i \in 1..Len(rows)}

AuditInit ==
  /\ log = [file |-> << >>, partial |-> FALSE, last |-> Null, events |-> 0, spoiled |-> {}]
  /\ archive = [rows |-> {}, half |-> FALSE, glued |-> {}] /\ faults = 0

Fault == faults < MaxFaults /\ faults' = faults + 1

\* append(): a line written after half a line cannot be read, nor can that.
Appended(l) ==
  LET id == l.events + 1
  IN [l EXCEPT !.events = id, !.last = id, !.partial = FALSE,
               !.file = IF l.partial THEN @ ELSE Append(@, [id |-> id, prev |-> l.last]),
               !.spoiled = IF l.partial THEN @ \cup {id} ELSE @]

\* readLastHash()
LastHash(rows) == IF rows = << >> THEN Null ELSE rows[Len(rows)].id

\* Slip: the chain starts anew with the process.
RestartedAnew(l) == [l EXCEPT !.last = Null]
\* The constructor
Restarted(l) == [l EXCEPT !.last = LastHash(l.file)]

\* Slip: the row between the two slices.
OldRowsShort(rows, keep) == SubSeq(rows, 1, Len(rows) - keep - 1)
OldRows(rows, keep) == SubSeq(rows, 1, Len(rows) - keep)
KeptRows(rows, keep) == SubSeq(rows, Len(rows) - keep + 1, Len(rows))

\* Rows are added to the archive, and half of one more perhaps.  The archive
\* may end in half a line: the first of them cannot be read then.
Archived(rows, half) ==
  LET lost == IF archive.half /\ rows # << >> THEN {rows[1].id} ELSE {}
  IN archive' = [rows |-> archive.rows \cup (Ids(rows) \ lost),
                 half |-> half \/ (archive.half /\ rows = << >>),
                 glued |-> archive.glued \cup lost]

\* The old rows are archived up to some point.
ArchivedInPart(rows) ==
  \E n \in 0..Len(rows), half \in BOOLEAN :
    (half => n < Len(rows)) /\ Archived(SubSeq(rows, 1, n), half)

\* The log once its file is written anew with the rows kept
Rotated(keep) ==
  LET kept == KeptRows(log.file, keep)
  IN [log EXCEPT !.file = kept, !.partial = FALSE, !.last = LastHash(kept)]

\* The file is written anew with rows, and the write stops short.
Cut(rows) ==
  \E n \in 0..Len(rows), half \in BOOLEAN :
    /\ n < Len(rows)
    /\ log' = [log EXCEPT !.file = SubSeq(rows, 1, n), !.partial = half,
                          !.spoiled = @ \cup Ids(SubSeq(rows, n + 1, Len(rows)))]

\* A route appends: sign-in, messages, jobs, approvals, checks.
Record ==
  /\ log.events < MaxEvents /\ log' = Appended(log)
  /\ UNCHANGED <<archive, faults>>

\* The disk is full: half a line, and the route fails.
RecordFails ==
  /\ log.events < MaxEvents /\ Fault
  /\ log' = [log EXCEPT !.partial = TRUE]
  /\ UNCHANGED archive

\* POST /api/audit/retain: the old rows go to the archive, the file is written
\* anew, and the rotation is recorded.
Retain(keep) ==
  /\ log.events < MaxEvents
  /\ IF Len(log.file) <= keep
       THEN log' = Appended(log) /\ UNCHANGED archive
       ELSE Archived(OldRows(log.file, keep), FALSE) /\ log' = Appended(Rotated(keep))
  /\ UNCHANGED faults

\* It stops while it archives or after that, while it writes the file, or while
\* the rotation is recorded.
RetainFails(keep) ==
  /\ Len(log.file) > keep /\ Fault
  /\ \/ ArchivedInPart(OldRows(log.file, keep)) /\ log' = log
     \/ /\ Archived(OldRows(log.file, keep), FALSE)
        /\ \/ Cut(KeptRows(log.file, keep))
           \/ log' \in {Rotated(keep), [Rotated(keep) EXCEPT !.partial = TRUE]}

\* The process ends and starts again.
Restart == Fault /\ log' = Restarted(log) /\ UNCHANGED archive

AuditNext ==
  \/ Record \/ RecordFails \/ Restart
  \/ \E keep \in Keeps : Retain(keep) \/ RetainFails(keep)

(***************************************************************************)
(* Properties                                                              *)
(***************************************************************************)
\* Rotation, crashes within its two writes and restarts lose no event: each is
\* in the file or the archive, or a write that failed took it, or it was the
\* first that was archived after half a line; and each of the latter has a
\* failed write of its own.
NothingErased ==
  /\ \A id \in 1..log.events :
       id \in Ids(log.file) \cup log.spoiled \cup archive.rows \cup archive.glued
  /\ Cardinality(archive.glued) <= faults

\* Rows of the file name their predecessor, through restarts and rotations, or
\* one that a failed write took.
Linked ==
  \A i \in 2..Len(log.file) :
    log.file[i].prev \in {log.file[i - 1].id} \cup log.spoiled

\* verifyChain(): each row's hash is that of its event and of the row before.
VerifyChain(rows) ==
  \A i \in 1..Len(rows) : rows[i].prev = IF i = 1 THEN Null ELSE rows[i - 1].id

\* What list() reports beside the events it was asked for
ChainOk == VerifyChain(log.file)

\* What list() reports of a log that only this store has written and no write
\* of it failed: the chain is whole.
IntactVerifies == log.spoiled = {} /\ ~log.partial => ChainOk
=============================================================================
