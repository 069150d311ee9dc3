---------------------------- MODULE SealerProofs ----------------------------
(***************************************************************************)
(* Theorems about Sealer for every set of stems and documents, every bound *)
(* and every combination of faults, checked by TLAPS.                      *)
(***************************************************************************)
EXTENDS Sealer, TLAPS

(***************************************************************************)
(* The inductive invariant.  The pass carries what it has decided about    *)
(* the current file from one step to the next, across agent steps; these   *)
(* conjuncts say what the carried values are worth.                        *)
(***************************************************************************)

\* The current stem and brief exist where the pass is working on them.
Carried ==
  /\ pc \in {"readRaw", "unlinkRaw", "readBrief", "reject", "publish", "unlinkBrief"}
       => cur \in Stems
  /\ pc = "readRaw" => raw[cur] \in RawFile
  /\ pc = "readBrief" => pending[cur] \in PendingBrief
  /\ pc \in {"reject", "publish", "unlinkBrief"} => held \in HeldBrief

\* A brief on its way to a destination has been bound to its source.
Resolved ==
  pc \in {"publish", "unlinkBrief"} =>
    held \in PublishedBrief /\ held.claims = held.excerpt

IInv == TypeOK /\ Carried /\ Resolved /\ EvidenceBound /\ Diversion

USE SealerAssumption DEF Never

LEMMA InitIInv == Init => IInv
<1> SUFFICES ASSUME Init PROVE IInv
  OBVIOUS
<1>1. NoEntries \in [Stems -> Entry]
  BY DEF NoEntries, NoEntry, Entry, States
<1>2. NoDrop \in Drop
  BY DEF NoDrop, Drop
<1>3. TypeOK
  BY <1>1, <1>2 DEF Init, TypeOK, EmptyLedger, Ledger
<1>4. Carried /\ Resolved /\ EvidenceBound /\ Diversion
  BY DEF Init, Carried, Resolved, EvidenceBound, Diversion
<1> QED BY <1>3, <1>4 DEF IInv

(***************************************************************************)
(* Typing of the ledger's record operations.                               *)
(***************************************************************************)
LEMMA NoEntriesType == NoEntries \in [Stems -> Entry]
  BY DEF NoEntries, NoEntry, Entry, States

LEMMA KnownType == ASSUME NEW e \in Entry PROVE Known(e) \in Entry
  BY DEF Known, Entry, States

LEMMA ResetType == ASSUME NEW e \in Entry PROVE Reset(e) \in Entry
  BY DEF Reset, Entry, States

LEMMA RejectedType == ASSUME NEW e \in Entry, day \in Nat PROVE Rejected(e) \in Entry
<1> DEFINE k == Known(e)
           n == k.attempts + 1
           condemn == n >= MaxAttempts /\ e.state # "condemned"
<1>1. k \in Entry
  BY KnownType
<1>2. n \in Nat
  BY <1>1 DEF Entry
<1>3. (IF condemn THEN "condemned" ELSE k.state) \in States
  BY <1>1 DEF Entry, States
<1>4. (IF condemn THEN day ELSE k.condemnedAt) \in Nat \cup {Never}
  BY <1>1 DEF Entry
<1>5. Rejected(e) = [k EXCEPT !.attempts = n,
                              !.state = IF condemn THEN "condemned" ELSE k.state,
                              !.condemnedAt = IF condemn THEN day ELSE k.condemnedAt]
  BY DEF Rejected
<1> HIDE DEF k, n, condemn
<1> QED BY <1>1, <1>2, <1>3, <1>4, <1>5 DEF Entry

\* The daily reap, whatever it could delete.
LEMMA Reaps ==
  Reap \/ ReapFails => \E sources, briefsOf \in SUBSET Victims : Delete(sources, briefsOf)
  BY DEF Reap, ReapFails

\* It is aimed at condemned stems alone.
LEMMA VictimsGiven ==
  /\ Victims \subseteq Stems
  /\ \A s \in Victims : Reapable(s) /\ entries[s].state = "condemned"
  BY DEF Victims, Reapable

(***************************************************************************)
(* Steps of the pass                                                       *)
(***************************************************************************)
LEMMA LoadStep ==
  ASSUME IInv, NEW book \in Ledger, Load(book), faults' \in Nat PROVE IInv'
<1> USE DEF IInv, Load, fileVars, envVars
<1>1. TypeOK'
  BY DEF TypeOK, Ledger, Present
<1>2. Carried' /\ Resolved'
  BY DEF Carried, Resolved
<1>3. EvidenceBound' /\ Diversion'
  BY DEF EvidenceBound, Diversion
<1> QED BY <1>1, <1>2, <1>3

LEMMA NormalizeStep ==
  ASSUME IInv
  PROVE  /\ (\E s \in Stems : StatRaw(s)) => IInv'
         /\ NormalizeRaw => IInv'
         /\ SkipRaw => IInv'
         /\ UnlinkRaw => IInv'
         /\ EndNormalize => IInv'
<1> USE DEF IInv, fileVars, envVars, memVars
<1>1. ASSUME NEW s \in Stems, StatRaw(s) PROVE IInv'
  BY <1>1 DEF StatRaw, Ready, TypeOK, Carried, Resolved, EvidenceBound, Diversion
<1>2. ASSUME NormalizeRaw PROVE IInv'
  <2> DEFINE text == IF raw[cur].settled THEN raw[cur].doc ELSE Partial
  <2>1. cur \in Stems /\ raw[cur] \in RawFile
    BY <1>2 DEF NormalizeRaw, Carried, TypeOK
  <2>2. text \in Texts
    BY <2>1 DEF RawFile, Texts
  <2>3. [NoDrop EXCEPT !.doc = text] \in Drop
    BY <2>2 DEF NoDrop, Drop
  <2>4. TypeOK'
    BY <1>2, <2>1, <2>2, <2>3 DEF NormalizeRaw, TypeOK
  <2>5. Carried' /\ Resolved' /\ EvidenceBound' /\ Diversion'
    BY <1>2 DEF NormalizeRaw, Carried, Resolved, EvidenceBound, Diversion
  <2> QED BY <2>4, <2>5
<1>3. ASSUME UnlinkRaw PROVE IInv'
  <2>1. cur \in Stems /\ Reset(entries[cur]) \in Entry
    BY <1>3, ResetType DEF UnlinkRaw, Carried, TypeOK
  <2>2. TypeOK'
    BY <1>3, <2>1 DEF UnlinkRaw, TypeOK
  <2>3. Carried' /\ Resolved' /\ EvidenceBound' /\ Diversion'
    BY <1>3 DEF UnlinkRaw, Carried, Resolved, EvidenceBound, Diversion
  <2> QED BY <2>2, <2>3
<1>4. ASSUME EndNormalize PROVE IInv'
  BY <1>4 DEF EndNormalize, Present, TypeOK, Carried, Resolved, EvidenceBound, Diversion
<1>5. ASSUME SkipRaw PROVE IInv'
  BY <1>5 DEF SkipRaw, Fault, TypeOK, Carried, Resolved, EvidenceBound, Diversion
<1> QED BY <1>1, <1>2, <1>3, <1>4, <1>5

LEMMA BriefReadType ==
  ASSUME IInv, pc = "readBrief"
  PROVE  cur \in Stems /\ pending[cur] \in PendingBrief /\ BriefRead \in HeldBrief
<1>1. cur \in Stems /\ pending[cur] \in PendingBrief
  BY DEF IInv, Carried
<1>2. normalized[cur] \in Texts \cup {None}
  BY <1>1 DEF IInv, TypeOK
<1> QED BY <1>1, <1>2 DEF BriefRead, PendingBrief, HeldBrief

LEMMA JudgeStep ==
  ASSUME IInv
  PROVE  /\ (\E s \in Stems : StatBrief(s)) => IInv'
         /\ SkipSource => IInv'
         /\ RejectUnread => IInv'
         /\ JudgeBrief => IInv'
<1> USE DEF IInv, fileVars, envVars
<1>1. ASSUME NEW s \in Stems, StatBrief(s) PROVE IInv'
  <2>1. /\ UNCHANGED <<fileVars, envVars, ledger, entries, lastReap, held, briefed,
                       faults, latest, raced, drop>>
        /\ pc = "judge" /\ work' = work \ {s}
        /\ \/ pc' = "readBrief" /\ cur' = s /\ pending[s] # None
           \/ UNCHANGED <<pc, cur>>
    BY <1>1 DEF StatBrief, Ready
  <2>2. TypeOK'
    BY <2>1 DEF TypeOK
  <2>3. pending[s] # None => pending[s] \in PendingBrief
    BY DEF TypeOK
  <2>4. Carried'
    BY <2>1, <2>3 DEF Carried
  <2> QED BY <2>1, <2>2, <2>4 DEF Resolved, EvidenceBound, Diversion
<1>2. ASSUME SkipSource PROVE IInv'
  BY <1>2 DEF SkipSource, Fault, TypeOK, Carried, Resolved, EvidenceBound, Diversion
<1>3. ASSUME RejectUnread PROVE IInv'
  <2>1. /\ UNCHANGED <<fileVars, envVars, ledger, entries, lastReap, work, cur, briefed,
                       latest, raced, drop>>
        /\ pc' = "reject" /\ held' = BriefRead /\ faults' \in Nat
        /\ cur \in Stems /\ BriefRead \in HeldBrief
    BY <1>3, BriefReadType DEF RejectUnread, Fault, TypeOK
  <2> QED BY <2>1 DEF TypeOK, Carried, Resolved, EvidenceBound, Diversion
<1>4. ASSUME JudgeBrief PROVE IInv'
  <2> DEFINE witness == normalized[cur] \in Imperative
             known == [Known(entries[cur]) EXCEPT !.witness = witness]
             new == BriefRead
  <2>1. /\ cur \in Stems /\ pending[cur] \in PendingBrief
        /\ new \in HeldBrief /\ new.claims = pending[cur].sha
        /\ new.excerpt = normalized[cur]
    BY <1>4, BriefReadType DEF JudgeBrief, BriefRead
  <2>2. known \in Entry
    <3>1. Known(entries[cur]) \in Entry
      BY <2>1, KnownType DEF TypeOK
    <3>2. witness \in BOOLEAN
      OBVIOUS
    <3> HIDE DEF witness
    <3> QED BY <3>1, <3>2 DEF Entry
  <2>3. UNCHANGED <<fileVars, envVars, ledger, lastReap, work, briefed, faults, latest,
                    raced, drop>>
    BY <1>4 DEF JudgeBrief
  <2>4. EvidenceBound' /\ Diversion'
    BY <2>3 DEF EvidenceBound, Diversion
  <2>5. CASE ~Resolves(pending[cur], normalized[cur])
    <3>1. pc' = "reject" /\ held' = new /\ UNCHANGED <<entries, cur>>
      BY <1>4, <2>5 DEF JudgeBrief
    <3> HIDE DEF new
    <3> QED BY <2>1, <2>3, <2>4, <3>1 DEF TypeOK, Carried, Resolved
  <2>6. CASE Resolves(pending[cur], normalized[cur])
    <3>1. /\ entries' = [entries EXCEPT ![cur] = known]
          /\ \/ pc' = "judge" /\ cur' = None /\ UNCHANGED held
             \/ pc' = "publish" /\ held' = new /\ UNCHANGED cur
      BY <1>4, <2>6 DEF JudgeBrief
    <3>2. new \in PublishedBrief /\ new.claims = new.excerpt
      BY <2>1, <2>6 DEF Resolves, PublishedBrief, HeldBrief
    <3> HIDE DEF new, known
    <3>3. TypeOK'
      BY <2>1, <2>2, <2>3, <3>1 DEF TypeOK
    <3> QED BY <2>1, <2>4, <3>1, <3>2, <3>3 DEF Carried, Resolved
  <2> QED BY <2>5, <2>6
<1> QED BY <1>1, <1>2, <1>3, <1>4

LEMMA PromoteStep ==
  ASSUME IInv
  PROVE  /\ RejectBrief => IInv'
         /\ PublishBrief => IInv'
         /\ UnlinkBrief => IInv'
         /\ PromotionFails => IInv'
<1> USE DEF IInv, fileVars, envVars, memVars
<1>1. ASSUME RejectBrief PROVE IInv'
  <2>1. cur \in Stems /\ Rejected(entries[cur]) \in Entry
    BY <1>1, RejectedType DEF RejectBrief, Carried, TypeOK
  <2>2. drop' \in [Stems -> Drop]
    <3>1. [drop[cur] EXCEPT !.rejections = @ + 1] \in Drop
      <4>1. drop[cur] \in Drop
        BY <2>1 DEF TypeOK
      <4> QED BY <4>1 DEF Drop
    <3> QED BY <1>1, <2>1, <3>1 DEF RejectBrief, TypeOK
  <2>3. TypeOK'
    BY <1>1, <2>1, <2>2 DEF RejectBrief, TypeOK
  <2>4. Carried' /\ Resolved' /\ EvidenceBound' /\ Diversion'
    BY <1>1 DEF RejectBrief, Carried, Resolved, EvidenceBound, Diversion
  <2> QED BY <2>3, <2>4
<1>2. ASSUME PublishBrief PROVE IInv'
  <2>1. cur \in Stems /\ held \in PublishedBrief /\ held.claims = held.excerpt
    BY <1>2 DEF PublishBrief, Carried, Resolved
  <2>2. drop' \in [Stems -> Drop]
    <3> DEFINE now == drop[cur].briefed \/ held.excerpt = drop[cur].doc
    <3>1. now \in BOOLEAN
      OBVIOUS
    <3>2. drop' = [drop EXCEPT ![cur] = [drop[cur] EXCEPT !.briefed = now]]
      BY <1>2 DEF PublishBrief
    <3> HIDE DEF now
    <3>3. [drop[cur] EXCEPT !.briefed = now] \in Drop
      <4>1. drop[cur] \in Drop /\ now \in BOOLEAN
        BY <2>1, <3>1 DEF TypeOK
      <4> QED BY <4>1 DEF Drop
    <3> QED BY <2>1, <3>2, <3>3 DEF TypeOK
  <2>3. CASE Diverts(held.flag, held.excerpt)
    <3>1. flagged' = [flagged EXCEPT ![cur] = held] /\ briefs' = briefs
      BY <1>2, <2>3 DEF PublishBrief
    <3>2. TypeOK'
      BY <1>2, <2>1, <2>2, <3>1 DEF PublishBrief, TypeOK
    <3>3. EvidenceBound' /\ Diversion'
      BY <2>1, <3>1 DEF EvidenceBound, Diversion, TypeOK
    <3> QED BY <1>2, <2>1, <3>2, <3>3 DEF PublishBrief, Carried, Resolved
  <2>4. CASE ~Diverts(held.flag, held.excerpt)
    <3>1. briefs' = [briefs EXCEPT ![cur] = held] /\ flagged' = flagged
      BY <1>2, <2>4 DEF PublishBrief
    <3>2. TypeOK'
      BY <1>2, <2>1, <2>2, <3>1 DEF PublishBrief, TypeOK
    <3>3. ~held.flag /\ held.excerpt \notin Imperative
      BY <2>4 DEF Diverts
    <3>4. EvidenceBound' /\ Diversion'
      BY <2>1, <3>1, <3>3 DEF EvidenceBound, Diversion, TypeOK
    <3> QED BY <1>2, <2>1, <3>2, <3>4 DEF PublishBrief, Carried, Resolved
  <2> QED BY <2>3, <2>4
<1>3. ASSUME UnlinkBrief PROVE IInv'
  <2> DEFINE state == IF Diverts(held.flag, held.excerpt) THEN "promoted-flagged"
                                                          ELSE "promoted"
  <2>1. cur \in Stems
    BY <1>3 DEF UnlinkBrief, Carried
  <2>2. [entries[cur] EXCEPT !.state = state] \in Entry
    BY <2>1 DEF TypeOK, Entry, States
  <2>3. entries' \in [Stems -> Entry]
    BY <1>3, <2>1, <2>2 DEF UnlinkBrief, TypeOK
  <2>4. TypeOK'
    BY <1>3, <2>1, <2>3 DEF UnlinkBrief, TypeOK
  <2>5. Carried' /\ Resolved' /\ EvidenceBound' /\ Diversion'
    BY <1>3 DEF UnlinkBrief, Carried, Resolved, EvidenceBound, Diversion
  <2> QED BY <2>4, <2>5
<1>4. ASSUME PromotionFails PROVE IInv'
  BY <1>4 DEF PromotionFails, Fault, TypeOK, Carried, Resolved, EvidenceBound, Diversion
<1> QED BY <1>1, <1>2, <1>3, <1>4

LEMMA CloseStep ==
  ASSUME IInv
  PROVE  /\ Reap => IInv'
         /\ ReapFails => IInv'
         /\ Sweep => IInv'
         /\ SweepFails => IInv'
         /\ WriteManifest => IInv'
         /\ SaveLedger => IInv'
         /\ SaveFails => IInv'
         /\ Crash => IInv'
<1> USE DEF IInv, fileVars, envVars, memVars
<1>1. ASSUME NEW sources \in SUBSET Victims, NEW briefsOf \in SUBSET Victims,
             Delete(sources, briefsOf), faults' \in Nat
      PROVE  IInv'
  <2>1. ASSUME NEW s \in Stems PROVE [entries[s] EXCEPT !.state = "reaped"] \in Entry
    <3>1. entries[s] \in Entry
      BY DEF TypeOK
    <3> QED BY <3>1 DEF Entry, States
  <2>2. TypeOK'
    BY <1>1, <2>1 DEF Delete, TypeOK
  <2>3. Carried' /\ Resolved' /\ EvidenceBound' /\ Diversion'
    BY <1>1 DEF Delete, Carried, Resolved, EvidenceBound, Diversion
  <2> QED BY <2>2, <2>3
<1>2. ASSUME NEW moved \in SUBSET Sweepable, Archive(moved), faults' \in Nat PROVE IInv'
  <2>1. \A s \in moved : normalized[s] \in Texts
    BY DEF Sweepable, AlreadyBriefed, Present, TypeOK
  <2>2. TypeOK'
    BY <1>2, <2>1 DEF Archive, AlreadyBriefed, Present, TypeOK
  <2>3. Carried' /\ Resolved' /\ EvidenceBound' /\ Diversion'
    BY <1>2 DEF Archive, Carried, Resolved, EvidenceBound, Diversion
  <2> QED BY <2>2, <2>3
<1>3. Sweep => IInv'
  BY <1>2 DEF Sweep, TypeOK
<1>4. SweepFails => IInv'
  BY <1>2 DEF SweepFails, Fault, TypeOK
<1>5. ASSUME WriteManifest PROVE IInv'
  BY <1>5 DEF WriteManifest, TypeOK, Carried, Resolved, EvidenceBound, Diversion
<1>6. ASSUME NEW to \in {"idle", "down"}, Exit(to), ledger' \in Ledger, faults' \in Nat
      PROVE  IInv'
  <2>1. TypeOK'
    BY <1>6, NoEntriesType DEF Exit, TypeOK
  <2>2. Carried' /\ Resolved' /\ EvidenceBound' /\ Diversion'
    BY <1>6 DEF Exit, Carried, Resolved, EvidenceBound, Diversion
  <2> QED BY <2>1, <2>2
<1>7. SaveLedger => IInv'
  BY <1>6 DEF SaveLedger, TypeOK, Ledger
<1>8. SaveFails => IInv'
  BY <1>6 DEF SaveFails, Fault, TypeOK
<1>9. Crash => IInv'
  BY <1>6 DEF Crash, Fault, TypeOK
<1>10. Reap => IInv'
  BY <1>1 DEF Reap, TypeOK
<1>11. ASSUME ReapFails PROVE IInv'
  <2>1. faults' \in Nat
    BY <1>11 DEF ReapFails, Fault, TypeOK
  <2> QED BY <1>1, <1>11, <2>1, Reaps
<1> QED BY <1>3, <1>4, <1>5, <1>7, <1>8, <1>9, <1>10, <1>11

LEMMA AgentIInv == ASSUME IInv, AgentStep PROVE IInv'
<1> USE DEF IInv, fileVars, envVars, memVars, passVars
<1>1. ASSUME NEW s \in Stems, NEW d \in Docs, ScoutWrites(s, d) PROVE IInv'
  <2>1. [doc |-> d, settled |-> FALSE] \in RawFile
    BY DEF RawFile
  <2>2. TypeOK'
    BY <1>1, <2>1 DEF ScoutWrites, TypeOK
  <2>3. raw' \in [Stems -> RawFile \cup {None}] /\ raw'[s] \in RawFile
    BY <1>1, <2>1 DEF ScoutWrites, TypeOK
  <2>4. Carried'
    BY <1>1, <2>3 DEF ScoutWrites, Carried, TypeOK
  <2>5. Resolved' /\ EvidenceBound' /\ Diversion'
    BY <1>1 DEF ScoutWrites, Resolved, EvidenceBound, Diversion
  <2> QED BY <2>2, <2>4, <2>5
<1>2. ASSUME NEW s \in Stems, RawSettles(s) PROVE IInv'
  <2>1. [raw[s] EXCEPT !.settled = TRUE] \in RawFile
    <3>1. raw[s] \in RawFile
      BY <1>2 DEF RawSettles, TypeOK
    <3> QED BY <3>1 DEF RawFile
  <2>2. TypeOK'
    BY <1>2, <2>1 DEF RawSettles, TypeOK
  <2>3. Carried'
    BY <1>2, <2>1 DEF RawSettles, Carried, TypeOK
  <2>4. Resolved' /\ EvidenceBound' /\ Diversion'
    BY <1>2 DEF RawSettles, Resolved, EvidenceBound, Diversion
  <2> QED BY <2>2, <2>3, <2>4
<1>3. ASSUME NEW s \in Stems, CuratorReads(s) PROVE IInv'
  BY <1>3 DEF CuratorReads, TypeOK, Carried, Resolved, EvidenceBound, Diversion
<1>4. ASSUME NEW s \in Stems, NEW flag \in BOOLEAN, NEW valid \in BOOLEAN,
             CuratorWrites(s, flag, valid)
      PROVE  IInv'
  <2>1. [sha |-> reading[s], flag |-> flag, valid |-> valid, settled |-> FALSE]
          \in PendingBrief
    BY <1>4 DEF CuratorWrites, TypeOK, PendingBrief
  <2>2. TypeOK'
    BY <1>4, <2>1 DEF CuratorWrites, TypeOK
  <2>3. Carried'
    BY <1>4, <2>1 DEF CuratorWrites, Carried, TypeOK
  <2>4. Resolved' /\ EvidenceBound' /\ Diversion'
    BY <1>4 DEF CuratorWrites, Resolved, EvidenceBound, Diversion
  <2> QED BY <2>2, <2>3, <2>4
<1>5. ASSUME NEW s \in Stems, BriefSettles(s) PROVE IInv'
  <2>1. [pending[s] EXCEPT !.settled = TRUE] \in PendingBrief
    <3>1. pending[s] \in PendingBrief
      BY <1>5 DEF BriefSettles, TypeOK
    <3> QED BY <3>1 DEF PendingBrief
  <2>2. TypeOK'
    BY <1>5, <2>1 DEF BriefSettles, TypeOK
  <2>3. Carried'
    BY <1>5, <2>1 DEF BriefSettles, Carried, TypeOK
  <2>4. Resolved' /\ EvidenceBound' /\ Diversion'
    BY <1>5 DEF BriefSettles, Resolved, EvidenceBound, Diversion
  <2> QED BY <2>2, <2>3, <2>4
<1>6. ASSUME NEW s \in Stems, HumanMovesBrief(s) PROVE IInv'
  BY <1>6 DEF HumanMovesBrief, TypeOK, Carried, Resolved, EvidenceBound, Diversion
<1>7. ASSUME DayPasses PROVE IInv'
  BY <1>7 DEF DayPasses, TypeOK, Carried, Resolved, EvidenceBound, Diversion
<1> QED BY <1>1, <1>2, <1>3, <1>4, <1>5, <1>6, <1>7 DEF AgentStep

LEMMA NextIInv == IInv /\ [Next]_vars => IInv'
<1> SUFFICES ASSUME IInv, [Next]_vars PROVE IInv'
  OBVIOUS
<1>1. EmptyLedger \in Ledger
  BY NoEntriesType DEF EmptyLedger, Ledger
<1>2. CASE StartPass
  BY <1>2, LoadStep DEF StartPass, IInv, TypeOK
<1>3. CASE StartPassCorrupt
  BY <1>1, <1>3, LoadStep DEF StartPassCorrupt, Fault, IInv, TypeOK
<1>4. CASE PassStep
  BY <1>2, <1>4, NormalizeStep, JudgeStep, PromoteStep, CloseStep DEF PassStep
<1>5. CASE FaultStep
  BY <1>3, <1>5, NormalizeStep, JudgeStep, PromoteStep, CloseStep DEF FaultStep
<1>6. CASE AgentStep
  BY <1>6, AgentIInv
<1>7. CASE UNCHANGED vars
  BY <1>7 DEF vars, IInv, TypeOK, Carried, Resolved, EvidenceBound, Diversion
<1> QED BY <1>4, <1>5, <1>6, <1>7 DEF Next

(***************************************************************************)
(* Every reachable state satisfies the inductive invariant.                *)
(***************************************************************************)
THEOREM Invariance == Spec => []IInv
  BY InitIInv, NextIInv, PTL DEF Spec

\* Type correctness: the pass never acts on a file or a record of the wrong
\* shape, in whatever order the agents write and however often it is killed.
THEOREM TypeCorrect == Spec => []TypeOK
  BY Invariance, PTL DEF IInv

\* Evidence binding for every stem, document, bound and combination of faults:
\* resolve_evidence() never quotes a document the curator did not read.
THEOREM EvidenceIsBound == Spec => []EvidenceBound
  BY Invariance, PTL DEF IInv

\* Routing: promotion never puts a flagged or instruction-bearing source in
\* front of cell 3, under the same generality.
THEOREM DivertedAlways == Spec => []Diversion
  BY Invariance, PTL DEF IInv

(***************************************************************************)
(* The settle guard                                                        *)
(***************************************************************************)
\* What the pass is about to read has settled, or was rewritten since it
\* looked at its age.
Aged == pc = "readRaw" => raw[cur].settled \/ cur \in raced

LEMMA AgedNext ==
  ASSUME IInv, SettleGuard, Aged, NoTruncation, [Next]_vars
  PROVE  Aged' /\ NoTruncation'
<1> USE DEF IInv, fileVars, envVars, memVars, passVars
<1>1. ASSUME NEW s \in Stems, StatRaw(s) PROVE Aged' /\ NoTruncation'
  <2>1. UNCHANGED <<raw, normalized, raced>> /\ pc = "normalize"
    BY <1>1 DEF StatRaw
  <2>2. pc' = "readRaw" => cur' = s /\ raw[s].settled
    BY <1>1 DEF StatRaw, Ready
  <2> QED BY <2>1, <2>2 DEF Aged, NoTruncation
<1>2. ASSUME NormalizeRaw PROVE Aged' /\ NoTruncation'
  <2> DEFINE text == IF raw[cur].settled THEN raw[cur].doc ELSE Partial
  <2>1. pc = "readRaw" /\ pc' = "unlinkRaw" /\ UNCHANGED raced
        /\ normalized' = [normalized EXCEPT ![cur] = text]
    BY <1>2 DEF NormalizeRaw
  <2>2. cur \in Stems /\ raw[cur] \in RawFile
    BY <2>1 DEF Carried
  <2>3. text = Partial => cur \in raced
    BY <2>1, <2>2 DEF Aged, RawFile
  <2> QED BY <2>1, <2>2, <2>3 DEF Aged, NoTruncation, TypeOK
<1>3. ASSUME NEW s \in Stems, NEW d \in Docs, ScoutWrites(s, d) PROVE Aged' /\ NoTruncation'
  <2>1. /\ raced \subseteq raced' /\ UNCHANGED <<normalized, pc, cur>>
        /\ pc = "readRaw" /\ cur = s => cur \in raced'
        /\ \A t \in Stems : t # s => raw'[t] = raw[t]
    BY <1>3 DEF ScoutWrites, TypeOK
  <2> QED BY <2>1 DEF Aged, NoTruncation, Carried
<1>4. ASSUME NEW s \in Stems, RawSettles(s) PROVE Aged' /\ NoTruncation'
  <2>1. raw[s] \in RawFile /\ raw' = [raw EXCEPT ![s].settled = TRUE]
    BY <1>4 DEF RawSettles, TypeOK
  <2>2. raw'[s].settled /\ \A t \in Stems : t # s => raw'[t] = raw[t]
    BY <2>1 DEF RawFile, TypeOK
  <2> QED BY <1>4, <2>2 DEF RawSettles, Aged, NoTruncation, Carried
<1>5. ASSUME pc' # "readRaw", UNCHANGED raced,
             \A s \in Stems : normalized'[s] = normalized[s] \/ normalized'[s] = None
      PROVE  Aged' /\ NoTruncation'
  BY <1>5 DEF Aged, NoTruncation
<1>6. ASSUME UNCHANGED <<raw, normalized, pc, cur, raced>> PROVE Aged' /\ NoTruncation'
  BY <1>6 DEF Aged, NoTruncation
<1>7. CASE PassStep
  <2>1. ASSUME NEW s \in Stems, StatBrief(s) PROVE Aged' /\ NoTruncation'
    <3>1. UNCHANGED <<normalized, raced>> /\ pc' \in {"judge", "readBrief"}
      BY <2>1 DEF StatBrief
    <3> QED BY <1>5, <3>1
  <2>2. CASE StartPass \/ UnlinkRaw \/ EndNormalize
    BY <1>5, <2>2 DEF StartPass, Load, UnlinkRaw, EndNormalize
  <2>3. CASE RejectBrief \/ PublishBrief \/ UnlinkBrief
    BY <1>5, <2>3 DEF RejectBrief, PublishBrief, UnlinkBrief
  <2>4. CASE Reap \/ Sweep
    BY <1>5, <2>4 DEF Reap, Delete, Sweep, Archive
  <2>5. CASE WriteManifest \/ SaveLedger
    BY <1>5, <2>5 DEF WriteManifest, SaveLedger, Exit
  <2>6. JudgeBrief => Aged' /\ NoTruncation'
    <3>1. JudgeBrief => UNCHANGED <<normalized, raced>> /\ pc' \in {"judge", "reject", "publish"}
      BY DEF JudgeBrief
    <3> QED BY <1>5, <3>1
  <2> QED BY <1>1, <1>2, <1>7, <2>1, <2>2, <2>3, <2>4, <2>5, <2>6 DEF PassStep
<1>8. CASE FaultStep
  <2>1. pc' # "readRaw" /\ UNCHANGED raced
        /\ \A s \in Stems : normalized'[s] = normalized[s] \/ normalized'[s] = None
    BY <1>8 DEF FaultStep, StartPassCorrupt, Load, SkipRaw, SkipSource, RejectUnread,
                PromotionFails, ReapFails, Delete, SweepFails, Archive, SaveFails, Crash, Exit
  <2> QED BY <1>5, <2>1
<1>9. CASE AgentStep
  <2>1. ASSUME NEW s \in Stems, NEW flag \in BOOLEAN, NEW valid \in BOOLEAN,
               CuratorReads(s) \/ CuratorWrites(s, flag, valid) \/ BriefSettles(s)
                 \/ HumanMovesBrief(s)
        PROVE  Aged' /\ NoTruncation'
    BY <1>6, <2>1 DEF CuratorReads, CuratorWrites, BriefSettles, HumanMovesBrief
  <2>2. CASE DayPasses
    BY <1>6, <2>2 DEF DayPasses
  <2> QED BY <1>3, <1>4, <1>9, <2>1, <2>2 DEF AgentStep
<1>10. CASE UNCHANGED vars
  BY <1>6, <1>10 DEF vars
<1> QED BY <1>7, <1>8, <1>9, <1>10 DEF Next

\* The settle guard keeps half-written documents out of normalized/, unless
\* scout starts to rewrite one in the instants between the pass's look at its
\* age and its unlink.
THEOREM GuardedReads ==
  ASSUME SettleGuard
  PROVE  Spec => []NoTruncation
<1>1. Init => Aged /\ NoTruncation
  BY DEF Init, Aged, NoTruncation
<1> QED BY <1>1, AgedNext, Invariance, PTL DEF Spec

(***************************************************************************)
(* Under any fault: documents and the brief at hand                        *)
(***************************************************************************)
\* A document in normalized/ is the newest one, and a brief at hand is of it.
Sourced ==
  /\ \A s \in Stems : normalized[s] # None => normalized[s] = drop[s].doc
  /\ pc \in {"readBrief", "reject", "publish", "unlinkBrief"} => cur \notin work
  /\ pc \in {"reject", "publish", "unlinkBrief"} => held.excerpt = normalized[cur]
  /\ pc = "unlinkBrief" => drop[cur].briefed

LEMMA SourcedNext == ASSUME IInv, Sourced, [Next]_vars PROVE Sourced'
<1> USE DEF IInv, fileVars, envVars, memVars, passVars
<1>1. CASE NormalizeRaw
  <2>1. PICK c \in Stems : c = cur
    BY <1>1 DEF NormalizeRaw, Carried
  <2> DEFINE text == IF raw[c].settled THEN raw[c].doc ELSE Partial
  <2>2. /\ normalized' = [normalized EXCEPT ![c] = text]
        /\ drop' = [drop EXCEPT ![c] = [NoDrop EXCEPT !.doc = text]]
        /\ pc' = "unlinkRaw"
    BY <1>1, <2>1 DEF NormalizeRaw
  <2> HIDE DEF text
  <2>3. /\ normalized'[c] = text /\ drop'[c].doc = text
        /\ \A s \in Stems : s # c => normalized'[s] = normalized[s] /\ drop'[s] = drop[s]
    BY <2>2 DEF NoDrop, TypeOK
  <2> QED BY <2>2, <2>3 DEF Sourced
<1>2. CASE JudgeBrief \/ RejectUnread
  <2>1. pc = "readBrief" /\ UNCHANGED <<normalized, drop, work>>
    BY <1>2 DEF JudgeBrief, RejectUnread
  <2>2. \/ pc' = "judge"
        \/ pc' \in {"reject", "publish"} /\ cur' = cur /\ held'.excerpt = normalized[cur]
    BY <1>2 DEF JudgeBrief, RejectUnread, BriefRead
  <2> QED BY <2>1, <2>2 DEF Sourced
<1>3. ASSUME NEW s \in Stems, StatRaw(s) \/ StatBrief(s) PROVE Sourced'
  BY <1>3 DEF StatRaw, StatBrief, Sourced
<1>4. CASE RejectBrief
  <2>1. drop' = [drop EXCEPT ![cur].rejections = @ + 1] /\ pc' = "judge" /\ UNCHANGED normalized
    BY <1>4 DEF RejectBrief
  <2>2. \A s \in Stems : drop'[s].doc = drop[s].doc
    BY <2>1 DEF TypeOK, Drop
  <2> QED BY <2>1, <2>2 DEF Sourced
<1>5. CASE PublishBrief
  <2>1. PICK c \in Stems : c = cur
    BY <1>5 DEF PublishBrief, Carried
  <2>2. /\ pc = "publish" /\ UNCHANGED <<normalized, cur, held, work>>
        /\ drop' = [drop EXCEPT ![c].briefed = @ \/ held.excerpt = drop[c].doc]
    BY <1>5, <2>1 DEF PublishBrief
  <2>3. \A s \in Stems : drop'[s].doc = drop[s].doc
    BY <2>2 DEF TypeOK, Drop
  <2>4. held.excerpt \in Texts /\ held.excerpt = normalized[c]
    BY <2>1, <2>2 DEF Sourced, Resolved, PublishedBrief
  <2>5. held.excerpt = drop[c].doc
    BY <2>4 DEF Sourced, Texts
  <2>6. drop'[c].briefed
    <3>1. drop \in [Stems -> Drop] /\ drop[c] \in Drop
      BY DEF TypeOK
    <3> QED BY <2>2, <2>5, <3>1 DEF Drop
  <2> QED BY <2>1, <2>2, <2>3, <2>6 DEF Sourced
<1>6. ASSUME \E moved, briefsOf \in SUBSET Stems : Delete(moved, briefsOf) \/ Archive(moved)
      PROVE  Sourced'
  <2>1. /\ pc' \in {"sweep", "manifest"} /\ UNCHANGED drop
        /\ \A s \in Stems : normalized'[s] \in {normalized[s], None}
    BY <1>6 DEF Delete, Archive
  <2> QED BY <2>1 DEF Sourced
<1>7. CASE StartPass \/ StartPassCorrupt \/ UnlinkRaw \/ EndNormalize
  BY <1>7 DEF StartPass, StartPassCorrupt, Load, UnlinkRaw, EndNormalize, Sourced
<1>8. CASE UnlinkBrief \/ PromotionFails \/ WriteManifest \/ SkipRaw \/ SkipSource
  BY <1>8 DEF UnlinkBrief, PromotionFails, WriteManifest, SkipRaw, SkipSource, Sourced
<1>9. CASE SaveLedger \/ SaveFails \/ Crash
  BY <1>9 DEF SaveLedger, SaveFails, Crash, Exit, Sourced
<1>10. CASE AgentStep \/ UNCHANGED vars
  <2>1. UNCHANGED <<normalized, drop, pc, cur, held, work>>
    BY <1>10 DEF AgentStep, ScoutWrites, RawSettles, CuratorReads, CuratorWrites, BriefSettles,
                 HumanMovesBrief, DayPasses, vars
  <2> QED BY <2>1 DEF Sourced
<1>11. CASE Reap \/ ReapFails \/ Sweep \/ SweepFails
  <2>1. Sweepable \subseteq Stems
    BY DEF Sweepable, AlreadyBriefed, Present
  <2> QED BY <1>6, <1>11, <2>1, Reaps, VictimsGiven DEF Sweep, SweepFails
<1>12. CASE PassStep
  BY <1>1, <1>2, <1>3, <1>4, <1>5, <1>7, <1>8, <1>9, <1>11, <1>12 DEF PassStep
<1>13. CASE FaultStep
  BY <1>2, <1>7, <1>8, <1>9, <1>11, <1>13 DEF FaultStep
<1> QED BY <1>10, <1>12, <1>13 DEF Next

LEMMA SourcedAlways == Spec => [](IInv /\ Sourced)
<1>1. Init => Sourced
  BY DEF Init, Sourced
<1> QED BY <1>1, SourcedNext, InitIInv, NextIInv, PTL DEF Spec

\* What each step of a fault needs.
LEMMA FaultKind ==
  /\ StartPassCorrupt => "corrupt" \in Faults
  /\ SkipRaw \/ SkipSource \/ RejectUnread => "io" \in Faults
  /\ PromotionFails \/ ReapFails \/ SweepFails => "io" \in Faults
  /\ SaveFails => "unsaved" \in Faults
  /\ Crash => "crash" \in Faults
  BY DEF StartPassCorrupt, SkipRaw, SkipSource, RejectUnread, PromotionFails, ReapFails,
         SweepFails, SaveFails, Crash, Fault

(***************************************************************************)
(* What one step does to a stem: to its record in the ledger and to the    *)
(* fate of its newest drop                                                 *)
(***************************************************************************)
\* The record of a stem, in the pass's memory or in the file between passes.
Now(s) == IF pc \in {"idle", "down"} THEN ledger.entries[s] ELSE entries[s]

Promoted == {"promoted", "promoted-flagged"}
Given == {"condemned", "reaped"}

Renewing(s) == pc = "unlinkRaw" /\ cur = s
Promoting(s) == pc = "unlinkBrief" /\ cur = s

Unmoved(s) ==
  /\ Now(s)' = Now(s) /\ drop'[s] = drop[s] /\ Renewing(s)' = Renewing(s)
  /\ Promoting(s) => Promoting(s)' \/ "io" \in Faults
Forgotten(s) ==
  /\ "corrupt" \in Faults
  /\ Now(s)' = NoEntry /\ drop'[s] = drop[s] /\ ~Renewing(s)'
Dropped(s) ==
  /\ Now(s)' = Now(s) /\ Renewing(s)'
  /\ drop'[s].doc # None /\ drop'[s].rejections = 0 /\ ~drop'[s].briefed
Renewed(s) ==
  /\ Renewing(s) /\ drop'[s] = drop[s]
  /\ Now(s)'.state = "pending" /\ Now(s)'.attempts = 0
Judged(s) ==
  /\ ~Promoting(s) /\ drop'[s] = drop[s]
  /\ Now(s)'.attempts = Now(s).attempts /\ Now(s)'.condemnedAt = Now(s).condemnedAt
  /\ Now(s)'.state = IF Now(s).state = "absent" THEN "pending" ELSE Now(s).state
Refused(s) ==
  LET n == Now(s).attempts + 1
      condemn == n >= MaxAttempts /\ Now(s).state # "condemned"
  IN /\ ~Promoting(s)
     /\ drop'[s].rejections = drop[s].rejections + 1
     /\ drop'[s].doc = drop[s].doc /\ drop'[s].briefed = drop[s].briefed
     /\ Now(s)'.attempts = n
     /\ Now(s)'.condemnedAt = IF condemn THEN day ELSE Now(s).condemnedAt
     /\ Now(s)'.state = IF condemn THEN "condemned"
                        ELSE IF Now(s).state = "absent" THEN "pending" ELSE Now(s).state
Issued(s) ==
  /\ Promoting(s)' /\ Now(s)' = Now(s)
  /\ drop'[s].briefed
  /\ drop'[s].doc = drop[s].doc /\ drop'[s].rejections = drop[s].rejections
Recorded(s) ==
  /\ Promoting(s) /\ drop'[s] = drop[s] /\ drop[s].briefed
  /\ Now(s)'.state \in Promoted /\ Now(s)'.attempts = Now(s).attempts
Removed(s) ==
  /\ ~Promoting(s) /\ drop'[s] = drop[s]
  /\ Now(s).state = "condemned"
  /\ Now(s)'.state = "reaped" /\ Now(s)'.attempts = Now(s).attempts

\* The record alone changes only where no drop is being taken in.
RecordStep(s) ==
  \/ Unmoved(s) \/ Forgotten(s) \/ Dropped(s)
  \/ /\ ~Renewing(s)'
     /\ \/ Renewed(s)
        \/ ~Renewing(s) /\ (Judged(s) \/ Refused(s) \/ Issued(s) \/ Recorded(s) \/ Removed(s))

\* As long as a pass neither dies nor fails to write its ledger, those are all.
LEMMA Records ==
  ASSUME IInv, Sourced, Sourced', Faults \subseteq {"corrupt", "io"}, [Next]_vars, NEW s \in Stems
  PROVE  RecordStep(s)
<1> USE DEF IInv, fileVars, envVars, memVars, passVars
<1>0. /\ entries[s] \in Entry /\ ledger.entries[s] \in Entry /\ drop[s] \in Drop
  BY DEF TypeOK, Ledger
<1>1. ASSUME Now(s)' = Now(s), drop'[s] = drop[s], Renewing(s)' = Renewing(s),
             Promoting(s) => Promoting(s)' \/ "io" \in Faults
      PROVE  RecordStep(s)
  BY <1>1 DEF RecordStep, Unmoved
<1>2. CASE StartPass
  BY <1>1, <1>2 DEF StartPass, Load, Now, Renewing, Promoting
<1>3. CASE StartPassCorrupt
  <2>1. Now(s)' = NoEntry /\ drop'[s] = drop[s] /\ ~Renewing(s)'
    BY <1>3 DEF StartPassCorrupt, Load, EmptyLedger, NoEntries, Now, Renewing
  <2> QED BY <1>3, <2>1, FaultKind DEF RecordStep, Forgotten
<1>4. CASE NormalizeRaw
  <2> DEFINE text == IF raw[cur].settled THEN raw[cur].doc ELSE Partial
  <2>1. cur \in Stems /\ text \in Texts /\ text # None
    BY <1>4 DEF NormalizeRaw, Carried, RawFile, Texts
  <2>2. /\ pc = "readRaw" /\ pc' = "unlinkRaw" /\ UNCHANGED <<entries, ledger, cur>>
        /\ drop' = [drop EXCEPT ![cur] = [NoDrop EXCEPT !.doc = text]]
    BY <1>4 DEF NormalizeRaw
  <2> HIDE DEF text
  <2>3. CASE s = cur
    <3>1. drop'[s].doc # None /\ drop'[s].rejections = 0 /\ ~drop'[s].briefed
      BY <2>1, <2>2, <2>3 DEF NoDrop, TypeOK
    <3>2. Now(s)' = Now(s) /\ Renewing(s)'
      BY <2>2, <2>3 DEF Now, Renewing
    <3> QED BY <3>1, <3>2 DEF RecordStep, Dropped
  <2>4. CASE s # cur
    BY <1>1, <2>1, <2>2, <2>4 DEF Now, Renewing, Promoting, TypeOK
  <2> QED BY <2>3, <2>4
<1>5. CASE UnlinkRaw
  <2>1. /\ pc = "unlinkRaw" /\ pc' = "normalize" /\ UNCHANGED <<ledger, drop>> /\ cur \in Stems
        /\ entries' = [entries EXCEPT ![cur] = Reset(@)]
    BY <1>5 DEF UnlinkRaw, Carried
  <2>2. CASE s = cur
    <3>1. Now(s)'.state = "pending" /\ Now(s)'.attempts = 0
      BY <1>0, <2>1, <2>2 DEF Now, Reset, Entry, TypeOK
    <3>2. Renewing(s) /\ ~Renewing(s)'
      BY <2>1, <2>2 DEF Renewing
    <3> QED BY <2>1, <3>1, <3>2 DEF RecordStep, Renewed
  <2>3. CASE s # cur
    BY <1>1, <2>1, <2>3 DEF Now, Renewing, Promoting, TypeOK
  <2> QED BY <2>2, <2>3
<1>6. CASE JudgeBrief
  <2> DEFINE w == normalized[cur] \in Imperative
  <2>1. /\ pc = "readBrief" /\ pc' \in {"judge", "reject", "publish"}
        /\ UNCHANGED <<ledger, drop>> /\ cur \in Stems
        /\ \/ UNCHANGED entries
           \/ entries' = [entries EXCEPT ![cur] = [Known(@) EXCEPT !.witness = w]]
    BY <1>6 DEF JudgeBrief, Carried
  <2> HIDE DEF w
  <2>2. ~Renewing(s) /\ ~Renewing(s)' /\ ~Promoting(s) /\ Now(s) = entries[s] /\ Now(s)' = entries'[s]
    BY <2>1 DEF Renewing, Promoting, Now
  <2>3. CASE entries'[s] = entries[s]
    BY <1>1, <2>1, <2>2, <2>3 DEF Renewing, Promoting
  <2>4. CASE entries'[s] # entries[s]
    <3>1. entries'[s] = [Known(entries[s]) EXCEPT !.witness = w]
      BY <2>1, <2>4 DEF TypeOK
    <3>2. Judged(s)
      BY <1>0, <2>1, <2>2, <3>1 DEF Judged, Known, Entry
    <3> QED BY <2>2, <3>2 DEF RecordStep
  <2> QED BY <2>3, <2>4
<1>7. CASE RejectBrief
  <2>1. /\ pc = "reject" /\ pc' = "judge" /\ UNCHANGED <<ledger, day>> /\ cur \in Stems
        /\ entries' = [entries EXCEPT ![cur] = Rejected(@)]
        /\ drop' = [drop EXCEPT ![cur].rejections = @ + 1]
    BY <1>7 DEF RejectBrief, Carried
  <2>2. CASE s = cur
    <3>1. entries'[s] = Rejected(entries[s]) /\ drop'[s] = [drop[s] EXCEPT !.rejections = @ + 1]
      BY <2>1, <2>2 DEF TypeOK
    <3>2. ~Renewing(s) /\ ~Renewing(s)' /\ ~Promoting(s) /\ Now(s) = entries[s] /\ Now(s)' = entries'[s]
      BY <2>1 DEF Renewing, Promoting, Now
    <3>3. /\ drop'[s].rejections = drop[s].rejections + 1
          /\ drop'[s].doc = drop[s].doc /\ drop'[s].briefed = drop[s].briefed
      BY <1>0, <3>1 DEF Drop
    <3> DEFINE n == entries[s].attempts + 1
               condemn == n >= MaxAttempts /\ entries[s].state # "condemned"
    <3>4. Known(entries[s]) \in Entry /\ Known(entries[s]).attempts = entries[s].attempts
          /\ Known(entries[s]).condemnedAt = entries[s].condemnedAt
          /\ Known(entries[s]).state = IF entries[s].state = "absent" THEN "pending"
                                                                      ELSE entries[s].state
      BY <1>0, KnownType DEF Known, Entry
    <3>5. /\ entries'[s].attempts = n
          /\ entries'[s].state = IF condemn THEN "condemned"
                                 ELSE IF entries[s].state = "absent" THEN "pending"
                                                                     ELSE entries[s].state
          /\ entries'[s].condemnedAt = IF condemn THEN day ELSE entries[s].condemnedAt
      BY <3>1, <3>4 DEF Rejected, Entry
    <3>6. Refused(s)
      BY <3>2, <3>3, <3>5 DEF Refused
    <3> QED BY <3>2, <3>6 DEF RecordStep
  <2>3. CASE s # cur
    BY <1>1, <2>1, <2>3 DEF Now, Renewing, Promoting, TypeOK
  <2> QED BY <2>2, <2>3
<1>8. CASE PublishBrief
  <2>1. /\ pc = "publish" /\ pc' = "unlinkBrief" /\ UNCHANGED <<entries, ledger, cur>>
        /\ drop' = [drop EXCEPT ![cur].briefed = @ \/ held.excerpt = drop[cur].doc]
        /\ cur \in Stems
    BY <1>8 DEF PublishBrief, Carried
  <2>2. CASE s = cur
    <3>1. drop'[s].doc = drop[s].doc /\ drop'[s].rejections = drop[s].rejections
      BY <1>0, <2>1, <2>2 DEF Drop, TypeOK
    <3>2. drop'[s].briefed
      BY <2>1, <2>2 DEF Sourced
    <3>3. Now(s)' = Now(s) /\ ~Renewing(s) /\ ~Renewing(s)' /\ Promoting(s)'
      BY <2>1, <2>2 DEF Now, Renewing, Promoting
    <3> QED BY <3>1, <3>2, <3>3 DEF RecordStep, Issued
  <2>3. CASE s # cur
    BY <1>1, <2>1, <2>3 DEF Now, Renewing, Promoting, TypeOK
  <2> QED BY <2>2, <2>3
<1>9. CASE UnlinkBrief
  <2>1. PICK st \in Promoted : entries' = [entries EXCEPT ![cur].state = st]
    BY <1>9 DEF UnlinkBrief, Promoted
  <2>2. pc = "unlinkBrief" /\ pc' = "judge" /\ UNCHANGED <<ledger, drop>> /\ cur \in Stems
    BY <1>9 DEF UnlinkBrief, Carried
  <2>3. CASE s = cur
    <3>1. Now(s)'.state \in Promoted /\ Now(s)'.attempts = Now(s).attempts
      BY <1>0, <2>1, <2>2, <2>3 DEF Now, Entry, TypeOK
    <3>2. Promoting(s) /\ ~Renewing(s) /\ ~Renewing(s)' /\ drop[s].briefed
      BY <2>2, <2>3 DEF Promoting, Renewing, Sourced
    <3> QED BY <2>2, <3>1, <3>2 DEF RecordStep, Recorded
  <2>4. CASE s # cur
    BY <1>1, <2>1, <2>2, <2>4 DEF Now, Renewing, Promoting, TypeOK
  <2> QED BY <2>3, <2>4
<1>10. CASE Reap \/ ReapFails
  <2>0. PICK sources, briefsOf \in SUBSET Victims : Delete(sources, briefsOf)
    BY <1>10, Reaps
  <2>1. /\ pc = "judge" /\ pc' = "sweep" /\ UNCHANGED <<ledger, drop>>
        /\ \/ entries'[s] = entries[s]
           \/ /\ entries[s].state = "condemned"
              /\ entries'[s] = [entries[s] EXCEPT !.state = "reaped"]
    BY <2>0, VictimsGiven DEF Delete
  <2>2. ~Renewing(s) /\ ~Renewing(s)' /\ ~Promoting(s) /\ Now(s) = entries[s] /\ Now(s)' = entries'[s]
    BY <2>1 DEF Renewing, Promoting, Now
  <2>3. CASE entries'[s] = entries[s]
    BY <1>1, <2>1, <2>2, <2>3 DEF Renewing, Promoting
  <2>4. CASE entries'[s] # entries[s]
    <3>1. Removed(s)
      BY <1>0, <2>1, <2>2, <2>4 DEF Removed, Entry
    <3> QED BY <2>2, <3>1 DEF RecordStep
  <2> QED BY <2>3, <2>4
<1>11. CASE SaveLedger
  BY <1>1, <1>11 DEF SaveLedger, Exit, Now, Renewing, Promoting
<1>12. ASSUME NEW t \in Stems, \/ StatRaw(t) \/ StatBrief(t)
                               \/ SkipRaw \/ SkipSource \/ RejectUnread
       PROVE  RecordStep(s)
  <2>1. /\ UNCHANGED <<entries, ledger, drop>>
        /\ pc \in {"normalize", "readRaw", "judge", "readBrief"}
        /\ pc' \in {"normalize", "readRaw", "judge", "readBrief", "reject"}
    BY <1>12 DEF StatRaw, StatBrief, SkipRaw, SkipSource, RejectUnread
  <2> QED BY <1>1, <2>1 DEF Now, Renewing, Promoting
<1>13. ASSUME NEW moved \in SUBSET Stems, EndNormalize \/ Archive(moved) \/ WriteManifest
       PROVE  RecordStep(s)
  BY <1>1, <1>13 DEF EndNormalize, Archive, WriteManifest, Now, Renewing, Promoting
<1>14. CASE PromotionFails
  <2>1. "io" \in Faults
    BY <1>14, FaultKind
  <2> QED BY <1>1, <1>14, <2>1 DEF PromotionFails, Now, Renewing, Promoting
<1>15. CASE AgentStep \/ UNCHANGED vars
  <2>1. UNCHANGED <<entries, ledger, drop, pc, cur>>
    BY <1>15 DEF AgentStep, ScoutWrites, RawSettles, CuratorReads, CuratorWrites, BriefSettles,
                 HumanMovesBrief, DayPasses, vars
  <2> QED BY <1>1, <2>1 DEF Now, Renewing, Promoting
<1>16. Sweepable \subseteq Stems
  BY DEF Sweepable, AlreadyBriefed, Present
<1>17. CASE PassStep
  BY <1>2, <1>4, <1>5, <1>6, <1>7, <1>8, <1>9, <1>10, <1>11, <1>12, <1>13, <1>16, <1>17
     DEF PassStep, Sweep
<1>18. CASE FaultStep
  BY <1>3, <1>10, <1>12, <1>13, <1>14, <1>16, <1>18, FaultKind DEF FaultStep, SweepFails
<1> QED BY <1>15, <1>17, <1>18 DEF Next

(***************************************************************************)
(* Unless a pass dies or its ledger is not written: rejections on record   *)
(***************************************************************************)
\* Every attempt on the record of a stem was a rejected brief of its newest
\* drop, and no stem is given up before MaxAttempts of them.
Charged(e, d) ==
  e.attempts <= d.rejections /\ (e.state \in Given => e.attempts >= MaxAttempts)
Counted == \A s \in Stems : ~Renewing(s) => Charged(Now(s), drop[s])

\* A stem condemned before today is so in the file.
Dated ==
  pc \notin {"idle", "down"} =>
    \A s \in Stems : entries[s].state = "condemned" /\ entries[s].condemnedAt < day =>
      /\ ledger.entries[s].state = "condemned"
      /\ ledger.entries[s].condemnedAt = entries[s].condemnedAt

LEMMA CountedNext ==
  ASSUME IInv, Sourced, Sourced', Faults \subseteq {"corrupt", "io"}, Counted, [Next]_vars
  PROVE  Counted'
<1> SUFFICES ASSUME NEW s \in Stems, ~Renewing(s)' PROVE Charged(Now(s), drop[s])'
  BY DEF Counted
<1>1. Now(s) \in Entry /\ Now(s).attempts \in Nat /\ drop[s].rejections \in Nat
  BY DEF IInv, TypeOK, Ledger, Now, Entry, Drop
<1>2. RecordStep(s)
  BY Records
<1>3. CASE Unmoved(s)
  BY <1>3 DEF Unmoved, Counted, Charged, Renewing
<1>4. CASE Forgotten(s)
  BY <1>1, <1>4 DEF Forgotten, NoEntry, Charged, Given
<1>5. CASE Renewed(s)
  BY <1>1, <1>5 DEF Renewed, Charged, Given
<1>6. CASE ~Renewing(s) /\ (Judged(s) \/ Issued(s) \/ Recorded(s) \/ Removed(s))
  BY <1>6 DEF Judged, Issued, Recorded, Removed, Counted, Charged, Given, Promoted
<1>7. CASE ~Renewing(s) /\ Refused(s)
  BY <1>1, <1>7 DEF Refused, Counted, Charged, Given
<1> QED BY <1>2, <1>3, <1>4, <1>5, <1>6, <1>7 DEF RecordStep, Dropped

LEMMA DatedNext ==
  ASSUME IInv, Sourced, Sourced', Faults \subseteq {"corrupt", "io"}, Dated, [Next]_vars
  PROVE  Dated'
<1> USE DEF fileVars, envVars, memVars, passVars
<1> SUFFICES ASSUME pc' \notin {"idle", "down"}, NEW s \in Stems,
                    entries'[s].state = "condemned", entries'[s].condemnedAt < day'
             PROVE  /\ ledger'.entries[s].state = "condemned"
                    /\ ledger'.entries[s].condemnedAt = entries'[s].condemnedAt
  BY DEF Dated
<1>1. CASE pc \in {"idle", "down"}
  <2>1. StartPass \/ StartPassCorrupt
    BY <1>1 DEF Next, PassStep, FaultStep, AgentStep, vars, StatRaw, NormalizeRaw, UnlinkRaw,
                EndNormalize, StatBrief, JudgeBrief, SkipRaw, SkipSource, RejectUnread,
                RejectBrief, PublishBrief, UnlinkBrief, PromotionFails, Reap, ReapFails,
                Delete, Sweep, SweepFails, Archive,
                WriteManifest, SaveLedger, SaveFails, Crash, ScoutWrites, RawSettles,
                CuratorReads, CuratorWrites, BriefSettles, HumanMovesBrief, DayPasses
  <2>2. NoEntries[s].state # "condemned"
    BY DEF NoEntries, NoEntry
  <2> QED BY <2>1, <2>2 DEF StartPass, StartPassCorrupt, Load, EmptyLedger
<1>2. CASE pc \notin {"idle", "down"}
  <2>1. UNCHANGED <<ledger, day>>
    BY <1>2 DEF Next, PassStep, FaultStep, AgentStep, vars, StartPass, StartPassCorrupt, Load,
                StatRaw, NormalizeRaw, UnlinkRaw,
                EndNormalize, StatBrief, JudgeBrief, SkipRaw, SkipSource, RejectUnread,
                RejectBrief, PublishBrief, UnlinkBrief, PromotionFails, Reap, ReapFails,
                Delete, Sweep, SweepFails, Archive,
                WriteManifest, SaveLedger, SaveFails, Crash, Exit, ScoutWrites, RawSettles,
                CuratorReads, CuratorWrites, BriefSettles, HumanMovesBrief, DayPasses
  <2>2. Now(s) = entries[s] /\ Now(s)' = entries'[s] /\ RecordStep(s) /\ day \in Nat
    BY <1>2, Records DEF Now, IInv, TypeOK
  <2>3. entries[s].state = "condemned" /\ entries[s].condemnedAt = entries'[s].condemnedAt
    BY <2>1, <2>2 DEF RecordStep, Unmoved, Forgotten, NoEntry, Dropped, Renewed, Judged, Refused,
                      Issued, Recorded, Removed, Promoted
  <2> QED BY <1>2, <2>1, <2>3 DEF Dated
<1> QED BY <1>1, <1>2

\* What passes leave on the record while their ledger is written every time.
LEMMA CountedAlways ==
  ASSUME Faults \subseteq {"corrupt", "io"} PROVE Spec => [](IInv /\ Sourced /\ Counted /\ Dated)
<1>1. Init => Counted /\ Dated
  BY DEF Init, Counted, Dated, Charged, Now, EmptyLedger, NoEntries, NoEntry, NoDrop, Given
<1>2. IInv /\ Sourced /\ Counted /\ Dated /\ Sourced' /\ [Next]_vars => Counted' /\ Dated'
  BY CountedNext, DatedNext
<1> QED BY <1>1, <1>2, SourcedAlways, PTL DEF Spec

(***************************************************************************)
(* Unless a pass dies or its ledger is not written: the daily reap         *)
(***************************************************************************)
LEMMA ReapStep ==
  ASSUME IInv, Counted, Dated, Faults \subseteq {"corrupt", "io"}, [Next]_vars, NEW s \in Stems,
         normalized[s] # None, normalized'[s] = None, normalized[s] \notin archive'[s]
  PROVE  /\ drop[s].rejections >= MaxAttempts
         /\ ledger.entries[s].state = "condemned"
         /\ ledger.entries[s].condemnedAt < day
<1> USE DEF fileVars, envVars, memVars, passVars
<1>1. ~NormalizeRaw
  <2> SUFFICES ASSUME NormalizeRaw PROVE FALSE
    OBVIOUS
  <2>1. cur \in Stems /\ raw[cur] \in RawFile
    BY DEF NormalizeRaw, IInv, Carried
  <2> DEFINE text == IF raw[cur].settled THEN raw[cur].doc ELSE Partial
  <2>2. text # None /\ normalized' = [normalized EXCEPT ![cur] = text]
    BY <2>1 DEF NormalizeRaw, RawFile
  <2> HIDE DEF text
  <2> QED BY <2>2 DEF IInv, TypeOK
<1>2. ASSUME NEW moved \in SUBSET Stems PROVE ~Archive(moved)
  BY DEF Archive, IInv, TypeOK
<1>3. ASSUME NEW t \in Stems
      PROVE  ~StatRaw(t) /\ ~StatBrief(t)
  BY DEF StatRaw, StatBrief
<1>4. ~StartPass /\ ~StartPassCorrupt /\ ~SkipRaw /\ ~UnlinkRaw /\ ~EndNormalize
      /\ ~SkipSource /\ ~RejectUnread /\ ~JudgeBrief /\ ~RejectBrief /\ ~PublishBrief
      /\ ~UnlinkBrief /\ ~PromotionFails /\ ~WriteManifest /\ ~SaveLedger
  BY DEF StartPass, StartPassCorrupt, Load, SkipRaw, UnlinkRaw, EndNormalize, SkipSource,
         RejectUnread, JudgeBrief, RejectBrief, PublishBrief, UnlinkBrief, PromotionFails,
         WriteManifest, SaveLedger, Exit
<1>5. ~AgentStep /\ ~UNCHANGED vars
  BY DEF AgentStep, ScoutWrites, RawSettles, CuratorReads, CuratorWrites, BriefSettles,
         HumanMovesBrief, DayPasses, vars
<1>6. Sweepable \subseteq Stems
  BY DEF Sweepable, AlreadyBriefed, Present
<1>7. FaultStep => ReapFails
  BY <1>2, <1>4, <1>6, FaultKind DEF FaultStep, SweepFails
<1>8. Reap \/ ReapFails
  BY <1>1, <1>2, <1>3, <1>4, <1>5, <1>6, <1>7 DEF Next, PassStep, Sweep
<1>9. pc = "judge" /\ Reapable(s)
  <2>1. PICK sources, briefsOf \in SUBSET Victims : Delete(sources, briefsOf)
    BY <1>8, Reaps
  <2> QED BY <2>1, VictimsGiven DEF Delete
<1>10. /\ entries[s].attempts \in Nat /\ drop[s].rejections \in Nat
       /\ Charged(entries[s], drop[s]) /\ entries[s].state = "condemned"
  BY <1>9 DEF IInv, TypeOK, Entry, Drop, Counted, Now, Renewing, Reapable
<1>11. drop[s].rejections >= MaxAttempts
  BY <1>10 DEF Charged, Given
<1> QED BY <1>9, <1>11 DEF Dated, Reapable

\* As long as passes end and write their ledgers, even if they sometimes find
\* it unreadable or fail to move a brief, the daily reap deletes a document only
\* after MaxAttempts briefs of that very document were rejected and a day after
\* the ledger's file recorded it as condemned.
THEOREM ReapIsEarned ==
  ASSUME Faults \subseteq {"corrupt", "io"}
  PROVE  Spec => ReapEarned
<1>1. ASSUME IInv, Counted, Dated, [Next]_vars
      PROVE  [\A s \in Stems :
                normalized[s] # None /\ normalized'[s] = None /\ normalized[s] \notin archive'[s]
                  => /\ drop[s].rejections >= MaxAttempts
                     /\ ledger.entries[s].state = "condemned"
                     /\ ledger.entries[s].condemnedAt < day]_vars
  BY <1>1, ReapStep
<1> QED BY <1>1, CountedAlways, PTL DEF Spec, ReapEarned

(***************************************************************************)
(* Unless a pass dies or its ledger is not written: the newest drop        *)
(***************************************************************************)
\* raw/ holds what scout wrote last, and once phase 1 has read it, so does
\* normalized/.
Current ==
  /\ \A s \in Stems : raw[s] # None => raw[s].doc = latest[s]
  /\ pc = "unlinkRaw" /\ cur \notin raced => normalized[cur] = latest[cur]

\* Steps that take no drop out of raw/ or of normalized/.
LEMMA CurrentStays ==
  ASSUME Current, NewestKept, UNCHANGED <<raw, normalized, latest, raced>>,
         \A s \in Stems : /\ archive[s] \subseteq archive'[s]
                          /\ drop[s].rejections >= MaxAttempts
                               => drop'[s].rejections >= MaxAttempts,
         pc' # "unlinkRaw" \/ UNCHANGED <<pc, cur>>
  PROVE  Current' /\ NewestKept'
  BY DEF Current, NewestKept

LEMMA CurrentNext ==
  ASSUME IInv, Faults \subseteq {"corrupt", "io"}, SettleGuard, Counted, Aged, Current,
         NewestKept, [Next]_vars
  PROVE  Current' /\ NewestKept'
<1> USE DEF IInv, fileVars, envVars, memVars, passVars
<1>0. \A s \in Stems : drop[s] \in Drop /\ drop[s].rejections \in Nat
  BY DEF TypeOK, Drop
<1>1. CASE \/ StartPass \/ StartPassCorrupt \/ EndNormalize \/ UnlinkBrief \/ PromotionFails
           \/ WriteManifest \/ SaveLedger
  BY <1>1, CurrentStays DEF StartPass, StartPassCorrupt, Load, EndNormalize, UnlinkBrief,
                            PromotionFails, WriteManifest, SaveLedger, Exit
<1>2. ASSUME \/ \E s \in Stems : StatRaw(s) \/ StatBrief(s)
             \/ JudgeBrief \/ SkipRaw \/ SkipSource \/ RejectUnread
      PROVE  Current' /\ NewestKept'
  <2>1. /\ UNCHANGED <<raw, normalized, latest, raced, archive, drop>>
        /\ pc' \in {"normalize", "readRaw", "judge", "readBrief", "reject", "publish"}
    BY <1>2 DEF StatRaw, StatBrief, JudgeBrief, SkipRaw, SkipSource, RejectUnread
  <2> QED BY <2>1, CurrentStays
<1>3. CASE NormalizeRaw
  <2>1. PICK c \in Stems : c = cur
    BY <1>3 DEF NormalizeRaw, Carried
  <2>2. /\ raw[c] # None /\ (c \notin raced => raw[c].settled)
        /\ UNCHANGED <<raw, latest, raced, archive, cur>>
    BY <1>3, <2>1, FileAssumption DEF NormalizeRaw, Carried, Aged
  <2> DEFINE text == IF raw[c].settled THEN raw[c].doc ELSE Partial
  <2>3. /\ normalized' = [normalized EXCEPT ![c] = text]
        /\ drop' = [drop EXCEPT ![c] = [NoDrop EXCEPT !.doc = text]]
    BY <1>3, <2>1 DEF NormalizeRaw
  <2>4. c \notin raced => text = latest[c]
    BY <2>2 DEF Current
  <2> HIDE DEF text
  <2>5. /\ normalized'[c] = text
        /\ \A s \in Stems : s # c => normalized'[s] = normalized[s] /\ drop'[s] = drop[s]
    BY <2>3 DEF TypeOK
  <2> QED BY <2>1, <2>2, <2>4, <2>5 DEF Current, NewestKept
<1>4. CASE UnlinkRaw
  <2>1. PICK c \in Stems : c = cur
    BY <1>4 DEF UnlinkRaw, Carried
  <2>2. /\ pc = "unlinkRaw" /\ pc' = "normalize"
        /\ UNCHANGED <<normalized, latest, raced, archive, drop>>
        /\ \A s \in Stems : s # c => raw'[s] = raw[s]
        /\ raw'[c] = None
    BY <1>4, <2>1 DEF UnlinkRaw, TypeOK
  <2> QED BY <2>1, <2>2 DEF Current, NewestKept
<1>5. CASE RejectBrief
  <2>1. /\ drop' = [drop EXCEPT ![cur].rejections = @ + 1] /\ pc' = "judge"
        /\ UNCHANGED <<raw, normalized, latest, raced, archive>>
    BY <1>5 DEF RejectBrief
  <2>2. \A s \in Stems : drop[s].rejections >= MaxAttempts => drop'[s].rejections >= MaxAttempts
    BY <1>0, <2>1 DEF Drop, TypeOK
  <2> QED BY <2>1, <2>2, CurrentStays
<1>6. CASE PublishBrief
  <2>1. /\ drop' = [drop EXCEPT ![cur].briefed = @ \/ held.excerpt = drop[cur].doc]
        /\ pc' = "unlinkBrief" /\ UNCHANGED <<raw, normalized, latest, raced, archive>>
    BY <1>6 DEF PublishBrief
  <2>2. \A s \in Stems : drop'[s].rejections = drop[s].rejections
    BY <1>0, <2>1 DEF Drop, TypeOK
  <2> QED BY <2>1, <2>2, CurrentStays
<1>7. CASE Reap \/ ReapFails
  <2>0. PICK sources, briefsOf \in SUBSET Victims : Delete(sources, briefsOf)
    BY <1>7, Reaps
  <2>1. /\ pc = "judge" /\ pc' = "sweep" /\ UNCHANGED <<raw, latest, raced, archive, drop>>
        /\ \A s \in Stems : entries[s].state # "condemned" => normalized'[s] = normalized[s]
    BY <2>0, VictimsGiven DEF Delete
  <2>2. \A s \in Stems : entries[s].state = "condemned" => drop[s].rejections >= MaxAttempts
    <3> SUFFICES ASSUME NEW s \in Stems, entries[s].state = "condemned"
                 PROVE  drop[s].rejections >= MaxAttempts
      OBVIOUS
    <3>1. Charged(entries[s], drop[s]) /\ entries[s].attempts \in Nat
      BY <2>1 DEF Counted, Now, Renewing, TypeOK, Entry
    <3> QED BY <1>0, <3>1 DEF Charged, Given
  <2> QED BY <2>1, <2>2 DEF Current, NewestKept
<1>8. ASSUME NEW moved \in SUBSET Stems, Archive(moved) PROVE Current' /\ NewestKept'
  <2>1. /\ pc' = "manifest" /\ UNCHANGED <<raw, latest, raced, drop>>
        /\ \A s \in Stems : \/ normalized'[s] = normalized[s] /\ archive'[s] = archive[s]
                            \/ archive'[s] = archive[s] \cup {normalized[s]}
    BY <1>8 DEF Archive
  <2> QED BY <2>1 DEF Current, NewestKept
<1>9. ASSUME NEW s \in Stems, NEW d \in Docs, ScoutWrites(s, d) PROVE Current' /\ NewestKept'
  <2> DEFINE new == [doc |-> d, settled |-> FALSE]
  <2>1. /\ raw' = [raw EXCEPT ![s] = new] /\ latest' = [latest EXCEPT ![s] = d]
        /\ UNCHANGED <<normalized, archive, drop, pc, cur>> /\ raced \subseteq raced'
        /\ pc = "unlinkRaw" /\ cur = s => s \in raced'
    BY <1>9 DEF ScoutWrites
  <2>2. new.doc = d /\ new \in RawFile
    BY DEF RawFile
  <2> HIDE DEF new
  <2>3. /\ raw'[s] = new /\ latest'[s] = d
        /\ \A t \in Stems : t # s => raw'[t] = raw[t] /\ latest'[t] = latest[t]
    BY <2>1 DEF TypeOK
  <2>4. pc = "unlinkRaw" => cur \in Stems
    BY DEF Carried
  <2> QED BY <2>1, <2>2, <2>3, <2>4, FileAssumption DEF Current, NewestKept
<1>10. ASSUME NEW s \in Stems, RawSettles(s) PROVE Current' /\ NewestKept'
  <2>1. /\ raw' = [raw EXCEPT ![s].settled = TRUE] /\ raw[s] \in RawFile
        /\ UNCHANGED <<normalized, archive, latest, raced, drop, pc, cur>>
    BY <1>10 DEF RawSettles, TypeOK
  <2>2. /\ raw'[s].doc = raw[s].doc /\ raw'[s] \in RawFile
        /\ \A t \in Stems : t # s => raw'[t] = raw[t]
    BY <2>1 DEF RawFile, TypeOK
  <2>3. \A t \in Stems : raw'[t].doc = raw[t].doc /\ (raw'[t] = None <=> raw[t] = None)
    BY <2>1, <2>2, FileAssumption
  <2>4. Current'
    BY <2>1, <2>3 DEF Current
  <2>5. NewestKept'
    BY <2>1, <2>3 DEF NewestKept
  <2> QED BY <2>4, <2>5
<1>11. ASSUME NEW s \in Stems, NEW flag \in BOOLEAN, NEW valid \in BOOLEAN,
              CuratorReads(s) \/ CuratorWrites(s, flag, valid) \/ BriefSettles(s)
                \/ HumanMovesBrief(s)
       PROVE  Current' /\ NewestKept'
  BY <1>11, CurrentStays DEF CuratorReads, CuratorWrites, BriefSettles, HumanMovesBrief
<1>12. CASE DayPasses \/ UNCHANGED vars
  BY <1>12, CurrentStays DEF DayPasses, vars
<1>13. CASE AgentStep
  BY <1>9, <1>10, <1>11, <1>12, <1>13 DEF AgentStep
<1>14. Sweepable \subseteq Stems
  BY DEF Sweepable, AlreadyBriefed, Present
<1>15. CASE PassStep
  BY <1>1, <1>2, <1>3, <1>4, <1>5, <1>6, <1>7, <1>8, <1>14, <1>15 DEF PassStep, Sweep
<1>16. CASE FaultStep
  BY <1>1, <1>2, <1>7, <1>8, <1>14, <1>16, FaultKind DEF FaultStep, SweepFails
<1> QED BY <1>12, <1>13, <1>15, <1>16 DEF Next

\* As long as passes end and write their ledgers, and with the settle guard,
\* the newest document scout dropped is never lost, unless scout rewrote it in
\* the instants between the pass's look at its age and its unlink.
THEOREM NewestIsKept ==
  ASSUME Faults \subseteq {"corrupt", "io"}, SettleGuard
  PROVE  Spec => []NewestKept
<1>1. Init => Aged /\ NoTruncation /\ Current /\ NewestKept
  BY DEF Init, Aged, NoTruncation, Current, NewestKept
<1>2. IInv /\ Counted /\ Aged /\ NoTruncation /\ Current /\ NewestKept /\ [Next]_vars
        => Aged' /\ NoTruncation' /\ Current' /\ NewestKept'
  BY AgedNext, CurrentNext
<1> QED BY <1>1, <1>2, CountedAlways, PTL DEF Spec

(***************************************************************************)
(* Unless a pass dies or a promotion or a sweep fails: sources of briefs   *)
(***************************************************************************)
\* This pass has published a brief of s and will archive its source.
Going(s) ==
  \/ Promoting(s)
  \/ /\ pc \in {"judge", "readBrief", "reject", "publish", "unlinkBrief", "sweep"}
     /\ entries[s].state \in Promoted /\ s \notin work
     /\ pc \in {"readBrief", "reject", "publish", "unlinkBrief"} => cur # s

Lies(brief, s) ==
  brief # None =>
    brief.excerpt \in archive[s] \/ (Going(s) /\ normalized[s] = brief.excerpt)

Kept == \A s \in Stems : Lies(briefs[s], s) /\ Lies(flagged[s], s)

LEMMA KeptStays ==
  ASSUME Kept, UNCHANGED archive,
         \A s \in Stems : /\ Going(s) => Going(s)' /\ normalized'[s] = normalized[s]
                          /\ briefs'[s] \in {briefs[s], None}
                          /\ flagged'[s] \in {flagged[s], None}
  PROVE  Kept'
  BY DEF Kept, Lies

LEMMA KeptNext ==
  ASSUME IInv, Faults \subseteq {"corrupt", "unsaved"}, Sourced, Kept, [Next]_vars
  PROVE  Kept'
<1> USE DEF IInv, fileVars, envVars, memVars, passVars
<1>1. ASSUME UNCHANGED <<archive, briefs, flagged>>,
             pc \notin {"judge", "readBrief", "reject", "publish", "unlinkBrief", "sweep"}
      PROVE  Kept'
  BY <1>1, KeptStays DEF Going, Promoting
<1>2. CASE StartPass \/ StartPassCorrupt \/ NormalizeRaw \/ UnlinkRaw \/ EndNormalize
  BY <1>1, <1>2 DEF StartPass, StartPassCorrupt, Load, NormalizeRaw, UnlinkRaw, EndNormalize
<1>3. CASE WriteManifest \/ SaveLedger \/ SaveFails
  BY <1>1, <1>3 DEF WriteManifest, SaveLedger, SaveFails, Exit
<1>4. ASSUME NEW s \in Stems, StatRaw(s) PROVE Kept'
  BY <1>1, <1>4 DEF StatRaw
<1>5. ASSUME NEW s \in Stems, StatBrief(s) PROVE Kept'
  <2>1. /\ pc = "judge" /\ s \in work /\ work' = work \ {s}
        /\ UNCHANGED <<archive, normalized, briefs, flagged, entries>>
        /\ pc' = "judge" \/ (pc' = "readBrief" /\ cur' = s)
    BY <1>5 DEF StatBrief
  <2>2. \A t \in Stems : Going(t) => Going(t)'
    BY <2>1 DEF Going, Promoting
  <2> QED BY <2>1, <2>2, KeptStays
<1>6. CASE JudgeBrief
  <2> DEFINE w == normalized[cur] \in Imperative
  <2>1. UNCHANGED entries \/ entries' = [entries EXCEPT ![cur] = [Known(@) EXCEPT !.witness = w]]
    BY <1>6 DEF JudgeBrief
  <2> HIDE DEF w
  <2>2. \A t \in Stems : t # cur => entries'[t] = entries[t]
    BY <2>1 DEF TypeOK
  <2>3. /\ pc = "readBrief" /\ UNCHANGED <<archive, normalized, briefs, flagged, work>>
        /\ pc' = "judge" \/ (pc' \in {"reject", "publish"} /\ cur' = cur)
    BY <1>6 DEF JudgeBrief
  <2>4. \A t \in Stems : Going(t) => Going(t)'
    BY <2>2, <2>3 DEF Going, Promoting
  <2> QED BY <2>3, <2>4, KeptStays
<1>7. CASE RejectBrief
  <2>1. /\ pc = "reject" /\ pc' = "judge" /\ UNCHANGED <<archive, normalized, briefs, flagged, work>>
        /\ \A t \in Stems : t # cur => entries'[t] = entries[t]
    BY <1>7 DEF RejectBrief, TypeOK
  <2>2. \A t \in Stems : Going(t) => Going(t)'
    BY <2>1 DEF Going, Promoting
  <2> QED BY <2>1, <2>2, KeptStays
<1>8. CASE PublishBrief
  <2>1. PICK c \in Stems : c = cur
    BY <1>8 DEF PublishBrief, Carried
  <2>2. /\ pc = "publish" /\ pc' = "unlinkBrief"
        /\ UNCHANGED <<archive, normalized, entries, work, cur>>
        /\ held.excerpt = normalized[c]
        /\ \A t \in Stems : /\ briefs'[t] = briefs[t] \/ (t = c /\ briefs'[t] = held)
                            /\ flagged'[t] = flagged[t] \/ (t = c /\ flagged'[t] = held)
    BY <1>8, <2>1 DEF PublishBrief, Sourced, TypeOK
  <2>3. \A t \in Stems : Going(t) => Going(t)'
    BY <2>2 DEF Going, Promoting
  <2>4. Going(c)'
    BY <2>1, <2>2 DEF Going, Promoting
  <2> QED BY <2>2, <2>3, <2>4 DEF Kept, Lies
<1>9. CASE UnlinkBrief
  <2>1. PICK c \in Stems : c = cur
    BY <1>9 DEF UnlinkBrief, Carried
  <2>2. PICK st \in Promoted : entries' = [entries EXCEPT ![c].state = st]
    BY <1>9, <2>1 DEF UnlinkBrief, Promoted
  <2>3. /\ pc = "unlinkBrief" /\ pc' = "judge" /\ c \notin work
        /\ UNCHANGED <<archive, normalized, briefs, flagged, work>>
    BY <1>9, <2>1 DEF UnlinkBrief, Sourced
  <2>4. entries'[c].state \in Promoted /\ \A t \in Stems : t # c => entries'[t] = entries[t]
    BY <2>2 DEF TypeOK, Entry
  <2>5. \A t \in Stems : Going(t) => Going(t)'
    BY <2>1, <2>3, <2>4 DEF Going, Promoting
  <2> QED BY <2>3, <2>5, KeptStays
<1>10. CASE Reap
  <2>1. /\ pc = "judge" /\ pc' = "sweep" /\ UNCHANGED <<archive, briefs, flagged, work>>
        /\ \A t \in Stems : entries[t].state # "condemned" =>
             entries'[t] = entries[t] /\ normalized'[t] = normalized[t]
    BY <1>10, VictimsGiven DEF Reap, Delete
  <2>2. \A t \in Stems : Going(t) => Going(t)' /\ normalized'[t] = normalized[t]
    BY <2>1 DEF Going, Promoting, Promoted
  <2> QED BY <2>1, <2>2, KeptStays
<1>11. CASE Sweep
  <2>1. /\ pc = "sweep" /\ UNCHANGED <<briefs, flagged>>
        /\ archive' = [t \in Stems |-> IF t \in Sweepable THEN archive[t] \cup {normalized[t]}
                                                           ELSE archive[t]]
    BY <1>11 DEF Sweep, Archive
  <2>2. ASSUME NEW t \in Stems, NEW brief \in {briefs[t], flagged[t]}, brief # None
        PROVE  brief.excerpt \in archive'[t]
    <3>1. CASE brief.excerpt \in archive[t]
      BY <2>1, <3>1
    <3>2. CASE brief.excerpt \notin archive[t]
      <4>1. Going(t) /\ normalized[t] = brief.excerpt
        BY <2>2, <3>2 DEF Kept, Lies
      <4>2. normalized[t] # None
        BY <2>2, <4>1 DEF TypeOK, PublishedBrief, Texts
      <4>3. t \in Sweepable
        BY <2>1, <2>2, <4>1, <4>2
           DEF Going, Promoting, Promoted, Sweepable, AlreadyBriefed, Published
      <4> QED BY <2>1, <4>1, <4>3
    <3> QED BY <3>1, <3>2
  <2> QED BY <2>1, <2>2 DEF Kept, Lies
<1>12. CASE AgentStep \/ UNCHANGED vars
  <2>1. /\ UNCHANGED <<archive, normalized, flagged, pc, cur, entries, work>>
        /\ \A t \in Stems : briefs'[t] \in {briefs[t], None}
    BY <1>12 DEF AgentStep, ScoutWrites, RawSettles, CuratorReads, CuratorWrites, BriefSettles,
                 HumanMovesBrief, DayPasses, vars, TypeOK
  <2>2. \A t \in Stems : Going(t) => Going(t)'
    BY <2>1 DEF Going, Promoting
  <2> QED BY <2>1, <2>2, KeptStays
<1>13. CASE PassStep
  BY <1>2, <1>3, <1>4, <1>5, <1>6, <1>7, <1>8, <1>9, <1>10, <1>11, <1>13 DEF PassStep
<1>14. CASE FaultStep
  BY <1>2, <1>3, <1>14, FaultKind DEF FaultStep
<1> QED BY <1>12, <1>13, <1>14 DEF Next

\* As long as no pass dies and the directories can be written, even if the
\* ledger is lost or not written, the document a published brief quotes stays in
\* normalized/ or in its archive: phase 1 never replaces it before phase 4 has
\* swept it.
THEOREM EvidenceIsKept ==
  ASSUME Faults \subseteq {"corrupt", "unsaved"}
  PROVE  Spec => []EvidenceKept
<1>1. Init => Kept
  BY DEF Init, Kept, Lies
<1>2. Kept => EvidenceKept
  BY DEF Kept, Lies, EvidenceKept
<1> QED BY <1>1, <1>2, KeptNext, SourcedAlways, PTL DEF Spec

(***************************************************************************)
(* Unless a pass dies or the ledger is lost or not written: the list       *)
(***************************************************************************)
\* A record agrees with what happened to the newest drop of its stem.
Agrees(e, d) ==
  /\ e.attempts = d.rejections
  /\ e.state \in Given => e.attempts >= MaxAttempts
  /\ e.attempts >= MaxAttempts => e.state \in Given \cup Promoted
  /\ d.doc # None => e.state # "absent"
  /\ e.state \in Promoted => d.briefed

Booked ==
  \A s \in Stems :
    IF Renewing(s) THEN drop[s].rejections = 0 /\ ~drop[s].briefed /\ drop[s].doc # None
                   ELSE Agrees(Now(s), drop[s])

LEMMA BookedNext ==
  ASSUME IInv, Sourced, Sourced', Faults \subseteq {"io"}, Booked, [Next]_vars
  PROVE  Booked'
<1> SUFFICES ASSUME NEW s \in Stems
             PROVE  IF Renewing(s)'
                      THEN drop'[s].rejections = 0 /\ ~drop'[s].briefed /\ drop'[s].doc # None
                      ELSE Agrees(Now(s), drop[s])'
  BY DEF Booked
<1>1. Now(s) \in Entry /\ Now(s).attempts \in Nat /\ drop[s].rejections \in Nat
  BY DEF IInv, TypeOK, Ledger, Now, Entry, Drop
<1>2. RecordStep(s) /\ ~Forgotten(s)
  BY Records DEF Forgotten
<1>3. CASE Unmoved(s)
  BY <1>3 DEF Unmoved, Booked, Agrees, Renewing
<1>4. CASE Dropped(s)
  BY <1>4 DEF Dropped
<1>5. CASE Renewed(s) /\ ~Renewing(s)'
  BY <1>1, <1>5 DEF Renewed, Booked, Agrees, Given, Promoted
<1>6. CASE ~Renewing(s) /\ ~Renewing(s)' /\ (Judged(s) \/ Issued(s) \/ Recorded(s) \/ Removed(s))
  <2>1. Agrees(Now(s), drop[s])
    BY <1>6 DEF Booked
  <2> QED BY <1>6, <2>1 DEF Judged, Issued, Recorded, Removed, Agrees, Given, Promoted
<1>7. CASE ~Renewing(s) /\ ~Renewing(s)' /\ Refused(s)
  <2>1. Agrees(Now(s), drop[s])
    BY <1>7 DEF Booked
  <2> QED BY <1>1, <1>7, <2>1 DEF Refused, Agrees, Given, Promoted
<1> QED BY <1>2, <1>3, <1>4, <1>5, <1>6, <1>7 DEF RecordStep

\* A drop nobody has rejected or briefed is in normalized/, unless a brief of
\* its stem is already waiting to be judged.
Untouched(d) == d.doc # None /\ d.rejections = 0 /\ ~d.briefed
Fresh ==
  \A s \in Stems : Untouched(drop[s]) => normalized[s] = drop[s].doc \/ pending[s] # None

\* What the sweep made of `briefed', until the manifest is written from it ...
Swept ==
  pc = "manifest" => \A s \in Stems :
    /\ entries[s].state \in Promoted => s \in briefed
    /\ s \in briefed => pending[s] # None \/ entries[s].state \in Promoted \cup {"absent"}

\* ... and the manifest, until the next pass.
Listed ==
  pc \in {"save", "idle"} => \A s \in Stems :
    Untouched(drop[s]) /\ pending[s] = None => normalized[s] = drop[s].doc /\ s \in manifest

\* Steps that leave the normalized documents and their fates alone.
LEMMA FreshStays ==
  ASSUME Fresh, Swept, Listed, UNCHANGED <<normalized, drop>>,
         \A s \in Stems : pending[s] # None => pending'[s] # None,
         \/ UNCHANGED <<entries, briefed, manifest, pc>>
         \/ pc' \notin {"manifest", "save", "idle"}
  PROVE  Fresh' /\ Swept' /\ Listed'
  BY DEF Fresh, Swept, Listed, Untouched

LEMMA FreshNext ==
  ASSUME IInv, Faults \subseteq {"io"}, Booked, Sourced, Fresh, Swept, Listed, [Next]_vars
  PROVE  Fresh' /\ Swept' /\ Listed'
<1> USE DEF IInv, fileVars, envVars, memVars, passVars
<1>0. \A s \in Stems : drop[s] \in Drop /\ entries[s] \in Entry
  BY DEF TypeOK
<1>1. CASE StartPass
  BY <1>1, FreshStays DEF StartPass, Load
<1>2. CASE NormalizeRaw
  <2>1. PICK c \in Stems : c = cur
    BY <1>2 DEF NormalizeRaw, Carried
  <2> DEFINE text == IF raw[c].settled THEN raw[c].doc ELSE Partial
  <2>2. /\ normalized' = [normalized EXCEPT ![c] = text]
        /\ drop' = [drop EXCEPT ![c] = [NoDrop EXCEPT !.doc = text]]
        /\ pc' = "unlinkRaw" /\ UNCHANGED pending
    BY <1>2, <2>1 DEF NormalizeRaw
  <2> HIDE DEF text
  <2>3. /\ normalized'[c] = text /\ drop'[c].doc = text
        /\ \A s \in Stems : s # c => normalized'[s] = normalized[s] /\ drop'[s] = drop[s]
    BY <2>2 DEF NoDrop, TypeOK
  <2> QED BY <2>2, <2>3 DEF Fresh, Swept, Listed
<1>3. CASE UnlinkRaw \/ EndNormalize \/ PromotionFails
  BY <1>3, FreshStays DEF UnlinkRaw, EndNormalize, PromotionFails
<1>4. ASSUME \/ \E s \in Stems : StatRaw(s) \/ StatBrief(s)
             \/ JudgeBrief \/ SkipRaw \/ SkipSource \/ RejectUnread
      PROVE  Fresh' /\ Swept' /\ Listed'
  <2>1. /\ UNCHANGED <<normalized, drop, pending>>
        /\ pc' \in {"normalize", "readRaw", "judge", "readBrief", "reject", "publish"}
    BY <1>4 DEF StatRaw, StatBrief, JudgeBrief, SkipRaw, SkipSource, RejectUnread
  <2> QED BY <2>1, FreshStays
<1>5. CASE RejectBrief
  <2>1. PICK c \in Stems : c = cur
    BY <1>5 DEF RejectBrief, Carried
  <2>2. /\ pc' = "judge" /\ UNCHANGED normalized
        /\ drop' = [drop EXCEPT ![c].rejections = @ + 1]
        /\ pending' = [pending EXCEPT ![c] = None]
    BY <1>5, <2>1 DEF RejectBrief
  <2>3. /\ drop'[c].rejections # 0
        /\ \A s \in Stems : s # c => drop'[s] = drop[s] /\ pending'[s] = pending[s]
    BY <1>0, <2>2 DEF Drop, TypeOK
  <2> QED BY <2>2, <2>3 DEF Fresh, Swept, Listed, Untouched
<1>6. CASE PublishBrief
  <2>1. /\ pc' = "unlinkBrief" /\ UNCHANGED <<normalized, pending>>
        /\ drop' = [drop EXCEPT ![cur].briefed = @ \/ held.excerpt = drop[cur].doc]
    BY <1>6 DEF PublishBrief
  <2>2. \A s \in Stems : /\ drop'[s].doc = drop[s].doc
                         /\ drop'[s].rejections = drop[s].rejections
                         /\ ~drop'[s].briefed => ~drop[s].briefed
    BY <1>0, <2>1 DEF Drop, TypeOK
  <2> QED BY <2>1, <2>2 DEF Fresh, Swept, Listed, Untouched
<1>7. CASE UnlinkBrief
  <2>1. PICK c \in Stems : c = cur
    BY <1>7 DEF UnlinkBrief, Carried
  <2>2. /\ pc = "unlinkBrief" /\ pc' = "judge" /\ UNCHANGED <<normalized, drop>>
        /\ \A s \in Stems : s # c => pending'[s] = pending[s]
    BY <1>7, <2>1 DEF UnlinkBrief, TypeOK
  <2>3. drop[c].briefed
    BY <2>1, <2>2 DEF Sourced
  <2> QED BY <2>2, <2>3 DEF Fresh, Swept, Listed, Untouched
<1>8. CASE Reap \/ ReapFails
  <2>0. PICK sources, briefsOf \in SUBSET Victims : Delete(sources, briefsOf)
    BY <1>8, Reaps
  <2>1. /\ pc = "judge" /\ pc' = "sweep" /\ UNCHANGED <<drop, pending>>
        /\ \A s \in Stems : entries[s].state # "condemned" => normalized'[s] = normalized[s]
    BY <2>0, VictimsGiven DEF Delete
  <2>2. \A s \in Stems : entries[s].state = "condemned" => drop[s].rejections >= MaxAttempts
    BY <2>1 DEF Booked, Now, Renewing, Agrees, Given
  <2>3. \A s \in Stems : entries[s].state = "condemned" => ~Untouched(drop[s])
    BY <1>0, <2>2 DEF Untouched, Drop
  <2> QED BY <2>1, <2>3 DEF Fresh, Swept, Listed
<1>9. ASSUME NEW moved \in SUBSET Sweepable, Archive(moved) PROVE Fresh' /\ Swept' /\ Listed'
  <2>1. /\ pc = "sweep" /\ pc' = "manifest" /\ UNCHANGED <<drop, pending, entries>>
        /\ briefed' = AlreadyBriefed
        /\ normalized' = [s \in Stems |-> IF s \in moved THEN None ELSE normalized[s]]
    BY <1>9 DEF Archive
  <2>2. \A s \in Stems : /\ entries[s].state \in Promoted => drop[s].briefed
                         /\ entries[s].state = "absent" => drop[s].doc = None
    BY <2>1 DEF Booked, Now, Renewing, Agrees
  <2>3. \A s \in AlreadyBriefed :
          pending[s] # None \/ entries[s].state \in Promoted \cup {"absent"}
    BY DEF AlreadyBriefed, Present, Promoted
  <2>4. \A s \in Stems : entries[s].state \in Promoted => s \in AlreadyBriefed
    BY DEF AlreadyBriefed, Promoted
  <2>5. Swept' /\ Listed'
    BY <2>1, <2>3, <2>4 DEF Swept, Listed
  <2>6. Sweepable \subseteq AlreadyBriefed
    BY DEF Sweepable
  <2>7. Fresh'
    BY <2>1, <2>2, <2>3, <2>6 DEF Fresh, Untouched
  <2> QED BY <2>5, <2>7
<1>10. CASE WriteManifest
  <2>1. /\ pc = "manifest" /\ pc' = "save" /\ UNCHANGED <<normalized, drop, pending, entries>>
        /\ manifest' = {s \in Stems : Outstanding(s)}
    BY <1>10 DEF WriteManifest
  <2>2. ASSUME NEW s \in Stems, Untouched(drop[s]), pending[s] = None
        PROVE  normalized[s] = drop[s].doc /\ Outstanding(s)
    <3>1. Agrees(entries[s], drop[s]) /\ drop[s].rejections \in Nat
      BY <1>0, <2>1 DEF Booked, Now, Renewing, Drop
    <3>2. entries[s].state \notin Given \cup Promoted \cup {"absent"}
      BY <2>2, <3>1 DEF Agrees, Untouched
    <3>3. s \notin briefed
      BY <2>1, <2>2, <3>2 DEF Swept
    <3> QED BY <2>2, <3>2, <3>3 DEF Fresh, Outstanding, Untouched, Given
  <2>3. Listed'
    BY <2>1, <2>2 DEF Listed
  <2> QED BY <2>1, <2>3 DEF Fresh, Swept
<1>11. CASE SaveLedger
  BY <1>11 DEF SaveLedger, Exit, Fresh, Swept, Listed
<1>12. CASE AgentStep \/ UNCHANGED vars
  <2>1. UNCHANGED <<normalized, drop, entries, briefed, manifest, pc>>
    BY <1>12 DEF AgentStep, ScoutWrites, RawSettles, CuratorReads, CuratorWrites, BriefSettles,
                 HumanMovesBrief, DayPasses, vars
  <2>2. ASSUME NEW s \in Stems, pending[s] # None PROVE pending'[s] # None
    <3>1. ASSUME NEW t \in Stems, BriefSettles(t) PROVE pending'[s] # None
      <4>1. pending' = [pending EXCEPT ![t].settled = TRUE] /\ pending[s] \in PendingBrief
        BY <2>2, <3>1 DEF BriefSettles, TypeOK
      <4>2. pending'[s] \in PendingBrief
        BY <4>1 DEF PendingBrief, TypeOK
      <4> QED BY <4>2, FileAssumption
    <3>2. ASSUME NEW t \in Stems, NEW flag \in BOOLEAN, NEW valid \in BOOLEAN,
                 CuratorWrites(t, flag, valid)
          PROVE  pending'[s] # None
      <4> DEFINE new == [sha |-> reading[t], flag |-> flag, valid |-> valid, settled |-> FALSE]
      <4>1. pending' = [pending EXCEPT ![t] = new] /\ new \in PendingBrief
        BY <3>2 DEF CuratorWrites, TypeOK, PendingBrief
      <4> HIDE DEF new
      <4> QED BY <2>2, <4>1, FileAssumption DEF TypeOK
    <3>3. (\E t \in Stems : ScoutWrites(t, latest'[t]) \/ RawSettles(t) \/ CuratorReads(t)
                              \/ HumanMovesBrief(t))
             \/ DayPasses \/ UNCHANGED vars
           => pending' = pending
      BY DEF ScoutWrites, RawSettles, CuratorReads, HumanMovesBrief, DayPasses, vars
    <3>4. ASSUME NEW t \in Stems, NEW d \in Docs, ScoutWrites(t, d) PROVE pending' = pending
      BY <3>4 DEF ScoutWrites
    <3> QED BY <1>12, <2>2, <3>1, <3>2, <3>3, <3>4 DEF AgentStep
  <2> QED BY <2>1, <2>2, FreshStays
<1>13. CASE PassStep
  BY <1>1, <1>2, <1>3, <1>4, <1>5, <1>6, <1>7, <1>8, <1>9, <1>10, <1>11, <1>13
     DEF PassStep, Sweep
<1>14. CASE FaultStep
  BY <1>3, <1>4, <1>8, <1>9, <1>14, FaultKind DEF FaultStep, SweepFails
<1> QED BY <1>12, <1>13, <1>14 DEF Next

\* The curator's list and what it rests on.
Sound == Booked /\ Fresh /\ Swept /\ Listed

LEMMA SoundAlways ==
  ASSUME Faults \subseteq {"io"} PROVE Spec => [](IInv /\ Sourced /\ Sound)
<1>1. Init => Booked
  BY DEF Init, Booked, Now, Renewing, Agrees, EmptyLedger, NoEntries, NoEntry, NoDrop, Given,
         Promoted
<1>2. Init => Fresh /\ Swept /\ Listed
  BY DEF Init, Fresh, Swept, Listed, Untouched, NoDrop
<1>3. IInv /\ Sourced /\ Sound /\ Sourced' /\ [Next]_vars => Sound'
  BY BookedNext, FreshNext DEF Sound
<1> QED BY <1>1, <1>2, <1>3, SourcedAlways, PTL DEF Spec, Sound

\* As long as no pass dies and the ledger is read and written, even if a brief
\* or a source could not be moved, a fetch of any stem, whatever became of its
\* earlier fetches, is on the curator's list when the pass ends, unless a brief
\* of it is waiting already.
THEOREM NewWorkIsListed ==
  ASSUME Faults \subseteq {"io"}
  PROVE  Spec => []FreshDropListed
<1>1. Listed => FreshDropListed
  BY DEF Listed, Untouched, FreshDropListed
<1> QED BY <1>1, SoundAlways, PTL DEF Sound

(***************************************************************************)
(* Passes without a fault: nothing is asked twice                          *)
(***************************************************************************)
\* Whoever has been briefed is so on the record, or was given up.
Answered ==
  \A s \in Stems :
    drop[s].briefed /\ ~Promoting(s) => Now(s).state \in Given \cup Promoted

\* Nothing on the curator's list has been briefed or has used up its attempts.
Spared ==
  pc \in {"save", "idle"} =>
    \A s \in manifest : drop[s].rejections < MaxAttempts /\ ~drop[s].briefed

LEMMA AnsweredNext ==
  ASSUME IInv, Sourced, Sourced', Faults = {}, Booked, Answered, [Next]_vars
  PROVE  Answered'
<1> SUFFICES ASSUME NEW s \in Stems, drop'[s].briefed, ~Promoting(s)'
             PROVE  Now(s)'.state \in Given \cup Promoted
  BY DEF Answered
<1>1. RecordStep(s)
  BY Records
<1>2. ~Dropped(s) /\ ~Issued(s) /\ ~Forgotten(s) /\ ~Renewed(s)
  BY DEF Dropped, Issued, Forgotten, Renewed, Booked
<1>3. CASE Unmoved(s)
  BY <1>3 DEF Unmoved, Answered
<1>4. CASE Judged(s) \/ Refused(s)
  BY <1>4 DEF Judged, Refused, Answered, Given, Promoted
<1>5. CASE Recorded(s) \/ Removed(s)
  BY <1>5 DEF Recorded, Removed, Given
<1> QED BY <1>1, <1>2, <1>3, <1>4, <1>5 DEF RecordStep

LEMMA SparedNext ==
  ASSUME IInv, Sourced, Faults = {}, Sound, Answered, Spared, [Next]_vars
  PROVE  Spared'
<1> USE DEF fileVars, envVars, memVars, passVars
<1>1. CASE WriteManifest
  <2>1. /\ pc = "manifest" /\ pc' = "save" /\ UNCHANGED <<drop, entries>>
        /\ manifest' = {s \in Stems : Outstanding(s)}
    BY <1>1 DEF WriteManifest
  <2>2. ASSUME NEW s \in Stems, Outstanding(s)
        PROVE  drop[s].rejections < MaxAttempts /\ ~drop[s].briefed
    <3>1. Agrees(entries[s], drop[s]) /\ drop[s].rejections \in Nat
      BY <2>1 DEF IInv, TypeOK, Sound, Booked, Now, Renewing, Drop
    <3>2. drop[s].briefed => entries[s].state \in Given \cup Promoted
      BY <2>1 DEF Answered, Now, Promoting
    <3>3. entries[s].state \notin Given \cup Promoted
      BY <2>1, <2>2 DEF Outstanding, Sound, Swept, Given
    <3> QED BY <3>1, <3>2, <3>3 DEF Agrees
  <2> QED BY <2>1, <2>2 DEF Spared
<1>2. CASE SaveLedger
  BY <1>2 DEF SaveLedger, Exit, Spared
<1>3. ASSUME (\E s \in Stems : StatRaw(s) \/ StatBrief(s)) \/ JudgeBrief PROVE Spared'
  <2>1. pc' \notin {"save", "idle"}
    BY <1>3 DEF StatRaw, StatBrief, JudgeBrief
  <2> QED BY <2>1 DEF Spared
<1>4. CASE StartPass \/ NormalizeRaw \/ UnlinkRaw \/ EndNormalize
  BY <1>4 DEF StartPass, Load, NormalizeRaw, UnlinkRaw, EndNormalize, Spared
<1>5. CASE RejectBrief \/ PublishBrief \/ UnlinkBrief \/ Reap \/ Sweep
  BY <1>5 DEF RejectBrief, PublishBrief, UnlinkBrief, Reap, Delete, Sweep, Archive,
              Spared
<1>6. CASE AgentStep \/ UNCHANGED vars
  <2>1. UNCHANGED <<drop, manifest, pc>>
    BY <1>6 DEF AgentStep, ScoutWrites, RawSettles, CuratorReads, CuratorWrites, BriefSettles,
                HumanMovesBrief, DayPasses, vars
  <2> QED BY <2>1 DEF Spared
<1>7. ~FaultStep
  BY FaultKind DEF FaultStep
<1> QED BY <1>1, <1>2, <1>3, <1>4, <1>5, <1>6, <1>7 DEF Next, PassStep

\* In passes without a fault, the curator is never asked again for a document
\* it has briefed or one that has used up its attempts.
THEOREM NoWorkIsRepeated == ASSUME Faults = {} PROVE Spec => []ManifestIsWork
<1>1. Init => Answered /\ Spared
  BY DEF Init, Answered, Spared, NoDrop
<1>2. IInv /\ Sourced /\ Sourced' /\ Sound /\ Answered /\ Spared /\ [Next]_vars
        => Answered' /\ Spared'
  BY AnsweredNext, SparedNext DEF Sound
<1>3. Spared => ManifestIsWork
  BY DEF Spared, ManifestIsWork
<1>4. Faults \subseteq {"io"}
  OBVIOUS
<1>5. Spec => [](IInv /\ Sourced /\ Sound)
  BY <1>4, SoundAlways
<1> QED BY <1>1, <1>2, <1>3, <1>5, PTL DEF Spec
=============================================================================
