--------------------------- MODULE BuildGuardProofs ---------------------------
(***************************************************************************)
(* Theorems about BuildGuard for any number of runs, any fetch budget and  *)
(* a table of any size, checked by TLAPS.                                  *)
(***************************************************************************)
EXTENDS BuildGuard, FiniteSetTheorems, SequenceTheorems, TLAPS

(***************************************************************************)
(* Confinement: the inductive invariant.                                   *)
(***************************************************************************)
\* A cell that neither its container nor the hook confines any more
Open(c) == ~Sheltered(c) /\ c \in unjudged

Known(c) == IF Open(c) THEN Text \ {"secret"} ELSE Given[c]

\* The text that can be in each of Stores.
MayHold ==
  [s \in Stores |->
     IF s = "raw" THEN Known("scout")
     ELSE IF s = "briefs-pending" THEN Known("curator")
     ELSE IF s \in {"projects", "requests"} THEN Known("main")
     ELSE IF s = "normalized" THEN {"normalized"}
     ELSE IF s \in {"briefs", "briefs-flagged"} THEN {"brief"}
     ELSE IF s = "inbox" THEN {"approved"} ELSE {}]

HoldsBound == \A s \in Stores : holds[s] \subseteq MayHold[s]
ContextBound == \A c \in Cells : context[c] \subseteq Known(c)
MountsBound ==
  /\ \A c \in Cells : mounts[c] \subseteq Stores
  /\ mounts["main"] \subseteq Compose["main"]
FlowTyped ==
  /\ holds \in [Stores -> SUBSET Text] /\ context \in [Cells -> SUBSET Text]
  /\ unjudged \subseteq Cells /\ web \subseteq Cells

FlowInv == FlowTyped /\ MountsBound /\ HoldsBound /\ ContextBound

LEMMA InitFlow == Init => FlowInv
<1> SUFFICES ASSUME Init PROVE FlowInv
  OBVIOUS
<1>1. FlowTyped
  BY DEF Init, FlowTyped, Stores, Text, Configured, Cells
<1>2. MountsBound
  BY DEF Init, MountsBound, Cells, Compose, Stores, Handoffs
<1>3. HoldsBound
  <2>1. "project" \in Known("main")
    BY DEF Init, Known, Open, Given
  <2>2. MayHold["projects"] = Known("main")
    BY DEF MayHold, Stores
  <2> QED BY <2>1, <2>2 DEF Init, HoldsBound
<1>4. ContextBound
  BY DEF Init, ContextBound
<1> QED BY <1>1, <1>2, <1>3, <1>4 DEF FlowInv

LEMMA GivenFact ==
  \A c \in Cells : Given[c] \subseteq Known(c) /\ Known(c) \subseteq Text \ {"secret"}
<1>1. Given = [main |-> {"project", "brief"}, curator |-> {"normalized"},
               scout |-> {"page", "approved"}]
  BY DEF Given
<1>2. \A c \in Cells : Given[c] \subseteq Text \ {"secret"}
  BY <1>1 DEF Cells, Text
<1> QED BY <1>2 DEF Known

\* No store holds a credential.
LEMMA HoldsFact == \A s \in Stores : MayHold[s] \subseteq Text \ {"secret"}
<1>1. /\ Known("scout") \subseteq Text \ {"secret"}
      /\ Known("curator") \subseteq Text \ {"secret"}
      /\ Known("main") \subseteq Text \ {"secret"}
  BY GivenFact DEF Cells
<1>2. {"normalized", "brief", "approved"} \subseteq Text \ {"secret"}
  BY DEF Text
<1> QED BY <1>1, <1>2 DEF MayHold

\* What a cell may know, and a store hold, only grows.
LEMMA BoundsGrow ==
  ASSUME FlowTyped, UNCHANGED layers, unjudged \subseteq unjudged'
  PROVE  /\ \A c \in Cells : Known(c) \subseteq Known(c)' /\ Sheltered(c)' = Sheltered(c)
         /\ \A s \in Stores : MayHold[s] \subseteq MayHold'[s]
<1>1. \A c \in Cells : Sheltered(c)' = Sheltered(c)
  BY DEF layers, Sheltered
<1>2. ASSUME NEW c \in Cells PROVE Known(c) \subseteq Known(c)'
  <2>1. Open(c) => Open(c)'
    BY <1>1 DEF Open
  <2>2. Given[c] \subseteq Text \ {"secret"}
    BY GivenFact, Zenon
  <2> QED BY <2>1, <2>2 DEF Known
<1>3. /\ Known("scout") \subseteq Known("scout")'
      /\ Known("curator") \subseteq Known("curator")'
      /\ Known("main") \subseteq Known("main")'
  BY <1>2 DEF Cells
<1>4. ASSUME NEW s \in Stores PROVE MayHold[s] \subseteq MayHold'[s]
  BY <1>3 DEF MayHold
<1> QED BY <1>1, <1>2, <1>4

(***************************************************************************)
(* Paths and rules                                                         *)
(***************************************************************************)
\* What is no folder contains nothing else.
LEMMA LeafFact ==
  ASSUME NEW p \in Paths, NEW a, a \notin Folders, IsUnder(p, a)
  PROVE  p = a
<1>1. \A q \in Paths : Up[q] \in Folders
  BY DEF Up, Folders, Paths
<1>2. Folders \subseteq Paths
  BY DEF Paths
<1>3. Up[p] \in Folders /\ Up[Up[p]] \in Folders /\ Up[Up[Up[p]]] \in Folders
  BY <1>1, <1>2
<1> QED BY <1>3 DEF IsUnder

\* A list of such paths allows these only.
LEMMA AllowedLeaf ==
  ASSUME NEW allow, allow \cap Folders = {}, NEW p \in Paths, AllowedBy(allow, p)
  PROVE  p \in allow
  BY LeafFact DEF AllowedBy

LEMMA CallFact ==
  ASSUME NEW c \in Cells, NEW call \in Calls(c)
  PROVE  /\ call.tool \in {"read", "edit", "exec"}
         /\ call.tool \in {"read", "edit"} =>
              call.paths \subseteq Paths /\ call.id \in {c, Unknown}
<1>1. CASE call \in ReadCalls(c)
  BY <1>1 DEF ReadCalls, Named, Paths
<1>2. CASE call \in EditCalls(c)
  BY <1>2 DEF EditCalls, Named, Paths
<1>3. CASE call \in ExecCalls
  BY <1>3 DEF ExecCalls
<1> QED BY <1>1, <1>2, <1>3 DEF Calls

\* No command passes: no wrapper is made for agents.
LEMMA NoCommand ==
  ASSUME NEW call, call.tool = "exec"
  PROVE  Blocked(call)
  BY DEF Blocked, ExecBlocked, AgentFacingWrappers

\* What a read that passes shows is no credential, and lies in folders the
\* cell may read, or the read is not judged.
ReadableBy(c) ==
  IF c = "scout" THEN {"workspace", "inbox", "raw"}
  ELSE {"workspace", "normalized", "briefs-pending"}

LEMMA ReadFact ==
  ASSUME NEW c \in Cells, NEW call \in Calls(c), call.tool = "read", ~Blocked(call),
         NEW p \in call.paths
  PROVE  /\ p \in Paths /\ \A s \in Secrets : ~IsUnder(s, p)
         /\ c # "main" /\ ~OutsideRead(call) => p \in ReadableBy(c)
<1>1. p \in Paths /\ ~IsSecretRead(p) /\ call.id = c
  BY CallFact DEF Blocked, ReadBlocked
<1>2. ASSUME c # "main", ~OutsideRead(call) PROVE p \in ReadableBy(c)
  <2>1. AllowedBy(AgentPolicy[c].read, p)
    BY <1>1, <1>2 DEF OutsideRead, PathViolation
  <2>2. AgentPolicy[c].read = ReadableBy(c)
    <3>1. CASE c = "scout"
      BY <3>1 DEF AgentPolicy, ReadableBy
    <3>2. CASE c = "curator"
      BY <3>2 DEF AgentPolicy, ReadableBy
    <3> QED BY <1>2, <3>1, <3>2 DEF Cells
  <2>3. ReadableBy(c) \cap Folders = {}
    BY DEF ReadableBy, Folders
  <2> QED BY <1>1, <2>1, <2>2, <2>3, AllowedLeaf
<1> QED BY <1>1, <1>2 DEF IsSecretRead

\* An edit that passes is of what the cell may write.
WritableBy(c) ==
  IF c = "scout" THEN {"raw"}
  ELSE IF c = "curator" THEN {"briefs-pending"} ELSE {"projects", "workspace", "requests"}

LEMMA EditFact ==
  ASSUME NEW c \in Cells, NEW call \in Calls(c), call.tool = "edit", ~Blocked(call),
         NEW p \in call.paths
  PROVE  p \in WritableBy(c)
<1>1. p \in Paths /\ call.id = c
  BY CallFact DEF Blocked, EditBlocked
<1>2. AllowedBy(AgentPolicy[c].write, p)
  BY <1>1 DEF Blocked, EditBlocked, PathViolation
<1>3. AgentPolicy[c].write = WritableBy(c)
  <2>1. CASE c = "scout"
    BY <2>1 DEF AgentPolicy, WritableBy
  <2>2. CASE c = "curator"
    BY <2>2 DEF AgentPolicy, WritableBy
  <2>3. CASE c = "main"
    BY <2>3 DEF AgentPolicy, WritableBy
  <2> QED BY <2>1, <2>2, <2>3 DEF Cells
<1>4. WritableBy(c) \cap Folders = {}
  BY DEF WritableBy, Folders
<1> QED BY <1>1, <1>2, <1>3, <1>4, AllowedLeaf

(***************************************************************************)
(* Steps                                                                   *)
(***************************************************************************)
\* The stores that neither the containers nor the hook keep from a cell hold
\* what it may know.
ShownTo(c) ==
  IF c = "scout" THEN {"raw", "inbox"}
  ELSE IF c = "curator" THEN {"normalized", "briefs-pending"}
  ELSE {"briefs", "briefs-flagged", "reviews", "requests", "projects"}

LEMMA ShownFact ==
  ASSUME NEW c \in Cells, NEW s \in ShownTo(c)
  PROVE  s \in Stores /\ MayHold[s] \subseteq Known(c)
<1>1. s \in Stores
  BY DEF ShownTo, Stores, Handoffs
<1>2. Given[c] \subseteq Known(c)
  BY GivenFact, Zenon
<1>3. CASE c = "scout"
  <2>1. s = "raw" \/ s = "inbox"
    BY <1>3 DEF ShownTo
  <2>2. "approved" \in Given[c]
    BY <1>3 DEF Given
  <2> QED BY <1>1, <1>2, <1>3, <2>1, <2>2 DEF MayHold
<1>4. CASE c = "curator"
  <2>1. s = "normalized" \/ s = "briefs-pending"
    BY <1>4 DEF ShownTo
  <2>2. "normalized" \in Given[c]
    BY <1>4 DEF Given
  <2> QED BY <1>1, <1>2, <1>4, <2>1, <2>2 DEF MayHold
<1>5. CASE c = "main"
  <2>1. s \in {"briefs", "briefs-flagged", "reviews", "requests", "projects"}
    BY <1>5 DEF ShownTo
  <2>2. "brief" \in Given[c]
    BY <1>5 DEF Given
  <2> QED BY <1>1, <1>2, <1>5, <2>1, <2>2 DEF MayHold
<1> QED BY <1>3, <1>4, <1>5 DEF Cells

LEMMA TakeStep ==
  ASSUME FlowInv, NEW c \in Cells, NEW call \in Passing[c], Take(c, call)
  PROVE  FlowInv'
<1>1. FlowTyped /\ MountsBound /\ HoldsBound /\ ContextBound
  BY DEF FlowInv
<1>2. call \in Calls(c) /\ ~Blocked(call)
  BY DEF Passing
<1>3. call.tool = "read"
  BY <1>2, NoCommand DEF Take
<1>4. /\ context' = [context EXCEPT ![c] = context[c] \cup Brings(c, call)]
      /\ UNCHANGED <<layers, holds>> /\ unjudged \subseteq unjudged' /\ unjudged' \subseteq Cells
      /\ OutsideRead(call) => c \in unjudged'
  BY <1>1, <1>3 DEF Take, Unjudged, FlowTyped
<1>5. /\ \A d \in Cells : Known(d) \subseteq Known(d)' /\ Sheltered(d)' = Sheltered(d)
      /\ \A s \in Stores : MayHold[s] \subseteq MayHold'[s]
  BY <1>1, <1>4, BoundsGrow
<1>6. ASSUME NEW t \in Brings(c, call) PROVE t \in Known(c)' /\ t \in Text
  <2>1. PICK p \in call.paths : t \in Seen(c, p)
    BY <1>3, <1>6 DEF Brings
  <2>2. /\ p \in Paths /\ \A s \in Secrets : ~IsUnder(s, p)
        /\ c # "main" /\ ~OutsideRead(call) => p \in ReadableBy(c)
    BY <1>2, <1>3, ReadFact
  <2>3. PICK s \in mounts[c] : IsUnder(s, p) /\ t \in holds[s]
    BY <2>1, <2>2 DEF Seen
  <2>4. s \in Stores /\ s \in Paths /\ t \in MayHold[s] /\ t \in Text \ {"secret"}
    BY <1>1, <2>3, HoldsFact DEF MountsBound, HoldsBound, Paths
  <2>5. CASE Open(c)'
    BY <2>4, <2>5 DEF Known
  <2>6. CASE ~Open(c)'
    <3>1. CASE Sheltered(c) \/ c = "main"
      <4>1. s \in Compose[c]
        BY <1>1, <2>3, <3>1 DEF Sheltered, MountsBound
      <4>2. s \in ShownTo(c)
        BY <4>1 DEF Compose, ShownTo, Cells
      <4> QED BY <1>5, <2>4, <4>2, ShownFact
    <3>2. CASE ~Sheltered(c) /\ c # "main"
      <4>1. ~OutsideRead(call)
        BY <1>4, <1>5, <2>6, <3>2 DEF Open
      <4>2. p \in ReadableBy(c) /\ p \notin Folders
        BY <2>2, <3>2, <4>1 DEF ReadableBy, Folders
      <4>3. s = p
        BY <2>3, <2>4, <4>2, LeafFact
      <4>4. s \in ShownTo(c)
        <5>1. s # "workspace"
          BY <2>4 DEF Stores, Handoffs
        <5> QED BY <3>2, <4>2, <4>3, <5>1 DEF ReadableBy, ShownTo, Cells
      <4> QED BY <1>5, <2>4, <4>4, ShownFact
    <3> QED BY <3>1, <3>2
  <2> QED BY <2>4, <2>5, <2>6
<1>7. FlowTyped'
  BY <1>1, <1>4, <1>6 DEF FlowTyped, layers
<1>8. ContextBound'
  BY <1>1, <1>4, <1>5, <1>6 DEF ContextBound, FlowTyped
<1>9. MountsBound'
  BY <1>1, <1>4 DEF MountsBound, layers
<1>10. HoldsBound'
  <2>1. \A s \in Stores : holds'[s] = holds[s]
    BY <1>4
  <2> QED BY <1>1, <1>5, <2>1 DEF HoldsBound
<1> QED BY <1>7, <1>8, <1>9, <1>10 DEF FlowInv

\* A step that leaves containers, configurations and unjudged alone leaves the
\* bounds alone.
LEMMA BoundsStay ==
  ASSUME UNCHANGED <<layers, unjudged>>
  PROVE  /\ MayHold' = MayHold /\ \A c \in Cells : Known(c)' = Known(c)
<1>1. \A c \in Cells : Open(c)' <=> Open(c)
  BY DEF Open, Sheltered, layers
<1>2. \A c \in Cells : Known(c)' = Known(c)
  BY <1>1 DEF Known
<1>3. /\ Known("scout")' = Known("scout") /\ Known("curator")' = Known("curator")
      /\ Known("main")' = Known("main")
  BY <1>2 DEF Cells
<1> QED BY <1>2, <1>3 DEF MayHold

LEMMA GiveStep ==
  ASSUME FlowInv, NEW c \in Cells, NEW call \in Passing[c], Give(c, call)
  PROVE  FlowInv'
<1>1. FlowTyped /\ MountsBound /\ HoldsBound /\ ContextBound
  BY DEF FlowInv
<1>2. call \in Calls(c) /\ ~Blocked(call)
  BY DEF Passing
<1>3. /\ call.tool = "edit" /\ UNCHANGED <<layers, context, unjudged>>
      /\ holds' = [s \in Stores |->
                     IF s \in mounts[c] /\ \E p \in call.paths : IsUnder(s, p)
                     THEN holds[s] \cup context[c] ELSE holds[s]]
  BY DEF Give
<1>4. MayHold' = MayHold /\ \A d \in Cells : Known(d)' = Known(d)
  BY <1>3, BoundsStay
<1>5. ASSUME NEW s \in Stores PROVE holds'[s] \subseteq MayHold[s]
  <2>1. holds[s] \subseteq MayHold[s] /\ context[c] \subseteq Known(c)
    BY <1>1 DEF HoldsBound, ContextBound
  <2>2. ASSUME NEW p \in call.paths, IsUnder(s, p)
        PROVE  Known(c) \subseteq MayHold[s]
    <3>1. p \in WritableBy(c)
      BY <1>2, <1>3, EditFact
    <3>2. p \notin Folders /\ s \in Paths
      BY <3>1 DEF WritableBy, Folders, Paths
    <3>3. s \in WritableBy(c)
      BY <2>2, <3>1, <3>2, LeafFact
    <3>4. CASE c = "scout"
      BY <3>3, <3>4 DEF WritableBy, MayHold
    <3>5. CASE c = "curator"
      BY <3>3, <3>5 DEF WritableBy, MayHold
    <3>6. CASE c = "main"
      <4>1. s \in {"projects", "requests"}
        BY <3>3, <3>6 DEF WritableBy, Stores, Handoffs
      <4> QED BY <3>6, <4>1 DEF MayHold
    <3> QED BY <3>4, <3>5, <3>6 DEF Cells
  <2> QED BY <1>3, <2>1, <2>2
<1>6. FlowTyped'
  <2>1. \A s \in Stores : holds'[s] \subseteq Text
    BY <1>1, <1>3 DEF FlowTyped
  <2> QED BY <1>1, <1>3, <2>1 DEF FlowTyped, layers
<1>7. HoldsBound'
  BY <1>4, <1>5 DEF HoldsBound
<1>8. MountsBound' /\ ContextBound'
  BY <1>1, <1>3, <1>4 DEF MountsBound, ContextBound, layers
<1> QED BY <1>6, <1>7, <1>8 DEF FlowInv

LEMMA MoverStep == FlowInv /\ Mover => FlowInv'
<1> SUFFICES ASSUME FlowInv, Mover PROVE FlowInv'
  OBVIOUS
<1>1. FlowTyped /\ MountsBound /\ HoldsBound /\ ContextBound
  BY DEF FlowInv
<1>2. ASSUME NEW from, NEW to \in Stores, NEW text \in Text, text \in MayHold[to],
             Move(from, to, text)
      PROVE  FlowInv'
  <2>1. /\ holds' = [holds EXCEPT ![to] = holds[to] \cup {text}]
        /\ UNCHANGED <<layers, context, unjudged>>
    BY <1>2 DEF Move
  <2>2. MayHold' = MayHold /\ \A d \in Cells : Known(d)' = Known(d)
    BY <2>1, BoundsStay
  <2>3. FlowTyped'
    BY <1>1, <1>2, <2>1 DEF FlowTyped, layers
  <2>4. HoldsBound'
    <3>1. \A s \in Stores : holds'[s] \subseteq MayHold[s]
      BY <1>1, <1>2, <2>1 DEF HoldsBound, FlowTyped
    <3> QED BY <2>2, <3>1 DEF HoldsBound
  <2>5. MountsBound' /\ ContextBound'
    BY <1>1, <2>1, <2>2 DEF MountsBound, ContextBound, layers
  <2> QED BY <2>3, <2>4, <2>5 DEF FlowInv
<1>3. /\ "normalized" \in Stores /\ "normalized" \in Text /\ "normalized" \in MayHold["normalized"]
      /\ "briefs" \in Stores /\ "brief" \in Text /\ "brief" \in MayHold["briefs"]
      /\ "briefs-flagged" \in Stores /\ "brief" \in MayHold["briefs-flagged"]
      /\ "inbox" \in Stores /\ "approved" \in Text /\ "approved" \in MayHold["inbox"]
  BY DEF Stores, Handoffs, Text, MayHold
<1> QED BY <1>2, <1>3 DEF Mover

\* A fetch brings a page to scout, or to a cell that is open from then on.
LEMMA FetchStep ==
  ASSUME FlowInv, NEW c \in Cells, UNCHANGED <<layers, holds>>,
         context' = [context EXCEPT ![c] = @ \cup {"page"}],
         unjudged \subseteq unjudged', unjudged' \subseteq Cells, c = "scout" \/ Open(c)'
  PROVE  FlowInv'
<1>1. FlowTyped /\ MountsBound /\ HoldsBound /\ ContextBound
  BY DEF FlowInv
<1>2. /\ \A d \in Cells : Known(d) \subseteq Known(d)'
      /\ \A s \in Stores : MayHold[s] \subseteq MayHold'[s]
  BY <1>1, BoundsGrow
<1>3. "page" \in Text /\ "page" \in Given["scout"] /\ "page" # "secret"
  BY DEF Text, Given
<1>4. "page" \in Known(c)'
  BY <1>3 DEF Known
<1>5. FlowTyped'
  BY <1>1, <1>3 DEF FlowTyped, layers
<1>6. ContextBound'
  BY <1>1, <1>2, <1>4 DEF ContextBound, FlowTyped
<1>7. MountsBound'
  BY <1>1 DEF MountsBound, layers
<1>8. HoldsBound'
  <2>1. \A s \in Stores : holds'[s] = holds[s]
    OBVIOUS
  <2> QED BY <1>1, <1>2, <2>1 DEF HoldsBound
<1> QED BY <1>5, <1>6, <1>7, <1>8 DEF FlowInv

LEMMA FlowStep == FlowInv /\ [Next]_vars => FlowInv'
<1> SUFFICES ASSUME FlowInv, [Next]_vars PROVE FlowInv'
  OBVIOUS
<1>1. FlowTyped /\ MountsBound /\ HoldsBound /\ ContextBound
  BY DEF FlowInv
<1>2. ASSUME NEW c \in Cells, NEW call \in Passing[c], Take(c, call) \/ Give(c, call)
      PROVE  FlowInv'
  BY <1>2, TakeStep, GiveStep
<1>3. ASSUME NEW run \in Runs, CountedFetch(run) \/ UncountedFetch(run) PROVE FlowInv'
  <2>1. /\ UNCHANGED <<layers, holds, unjudged>> /\ "scout" \in Cells
        /\ context' = [context EXCEPT !["scout"] = @ \cup {"page"}]
    BY <1>3 DEF CountedFetch, UncountedFetch, FetchInRun, Cells
  <2>2. unjudged \subseteq unjudged' /\ unjudged' \subseteq Cells
    BY <1>1, <2>1 DEF FlowTyped
  <2> QED BY <2>1, <2>2, FetchStep
<1>4. ASSUME NEW c \in Cells, NEW id, OtherFetch(c, id) PROVE FlowInv'
  <2>1. /\ UNCHANGED <<layers, holds>> /\ c \in web
        /\ context' = [context EXCEPT ![c] = @ \cup {"page"}]
    BY <1>4 DEF OtherFetch
  <2>2. /\ unjudged \subseteq unjudged' /\ unjudged' \subseteq Cells
        /\ c # "scout" => c \in unjudged'
    BY <1>1, <1>4 DEF OtherFetch, Unjudged, FlowTyped
  <2>3. c # "scout" => Open(c)'
    BY <2>1, <2>2 DEF Open, Sheltered, Configured, layers
  <2> QED BY <2>1, <2>2, <2>3, FetchStep
<1>5. ASSUME UNCHANGED flowVars PROVE FlowInv'
  <2>1. UNCHANGED <<layers, holds, context, unjudged>>
    BY <1>5 DEF flowVars
  <2>2. MayHold' = MayHold /\ \A c \in Cells : Known(c)' = Known(c)
    BY <2>1, BoundsStay
  <2>3. FlowTyped' /\ MountsBound'
    BY <1>1, <2>1 DEF FlowTyped, MountsBound, layers
  <2>4. HoldsBound' /\ ContextBound'
    BY <1>1, <2>1, <2>2 DEF HoldsBound, ContextBound
  <2> QED BY <2>3, <2>4 DEF FlowInv
<1>6. CASE Restart \/ UNCHANGED vars
  BY <1>5, <1>6 DEF Restart, vars
<1> QED BY <1>2, <1>3, <1>4, <1>6, MoverStep DEF Next

\* Scout knows of the project only what an approved request says, curator of
\* pages only what was normalized, main only the passed briefs, wherever mounts
\* and configurations, or a hook that judged the cell's calls, see to it; and
\* nobody a credential (Confined).
THEOREM TextIsConfined == Spec => []Confined
<1>1. FlowInv => Confined
  <2> SUFFICES ASSUME FlowInv, NEW c \in Cells
               PROVE  /\ Sheltered(c) \/ c \notin unjudged => context[c] \subseteq Given[c]
                      /\ "secret" \notin context[c]
    BY DEF Confined
  <2>1. context[c] \subseteq Known(c)
    BY DEF FlowInv, ContextBound
  <2>2. Known(c) \subseteq Text \ {"secret"}
    BY GivenFact, Zenon
  <2> QED BY <2>1, <2>2 DEF Known, Open
<1> QED BY <1>1, InitFlow, FlowStep, PTL DEF Spec

(***************************************************************************)
(* The fetch budget: the inductive invariant.                              *)
(***************************************************************************)
Entry == [run : Runs, used : Nat]

TableTyped ==
  /\ counts \in Seq(Entry) /\ Len(counts) <= FetchCountsMax
  /\ fetched \in [Runs -> Nat] /\ later \in [Runs -> SUBSET Runs]
  /\ \A r \in Runs : IsFiniteSet(later[r])

\* Each run has one entry, and that within the budget.
Entries ==
  /\ \A i, j \in 1..Len(counts) : counts[i].run = counts[j].run => i = j
  /\ \A i \in 1..Len(counts) :
       /\ counts[i].used \in 1..FetchBudget /\ fetched[counts[i].run] > 0

\* The table knows all fetches of r, and has the later runs behind it.
Tracked(r) ==
  \E i \in 1..Len(counts) :
    /\ counts[i].run = r /\ counts[i].used = fetched[r]
    /\ \A j \in (i + 1)..Len(counts) : counts[j].run \in later[r]

Crowded(r) == Cardinality(later[r]) >= FetchCountsMax

Accounted(r) ==
  \/ fetched[r] = 0 \/ (r \in over /\ fetched[r] <= FetchBudget)
  \/ r \in unplaced \/ Tracked(r) \/ Crowded(r)

BudgetInv == TableTyped /\ Entries /\ \A r \in Runs : Accounted(r)

USE GuardAssumption

LEMMA BudgetInvHolds == BudgetInv => BudgetKept
<1> SUFFICES ASSUME BudgetInv, NEW r \in Runs \ unplaced
             PROVE  fetched[r] <= FetchBudget \/ Crowded(r)
  BY DEF BudgetKept, Crowded
<1>1. CASE Tracked(r)
  <2>1. PICK i \in 1..Len(counts) : counts[i].used = fetched[r]
    BY <1>1 DEF Tracked
  <2>2. counts[i].used \in 1..FetchBudget
    BY DEF BudgetInv, Entries
  <2> QED BY <2>1, <2>2
<1>2. CASE ~Tracked(r)
  BY <1>2 DEF BudgetInv, Accounted
<1> QED BY <1>1, <1>2

LEMMA InitBudget == Init => BudgetInv
<1> SUFFICES ASSUME Init PROVE BudgetInv
  OBVIOUS
<1>1. counts = << >> /\ fetched = [r \in Runs |-> 0] /\ later = [r \in Runs |-> {}]
  BY DEF Init
<1>2. TableTyped
  BY <1>1, FS_EmptySet DEF TableTyped
<1>3. Entries /\ \A r \in Runs : Accounted(r)
  BY <1>1 DEF Entries, Accounted
<1> QED BY <1>2, <1>3 DEF BudgetInv

LEMMA AppendFact ==
  ASSUME NEW s \in Seq(Entry), NEW e \in Entry
  PROVE  /\ Append(s, e) \in Seq(Entry)
         /\ Len(Append(s, e)) = Len(s) + 1
         /\ \A i \in 1..Len(s) : Append(s, e)[i] = s[i]
         /\ Append(s, e)[Len(s) + 1] = e
<1>1. Append(s, e) \in Seq(Entry) /\ Len(Append(s, e)) = Len(s) + 1
  BY AppendProperties
<1>2. \A i \in 1..Len(s) : Append(s, e)[i] = s[i]
  BY AppendProperties
<1>3. Append(s, e)[Len(s) + 1] = e
  BY AppendProperties
<1> QED BY <1>1, <1>2, <1>3

\* The sets of later runs only grow, and stay finite.
LaterGrows == 
  /\ later' \in [Runs -> SUBSET Runs]
  /\ \A r \in Runs : later[r] \subseteq later'[r] /\ IsFiniteSet(later'[r])

LEMMA LaterFact ==
  ASSUME BudgetInv, NEW run \in Runs, CountedFetch(run)
  PROVE  LaterGrows /\ \A r \in Runs : Crowded(r) => Crowded(r)'
<1>1. later' = [r \in Runs |-> IF fetched[r] > 0 /\ r # run THEN later[r] \cup {run} ELSE later[r]]
  BY DEF CountedFetch
<1>2. later \in [Runs -> SUBSET Runs] /\ \A r \in Runs : IsFiniteSet(later[r])
  BY DEF BudgetInv, TableTyped
<1>3. LaterGrows
  BY <1>1, <1>2, FS_AddElement DEF LaterGrows
<1>4. ASSUME NEW r \in Runs, Crowded(r) PROVE Crowded(r)'
  <2>1. Cardinality(later[r]) <= Cardinality(later'[r])
    BY <1>3, FS_Subset DEF LaterGrows
  <2>2. Cardinality(later[r]) \in Nat /\ Cardinality(later'[r]) \in Nat
    BY <1>2, <1>3, FS_CardinalityType DEF LaterGrows
  <2> QED BY <1>4, <2>1, <2>2 DEF Crowded
<1> QED BY <1>3, <1>4

\* A run that is pushed out by a full table has as many behind it.
LEMMA FullFact ==
  ASSUME NEW table \in Seq(Entry), Len(table) = FetchCountsMax,
         \A i, j \in 1..Len(table) : table[i].run = table[j].run => i = j,
         NEW run, \A i \in 1..Len(table) : table[i].run # run,
         NEW T, IsFiniteSet(T), run \in T, \A j \in 2..Len(table) : table[j].run \in T
  PROVE  Cardinality(T) >= FetchCountsMax
<1> DEFINE f == [i \in 1..FetchCountsMax |-> IF i < FetchCountsMax THEN table[i + 1].run ELSE run]
<1>1. f \in [1..FetchCountsMax -> T]
  OBVIOUS
<1>2. ASSUME NEW i \in 1..FetchCountsMax, NEW j \in 1..FetchCountsMax, f[i] = f[j]
      PROVE  i = j
  <2>1. CASE i < FetchCountsMax /\ j < FetchCountsMax
    <3>1. i + 1 \in 1..Len(table) /\ j + 1 \in 1..Len(table)
      BY <2>1
    <3>2. table[i + 1].run = table[j + 1].run
      BY <1>2, <2>1
    <3>3. i + 1 = j + 1
      BY <3>1, <3>2
    <3> QED BY <3>3
  <2>2. CASE i = FetchCountsMax \/ j = FetchCountsMax
    BY <1>2, <2>2
  <2> QED BY <2>1, <2>2
<1>3. f \in Injection(1..FetchCountsMax, T)
  BY <1>1, <1>2 DEF Injection, IsInjective
<1>4. Cardinality(1..FetchCountsMax) <= Cardinality(T)
  BY <1>3, FS_Injection
<1>5. Cardinality(1..FetchCountsMax) = FetchCountsMax
  BY FS_Interval
<1> QED BY <1>4, <1>5

(***************************************************************************)
(* Steps                                                                   *)
(***************************************************************************)
\* The first fetch of a run: a new entry, and room for it.
LEMMA FirstFetch ==
  ASSUME BudgetInv, NEW run \in Runs, CountedFetch(run), Counted(run) = {},
         counts' = Append(MakeRoom(counts), [run |-> run, used |-> 1])
  PROVE  BudgetInv'
<1> DEFINE new == [run |-> run, used |-> 1]
           gone == IF Len(counts) >= FetchCountsMax THEN 1 ELSE 0
<1>1. /\ counts \in Seq(Entry) /\ Len(counts) <= FetchCountsMax
      /\ fetched \in [Runs -> Nat] /\ later \in [Runs -> SUBSET Runs]
      /\ \A r \in Runs : IsFiniteSet(later[r])
  BY DEF BudgetInv, TableTyped
<1>2. Entries /\ \A r \in Runs : Accounted(r)
  BY DEF BudgetInv
<1>3. /\ gone \in 0..1 /\ Len(counts) - gone < FetchCountsMax /\ Len(counts) - gone >= 0
      /\ gone = 1 => Len(counts) = FetchCountsMax
  BY <1>1
<1>4. /\ counts' \in Seq(Entry) /\ Len(counts') = Len(counts) - gone + 1
      /\ \A i \in 1..(Len(counts) - gone) : counts'[i] = counts[i + gone]
      /\ counts'[Len(counts')] = new
  <2>0. new \in Entry
    BY DEF Entry
  <2>1. CASE Len(counts) >= FetchCountsMax
    <3>1. counts' = Append(Tail(counts), new) /\ gone = 1 /\ counts # << >>
      BY <1>1, <2>1 DEF MakeRoom
    <3>2. /\ Tail(counts) \in Seq(Entry) /\ Len(Tail(counts)) = Len(counts) - 1
          /\ \A i \in 1..(Len(counts) - 1) : Tail(counts)[i] = counts[i + 1]
      BY <1>1, <3>1, HeadTailProperties
    <3>3. Len(counts) \in Nat
      BY <1>1
    <3> HIDE DEF new, gone
    <3>4. /\ counts' \in Seq(Entry) /\ Len(counts') = Len(Tail(counts)) + 1
          /\ \A i \in 1..Len(Tail(counts)) : counts'[i] = Tail(counts)[i]
          /\ counts'[Len(Tail(counts)) + 1] = new
      <4> DEFINE tail == Tail(counts)
      <4>1. tail \in Seq(Entry) /\ counts' = Append(tail, new)
        BY <3>1, <3>2
      <4> HIDE DEF tail
      <4>2. /\ counts' \in Seq(Entry) /\ Len(counts') = Len(tail) + 1
            /\ \A i \in 1..Len(tail) : counts'[i] = tail[i]
            /\ counts'[Len(tail) + 1] = new
        <5>1. /\ Append(tail, new) \in Seq(Entry)
              /\ Len(Append(tail, new)) = Len(tail) + 1
              /\ \A i \in 1..Len(tail) : Append(tail, new)[i] = tail[i]
              /\ Append(tail, new)[Len(tail) + 1] = new
          BY <2>0, <4>1, AppendFact, Zenon
        <5> QED BY <4>1, <5>1, Zenon
      <4> QED BY <4>2 DEF tail
    <3>5. Len(counts') = Len(counts) /\ Len(Tail(counts)) + 1 = Len(counts)
      <4>1. Len(Tail(counts)) = Len(counts) - 1 /\ Len(counts') = Len(Tail(counts)) + 1
        BY <3>2, <3>4
      <4> QED BY <3>3, <4>1
    <3>6. \A i \in 1..(Len(counts) - gone) : counts'[i] = counts[i + gone]
      BY <3>1, <3>2, <3>4
    <3>7. Len(counts') = Len(counts) - gone + 1
      BY <3>1, <3>3, <3>5
    <3> QED BY <3>4, <3>5, <3>6, <3>7
  <2>2. CASE Len(counts) < FetchCountsMax
    <3>1. counts' = Append(counts, new) /\ gone = 0
      BY <1>1, <2>2 DEF MakeRoom
    <3>2. Len(counts) \in Nat
      BY <1>1
    <3> HIDE DEF new, gone
    <3>3. /\ counts' \in Seq(Entry) /\ Len(counts') = Len(counts) + 1
          /\ \A i \in 1..Len(counts) : counts'[i] = counts[i]
          /\ counts'[Len(counts) + 1] = new
      <4>1. /\ Append(counts, new) \in Seq(Entry)
            /\ Len(Append(counts, new)) = Len(counts) + 1
            /\ \A i \in 1..Len(counts) : Append(counts, new)[i] = counts[i]
            /\ Append(counts, new)[Len(counts) + 1] = new
        BY <1>1, <2>0, AppendFact, Zenon
      <4> QED BY <3>1, <4>1, Zenon
    <3>4. Len(counts') = Len(counts) - gone + 1 /\ Len(counts') = Len(counts) + 1
      BY <3>1, <3>2, <3>3
    <3>5. \A i \in 1..(Len(counts) - gone) : counts'[i] = counts[i + gone]
      BY <3>1, <3>2, <3>3
    <3> QED BY <3>3, <3>4, <3>5
  <2> QED BY <1>1, <2>1, <2>2
<1> HIDE DEF gone
<1>5. /\ fetched' = [fetched EXCEPT ![run] = fetched[run] + 1] /\ UNCHANGED <<over, unplaced>>
      /\ \A r \in Runs : fetched[r] > 0 /\ r # run => later'[r] = later[r] \cup {run}
      /\ fetched' \in [Runs -> Nat]
  BY <1>1 DEF CountedFetch, FetchInRun
<1>6. \A i \in 1..Len(counts) : counts[i] \in Entry /\ counts[i].run # run /\ counts[i].run \in Runs
  <2>1. \A i \in 1..Len(counts) : counts[i] \in Entry
    BY <1>1
  <2> QED BY <2>1 DEF Counted, Entry
<1>7. LaterGrows /\ \A r \in Runs : Crowded(r) => Crowded(r)'
  BY LaterFact
<1>8. TableTyped'
  <2>1. Len(counts') <= FetchCountsMax
    <3>1. Len(counts) \in Nat /\ gone \in Int
      BY <1>1, <1>3
    <3> QED BY <1>3, <1>4, <3>1
  <2> QED BY <1>4, <1>5, <1>7, <2>1 DEF TableTyped, LaterGrows
<1>9. Entries'
  <2>1. ASSUME NEW i \in 1..Len(counts')
        PROVE  /\ i < Len(counts') => i + gone \in 1..Len(counts) /\ counts'[i] = counts[i + gone]
               /\ counts'[i].used \in 1..FetchBudget /\ fetched'[counts'[i].run] > 0
    <3>1. i < Len(counts') => i + gone \in 1..Len(counts) /\ counts'[i] = counts[i + gone]
      BY <1>1, <1>3, <1>4
    <3>2. CASE i < Len(counts')
      <4>1. /\ counts[i + gone].used \in 1..FetchBudget /\ fetched[counts[i + gone].run] > 0
            /\ counts[i + gone].run \in Runs /\ counts[i + gone].run # run
        BY <1>2, <1>6, <3>1, <3>2 DEF Entries
      <4> QED BY <1>1, <1>5, <3>1, <3>2, <4>1
    <3>3. CASE i = Len(counts')
      BY <1>1, <1>4, <1>5, <3>3
    <3>4. Len(counts') \in Nat
      BY <1>4
    <3> QED BY <3>1, <3>2, <3>3, <3>4
  <2>2. ASSUME NEW i \in 1..Len(counts'), NEW j \in 1..Len(counts'),
               counts'[i].run = counts'[j].run
        PROVE  i = j
    <3>0. counts'[Len(counts')].run = run /\ Len(counts') \in Nat /\ gone \in 0..1
      BY <1>3, <1>4
    <3>1. CASE i < Len(counts') /\ j < Len(counts')
      <4>1. i + gone = j + gone
        <5>1. /\ i + gone \in 1..Len(counts) /\ j + gone \in 1..Len(counts)
              /\ counts[i + gone].run = counts[j + gone].run
          BY <2>1, <2>2, <3>1
        <5> QED BY <1>2, <5>1, Zenon DEF Entries
      <4> QED BY <3>0, <4>1
    <3>2. i < Len(counts') => counts'[i].run # run
      BY <1>6, <2>1
    <3>3. j < Len(counts') => counts'[j].run # run
      BY <1>6, <2>1
    <3> QED BY <2>2, <3>0, <3>1, <3>2, <3>3
  <2> QED BY <2>1, <2>2 DEF Entries
<1>10. ASSUME NEW r \in Runs PROVE Accounted(r)'
  <2>1. CASE r = run
    <3>1. CASE Crowded(r) \/ r \in unplaced
      BY <1>5, <1>7, <3>1 DEF Accounted
    <3>2. CASE ~Crowded(r) /\ r \notin unplaced
      <4>1. ~Tracked(r)
        BY <1>6, <2>1 DEF Tracked
      <4>2. r \notin over
        BY <2>1 DEF CountedFetch, FetchInRun
      <4>3. fetched[r] = 0
        BY <1>2, <3>2, <4>1, <4>2 DEF Accounted
      <4>4. fetched'[r] = 1
        BY <1>1, <1>5, <2>1, <4>3
      <4>5. Len(counts') \in 1..Len(counts') /\ counts'[Len(counts')].run = r
               /\ counts'[Len(counts')].used = fetched'[r]
        BY <1>1, <1>3, <1>4, <2>1, <4>4
      <4> QED BY <4>5 DEF Accounted, Tracked
    <3> QED BY <3>1, <3>2
  <2>2. CASE r # run /\ fetched[r] = 0
    BY <1>1, <1>5, <2>2 DEF Accounted
  <2>3. CASE r # run /\ r \in over /\ fetched[r] <= FetchBudget
    BY <1>1, <1>5, <2>3 DEF Accounted
  <2>4. CASE Crowded(r) \/ r \in unplaced
    BY <1>5, <1>7, <2>4 DEF Accounted
  <2>5. CASE r # run /\ fetched[r] > 0 /\ Tracked(r)
    <3>1. PICK i \in 1..Len(counts) :
            /\ counts[i].run = r /\ counts[i].used = fetched[r]
            /\ \A j \in (i + 1)..Len(counts) : counts[j].run \in later[r]
      BY <2>5 DEF Tracked
    <3>2. later'[r] = later[r] \cup {run} /\ fetched'[r] = fetched[r]
      BY <1>1, <1>5, <2>5
    <3>3. CASE i > gone
      <4>1. /\ i - gone \in 1..Len(counts') /\ i - gone < Len(counts')
            /\ counts'[i - gone] = counts[i]
        <5>1. Len(counts') = Len(counts) - gone + 1 /\ Len(counts) \in Nat /\ gone \in 0..1
          BY <1>1, <1>3, <1>4
        <5>2. i - gone \in 1..Len(counts') /\ i - gone < Len(counts') /\ (i - gone) + gone = i
          BY <3>3, <5>1
        <5>3. i - gone \in 1..(Len(counts) - gone)
          BY <3>3, <5>1
        <5>4. counts'[i - gone] = counts[(i - gone) + gone]
          BY <1>4, <5>3, Zenon
        <5> QED BY <5>2, <5>4, Zenon
      <4>2. ASSUME NEW j \in (i - gone + 1)..Len(counts') PROVE counts'[j].run \in later'[r]
        <5>1. CASE j = Len(counts')
          BY <1>4, <3>2, <5>1
        <5>2. CASE j < Len(counts')
          <6>1. /\ j + gone \in (i + 1)..Len(counts) /\ counts'[j] = counts[j + gone]
            <7>1. Len(counts) \in Nat /\ i \in Nat /\ gone \in Int
              BY <1>1, <1>3
            <7>2. j <= Len(counts) - gone /\ j >= i - gone + 1
              BY <1>4, <5>2, <7>1
            <7>3. j \in 1..(Len(counts) - gone)
              BY <3>3, <7>1, <7>2
            <7> QED BY <1>4, <7>1, <7>2, <7>3
          <6>2. counts[j + gone].run \in later[r]
            BY <3>1, <6>1
          <6> QED BY <3>2, <6>1, <6>2
        <5>3. Len(counts') \in Nat /\ i \in Int /\ gone \in Int
          BY <1>3, <1>4
        <5>4. j \in Int /\ j <= Len(counts')
          BY <5>3
        <5>5. j = Len(counts') \/ j < Len(counts')
          BY <5>3, <5>4
        <5> QED BY <5>1, <5>2, <5>5, Zenon
      <4> QED BY <3>1, <3>2, <4>1, <4>2 DEF Accounted, Tracked
    <3>4. CASE i <= gone
      <4>1. i = 1 /\ Len(counts) = FetchCountsMax
        BY <1>3, <3>4
      <4>2. IsFiniteSet(later'[r]) /\ run \in later'[r]
        BY <1>7, <3>2 DEF LaterGrows
      <4>3. \A j \in 2..Len(counts) : counts[j].run \in later'[r]
        BY <3>1, <3>2, <4>1
      <4>4. \A j, k \in 1..Len(counts) : counts[j].run = counts[k].run => j = k
        BY <1>2 DEF Entries
      <4>5. Cardinality(later'[r]) >= FetchCountsMax
        BY <1>1, <1>6, <4>1, <4>2, <4>3, <4>4, FullFact
      <4> QED BY <4>5 DEF Accounted, Crowded
    <3>5. i \in Int /\ gone \in Int
      BY <1>3
    <3> QED BY <3>3, <3>4, <3>5
  <2>6. fetched[r] \in Nat
    BY <1>1
  <2> QED BY <1>2, <2>1, <2>2, <2>3, <2>4, <2>5, <2>6 DEF Accounted
<1> QED BY <1>8, <1>9, <1>10 DEF BudgetInv

LEMMA OneMore ==
  ASSUME NEW used \in 1..FetchBudget, used + 1 <= FetchBudget
  PROVE  used + 1 \in 1..FetchBudget
OBVIOUS

\* A further fetch of a run in the table.
LEMMA NextFetch ==
  ASSUME BudgetInv, NEW run \in Runs, CountedFetch(run), NEW i \in Counted(run),
         counts[i].used < FetchBudget, counts' = [counts EXCEPT ![i].used = @ + 1]
  PROVE  BudgetInv'
<1>1. /\ counts \in Seq(Entry) /\ Len(counts) <= FetchCountsMax
      /\ fetched \in [Runs -> Nat] /\ later \in [Runs -> SUBSET Runs]
  BY DEF BudgetInv, TableTyped
<1>2. Entries /\ \A r \in Runs : Accounted(r)
  BY DEF BudgetInv
<1>3. i \in 1..Len(counts) /\ counts[i] \in Entry /\ counts[i].run = run
  BY <1>1 DEF Counted
<1>4. /\ counts' \in Seq(Entry) /\ Len(counts') = Len(counts)
      /\ counts'[i].run = run /\ counts'[i].used = counts[i].used + 1
      /\ \A j \in 1..Len(counts) : j # i => counts'[j] = counts[j]
  <2> DEFINE e == [counts[i] EXCEPT !.used = counts[i].used + 1]
  <2>1. e \in Entry /\ e.run = run /\ e.used = counts[i].used + 1
    BY <1>3 DEF Entry
  <2>2. counts' = [counts EXCEPT ![i] = e]
    OBVIOUS
  <2> HIDE DEF e
  <2>3. /\ [counts EXCEPT ![i] = e] \in Seq(Entry)
        /\ Len([counts EXCEPT ![i] = e]) = Len(counts)
        /\ \A j \in 1..Len(counts) :
             [counts EXCEPT ![i] = e][j] = IF j = i THEN e ELSE counts[j]
    <3>1. counts \in Seq(Entry) /\ i \in 1..Len(counts) /\ e \in Entry
      BY <1>1, <1>3, <2>1
    <3> QED BY <3>1, ExceptSeq
  <2>4. /\ counts' \in Seq(Entry) /\ Len(counts') = Len(counts)
        /\ \A j \in 1..Len(counts) : counts'[j] = IF j = i THEN e ELSE counts[j]
    BY <2>2, <2>3, Zenon
  <2> QED BY <1>3, <2>1, <2>4
<1>5. \A j \in 1..Len(counts) : counts'[j].run = counts[j].run
  BY <1>3, <1>4
<1>6. /\ fetched' = [fetched EXCEPT ![run] = fetched[run] + 1] /\ UNCHANGED <<over, unplaced>>
      /\ fetched' \in [Runs -> Nat] /\ later'[run] = later[run]
  BY <1>1 DEF CountedFetch, FetchInRun
<1>7. LaterGrows /\ \A r \in Runs : Crowded(r) => Crowded(r)'
  BY LaterFact
<1>8. TableTyped'
  BY <1>1, <1>4, <1>6, <1>7 DEF TableTyped, LaterGrows
<1>9. Entries'
  <2>1. \A j, k \in 1..Len(counts) : counts'[j].run = counts'[k].run => j = k
    BY <1>2, <1>5 DEF Entries
  <2>2. ASSUME NEW j \in 1..Len(counts)
        PROVE  counts'[j].used \in 1..FetchBudget /\ fetched'[counts'[j].run] > 0
    <3>0. counts[j] \in Entry
      BY <1>1
    <3>1. counts[j].used \in 1..FetchBudget /\ fetched[counts[j].run] > 0
             /\ counts[j].run \in Runs
      BY <1>2, <3>0 DEF Entries, Entry
    <3>2. fetched'[counts'[j].run] > 0
      BY <1>1, <1>5, <1>6, <3>1
    <3>3. CASE j = i
      <4>1. counts'[j].used = counts[i].used + 1 /\ counts[i].used \in 1..FetchBudget
        BY <1>4, <3>1, <3>3
      <4>2. counts[i].used + 1 <= FetchBudget /\ FetchBudget \in Nat
        <5> HIDE DEF Counted
        <5> QED BY <4>1
      <4>3. counts'[j].used \in 1..FetchBudget
        BY <4>1, <4>2, OneMore, Zenon
      <4> QED BY <3>2, <4>3, Zenon
    <3>4. CASE j # i
      BY <1>4, <3>1, <3>2, <3>4
    <3> QED BY <3>3, <3>4
  <2> QED BY <1>4, <2>1, <2>2 DEF Entries
<1>10. ASSUME NEW r \in Runs PROVE Accounted(r)'
  <2>1. CASE Crowded(r) \/ r \in unplaced
    BY <1>6, <1>7, <2>1 DEF Accounted
  <2>2. CASE r # run /\ ~Tracked(r) /\ ~Crowded(r)
    BY <1>1, <1>2, <1>6, <2>2 DEF Accounted
  <2>3. CASE Tracked(r)
    <3>1. PICK k \in 1..Len(counts) :
            /\ counts[k].run = r /\ counts[k].used = fetched[r]
            /\ \A j \in (k + 1)..Len(counts) : counts[j].run \in later[r]
      BY <2>3 DEF Tracked
    <3>2. counts'[k].run = r /\ counts'[k].used = fetched'[r]
      <4>1. CASE r = run
        <5>1. k = i
          BY <1>2, <1>3, <3>1, <4>1 DEF Entries
        <5>2. fetched'[r] = fetched[r] + 1
          BY <1>1, <1>6, <4>1
        <5> QED BY <1>4, <3>1, <4>1, <5>1, <5>2
      <4>2. CASE r # run
        <5>1. k # i /\ fetched'[r] = fetched[r]
          BY <1>1, <1>3, <1>6, <3>1, <4>2
        <5> QED BY <1>4, <3>1, <5>1
      <4> QED BY <4>1, <4>2
    <3>3. \A j \in (k + 1)..Len(counts') : counts'[j].run \in later'[r]
      <4>1. \A j \in (k + 1)..Len(counts) : j \in 1..Len(counts)
        OBVIOUS
      <4> QED BY <1>4, <1>5, <1>7, <3>1, <4>1 DEF LaterGrows
    <3> QED BY <1>4, <3>2, <3>3 DEF Accounted, Tracked
  <2>4. CASE r = run /\ ~Tracked(r) /\ ~Crowded(r) /\ r \notin unplaced
    <3>1. fetched[r] > 0 /\ r \notin over
      BY <1>2, <1>3, <2>4 DEF CountedFetch, FetchInRun, Entries
    <3> QED BY <1>1, <1>2, <2>4, <3>1 DEF Accounted
  <2> QED BY <2>1, <2>2, <2>3, <2>4
<1> QED BY <1>8, <1>9, <1>10 DEF BudgetInv

LEMMA BudgetRestart == BudgetInv /\ Restart => BudgetInv'
<1> SUFFICES ASSUME BudgetInv, Restart PROVE BudgetInv'
  OBVIOUS
<1>1. /\ counts' = << >> /\ over' = over \cup {r \in Runs : fetched[r] > 0}
      /\ UNCHANGED <<fetched, later, unplaced>>
  BY DEF Restart
<1>2. fetched \in [Runs -> Nat] /\ \A r \in Runs : Accounted(r)
  BY DEF BudgetInv, TableTyped
<1>3. TableTyped' /\ Entries'
  BY <1>1 DEF BudgetInv, TableTyped, Entries
<1>4. ASSUME NEW r \in Runs PROVE Accounted(r)'
  <2>1. fetched[r] <= FetchBudget \/ Crowded(r) \/ r \in unplaced
    BY <1>2 DEF BudgetInv, Entries, Accounted, Tracked
  <2> QED BY <1>1, <1>2, <2>1 DEF Accounted, Crowded
<1> QED BY <1>3, <1>4 DEF BudgetInv

\* A fetch that is not counted changes nothing for the other runs.
LEMMA BudgetUncounted ==
  ASSUME BudgetInv, NEW run \in Runs, UncountedFetch(run)
  PROVE  BudgetInv'
<1>1. fetched \in [Runs -> Nat] /\ TableTyped /\ Entries /\ \A r \in Runs : Accounted(r)
  BY DEF BudgetInv, TableTyped
<1>2. /\ fetched' = [fetched EXCEPT ![run] = fetched[run] + 1]
      /\ unplaced' = unplaced \cup {run} /\ UNCHANGED <<counts, later, over>>
  BY DEF UncountedFetch, FetchInRun
<1>3. /\ fetched' \in [Runs -> Nat]
      /\ \A r \in Runs : fetched[r] > 0 => fetched'[r] > 0
      /\ \A r \in Runs : r # run => fetched'[r] = fetched[r]
  BY <1>1, <1>2
<1>4. TableTyped'
  BY <1>1, <1>2, <1>3 DEF TableTyped
<1>5. Entries'
  <2>1. \A i \in 1..Len(counts) : counts[i].run \in Runs
    <3>1. \A i \in 1..Len(counts) : counts[i] \in Entry
      BY <1>1 DEF TableTyped
    <3> QED BY <3>1 DEF Entry
  <2> QED BY <1>1, <1>2, <1>3, <2>1 DEF Entries
<1>6. ASSUME NEW r \in Runs PROVE Accounted(r)'
  <2>1. CASE r = run
    BY <1>2, <2>1 DEF Accounted
  <2>2. CASE r # run
    BY <1>1, <1>2, <1>3, <2>2 DEF Accounted, Tracked, Crowded
  <2> QED BY <2>1, <2>2
<1> QED BY <1>4, <1>5, <1>6 DEF BudgetInv

LEMMA BudgetStep == BudgetInv /\ [Next]_vars => BudgetInv'
<1> SUFFICES ASSUME BudgetInv, [Next]_vars PROVE BudgetInv'
  OBVIOUS
<1>1. ASSUME UNCHANGED budgetVars PROVE BudgetInv'
  BY <1>1 DEF budgetVars, BudgetInv, TableTyped, Entries, Accounted, Tracked, Crowded
<1>2. ASSUME NEW c \in Cells, NEW call \in Passing[c], Take(c, call) \/ Give(c, call)
      PROVE  BudgetInv'
  BY <1>1, <1>2 DEF Take, Give
<1>3. ASSUME NEW run \in Runs, CountedFetch(run) PROVE BudgetInv'
  BY <1>3, FirstFetch, NextFetch DEF CountedFetch, NoteFetch
<1>4. ASSUME NEW c \in Cells, NEW id, OtherFetch(c, id) PROVE BudgetInv'
  BY <1>1, <1>4 DEF OtherFetch
<1>5. CASE Mover
  BY <1>1, <1>5 DEF Mover, Move
<1>6. CASE UNCHANGED vars
  BY <1>1, <1>6 DEF vars
<1> QED BY <1>2, <1>3, <1>4, <1>5, <1>6, BudgetRestart, BudgetUncounted DEF Next

\* A scheduled run whose fetches are all counted fetches no more than its
\* budget unless as many others as the table holds were counted since it first
\* fetched (BudgetKept).
THEOREM BudgetIsKept == Spec => []BudgetKept
  BY BudgetInvHolds, InitBudget, BudgetStep, PTL DEF Spec

(***************************************************************************)
(* Types                                                                   *)
(***************************************************************************)
RestTyped ==
  /\ mounts \in [Cells -> SUBSET Stores] /\ over \subseteq Runs /\ unplaced \subseteq Runs
  /\ \A r \in Runs : fetched[r] <= MaxFetches

LEMMA InitRest == Init => RestTyped
<1> SUFFICES ASSUME Init PROVE RestTyped
  OBVIOUS
<1>1. mounts \in [Cells -> SUBSET Stores]
  BY DEF Init, Cells, Compose, Stores, Handoffs
<1> QED BY <1>1 DEF Init, RestTyped

LEMMA RestStep == BudgetInv /\ RestTyped /\ [Next]_vars => RestTyped'
<1> SUFFICES ASSUME BudgetInv, RestTyped, [Next]_vars PROVE RestTyped'
  OBVIOUS
<1>1. fetched \in [Runs -> Nat]
  BY DEF BudgetInv, TableTyped
<1>2. ASSUME NEW run \in Runs, CountedFetch(run) \/ UncountedFetch(run) PROVE RestTyped'
  <2>1. \A r \in Runs : fetched'[r] = IF r = run THEN fetched[r] + 1 ELSE fetched[r]
    BY <1>1, <1>2 DEF CountedFetch, UncountedFetch, FetchInRun
  <2>2. \A r \in Runs : fetched'[r] <= MaxFetches
    BY <1>1, <1>2, <2>1 DEF CountedFetch, UncountedFetch, FetchInRun, RestTyped
  <2> QED BY <1>2, <2>2 DEF CountedFetch, UncountedFetch, FetchInRun, layers, RestTyped
<1>3. CASE Restart
  BY <1>3 DEF Restart, flowVars, layers, RestTyped
<1>4. CASE UNCHANGED <<mounts, over, fetched, unplaced>>
  BY <1>4 DEF RestTyped
<1>5. ASSUME NEW c \in Cells, NEW call \in Passing[c], Take(c, call) \/ Give(c, call)
      PROVE  RestTyped'
  BY <1>4, <1>5 DEF Take, Give, layers, budgetVars
<1>6. ASSUME NEW c \in Cells, NEW id, OtherFetch(c, id) PROVE RestTyped'
  BY <1>4, <1>6 DEF OtherFetch, layers, budgetVars
<1>7. CASE Mover
  BY <1>4, <1>7 DEF Mover, Move, layers, budgetVars
<1>8. CASE UNCHANGED vars
  BY <1>4, <1>8 DEF vars, flowVars, layers, budgetVars
<1> QED BY <1>2, <1>3, <1>5, <1>6, <1>7, <1>8 DEF Next

LEMMA SeqTyped ==
  ASSUME NEW S, NEW T, NEW seq \in Seq(S), \A i \in 1..Len(seq) : seq[i] \in T
  PROVE  seq \in Seq(T)
<1>1. Len(seq) \in Nat /\ seq \in [1..Len(seq) -> S]
  BY LenProperties
<1>2. seq \in [1..Len(seq) -> T]
  BY <1>1
<1>3. seq \in UNION {[1..n -> T] : n \in Nat}
  BY <1>1, <1>2
<1>4. Seq(T) = UNION {[1..n -> T] : n \in Nat}
  BY SeqDef, Zenon
<1> QED BY <1>3, <1>4, Zenon

\* The stores, the sessions and the table hold what they should (TypeOK): no
\* entry is beyond the budget, and no run beyond the fetches it makes.
THEOREM TypeCorrect == Spec => []TypeOK
<1>1. FlowInv /\ BudgetInv /\ RestTyped => TypeOK
  <2> SUFFICES ASSUME FlowInv, BudgetInv, RestTyped PROVE TypeOK
    OBVIOUS
  <2>1. counts \in Seq([run : Runs, used : 1..FetchBudget])
    <3>1. counts \in Seq(Entry)
      BY DEF BudgetInv, TableTyped
    <3>2. ASSUME NEW i \in 1..Len(counts)
          PROVE  counts[i] \in [run : Runs, used : 1..FetchBudget]
      <4>1. counts[i] \in Entry
        BY <3>1
      <4>2. counts[i].used \in 1..FetchBudget
        BY DEF BudgetInv, Entries
      <4> QED BY <4>1, <4>2 DEF Entry
    <3>3. \A i \in 1..Len(counts) : counts[i] \in [run : Runs, used : 1..FetchBudget]
      BY <3>2
    <3> QED BY <3>1, <3>3, SeqTyped
  <2>2. fetched \in [Runs -> 0..MaxFetches] /\ later \in [Runs -> SUBSET Runs]
    BY DEF BudgetInv, TableTyped, RestTyped
  <2> QED BY <2>1, <2>2 DEF FlowInv, FlowTyped, RestTyped, TypeOK
<1> QED BY <1>1, InitFlow, FlowStep, InitBudget, BudgetStep, InitRest, RestStep, PTL DEF Spec
=============================================================================
