------------------------------- MODULE Pairing -------------------------------
(***************************************************************************)
(* How the control plane comes to be paired with its gateways: the device  *)
(* identity it keeps in a file (gateway-client device-identity.ts), the    *)
(* table of links in the API (PersistentGatewayConnector), and the two     *)
(* scripts run by hand (control-plane/scripts/bootstrap): one probes the   *)
(* gateways, one pairs.  What a link does between two handshakes is in     *)
(* GatewayLink.                                                            *)
(*                                                                         *)
(* An identity is the number of the key pair.  A gateway answers a device  *)
(* it does not know with a request, an old one or one that replaces it,    *)
(* and forgets requests with time.  Any exchange may fail, or find no      *)
(* token to send.                                                          *)
(***************************************************************************)
EXTENDS Integers, Sequences, Functions

CONSTANTS
  Fleet,        \* the gateways, in order
  MaxIds        \* bound on the identities made

ASSUME PairingAssumption ==
  MaxIds \in Nat \ {0} /\ Fleet \in Seq(Range(Fleet))

Gateways == Range(Fleet)
NoId == 0    \* no identity, no request
Torn == -1   \* a file cut short
Bare == -2   \* a file that parses but lacks a field
Ids == 1..MaxIds
Loaders == {"api", "probe"}

VARIABLES
  file,     \* device-identity.json
  made,     \* identities made so far
  loader,   \* the API and the probe: what they do and the identity they have
  left,     \* the probe: gateways to go
  link,     \* the API: links of the connector
  script,   \* the pairing script
  paired,   \* the gateways: identities paired
  pending   \* the gateways: requests

identityVars == <<file, made, loader>>
gatewayVars == <<paired, pending>>
pairingVars == <<identityVars, left, link, script, gatewayVars>>

LoaderState == [at : {"off", "creating", "up"}, id : Ids \cup {NoId}]
ScriptState == [at : {"off", "connect", "approve", "check", "done"}, todo : Seq(Gateways),
                id : Ids \cup {NoId}, held : BOOLEAN,
                claims : SUBSET Gateways, failed : BOOLEAN]

PairingTypeOK ==
  /\ file \in Ids \cup {NoId, Torn, Bare} /\ made \in 0..MaxIds
  /\ loader \in [Loaders -> LoaderState]
  /\ left \in Seq(Gateways)
  /\ link \in [Gateways -> {"none", "unpaired", "ready"}]
  /\ script \in ScriptState
  /\ paired \in [Gateways -> SUBSET Ids]
  /\ pending \in [Gateways -> SUBSET Ids]

PairingInit ==
  /\ file = NoId /\ made = 0
  /\ loader = [p \in Loaders |-> [at |-> "off", id |-> NoId]]
  /\ left = << >> /\ link = [g \in Gateways |-> "none"]
  /\ script = [at |-> "off", todo |-> << >>, id |-> NoId, held |-> FALSE, claims |-> {},
               failed |-> FALSE]
  /\ paired = [g \in Gateways |-> {}] /\ pending = [g \in Gateways |-> {}]

(***************************************************************************)
(* The identity                                                            *)
(***************************************************************************)
Up(p, id) ==
  /\ loader' = [loader EXCEPT ![p] = [at |-> "up", id |-> id]]
  /\ left' = IF p = "probe" THEN Fleet ELSE left

\* loadOrCreateIdentity(): a file with all its fields is taken as it is, one that
\* lacks some counts as none, one cut short fails every start.  The probe runs
\* beside the API or not; what it starts with only the public key missing ends
\* when it is to sign.
Load(p) ==
  /\ loader[p].at = "off"
  /\ \/ file \in Ids /\ Up(p, file)
     \/ file \in {NoId, Bare} /\ UNCHANGED left
          /\ loader' = [loader EXCEPT ![p].at = "creating"]
  /\ UNCHANGED <<file, made, link, script, gatewayVars>>

\* Found no identity: a new pair is written over whatever came meanwhile.
Create(p) ==
  /\ loader[p].at = "creating" /\ made < MaxIds
  /\ made' = made + 1 /\ file' = made + 1 /\ Up(p, made + 1)
  /\ UNCHANGED <<link, script, gatewayVars>>

\* The probe has its own copy of loadOrCreateIdentity().
ProbeCreates == Create("probe")

\* The process ends while it writes.
CreateStops(p) ==
  /\ loader[p].at = "creating" /\ file' = Torn
  /\ loader' = [loader EXCEPT ![p].at = "off"]
  /\ UNCHANGED <<made, left, link, script, gatewayVars>>

\* The operator deletes a file that cannot be read.
Cleanup ==
  /\ file = Torn /\ file' = NoId
  /\ UNCHANGED <<made, loader, left, link, script, gatewayVars>>

\* An edit by hand leaves a field out.
LosesField ==
  /\ file \in Ids /\ file' = Bare
  /\ UNCHANGED <<made, loader, left, link, script, gatewayVars>>

(***************************************************************************)
(* A handshake                                                             *)
(***************************************************************************)
\* The gateway answers an unknown device with a request, the one it has or a
\* new one in its place.
Asks(g, id) == pending' = [pending EXCEPT ![g] = @ \cup {id}]

\* The request the script is about to approve
IsHeld(g, id) == script.at = "approve" /\ g = Head(script.todo) /\ id = script.id

\* Another process asks with the same identity: the script's request stays or
\* is replaced.
MayReplace(g, id) ==
  \/ UNCHANGED script
  \/ IsHeld(g, id) /\ script' = [script EXCEPT !.held = FALSE]

\* A request is forgotten after five minutes.
Expires(g, id) ==
  /\ id \in pending[g] /\ pending' = [pending EXCEPT ![g] = @ \ {id}]
  /\ script' = [script EXCEPT !.held = @ /\ ~IsHeld(g, id)]
  /\ UNCHANGED <<identityVars, left, link, paired>>

(***************************************************************************)
(* The API                                                                 *)
(***************************************************************************)
\* Slip: a link is opened once, and what failed stays failed.
OnceOnly == {"none"}
\* States in which start(), a call or the link's own timer tries a handshake.
Retried == {"none", "unpaired"}

\* The handshake succeeds or asks to be paired.  One that fails, or a token that
\* cannot be read, leaves the link as it is.
Connect(g) ==
  /\ loader["api"].at = "up" /\ link[g] \in Retried
  /\ LET id == loader["api"].id
     IN \/ id \in paired[g] /\ link' = [link EXCEPT ![g] = "ready"]
             /\ UNCHANGED <<pending, script>>
        \/ id \notin paired[g] /\ link' = [link EXCEPT ![g] = "unpaired"]
             /\ Asks(g, id) /\ MayReplace(g, id)
  /\ UNCHANGED <<identityVars, left, paired>>

\* The socket closes.
Drop(g) ==
  /\ link[g] = "ready" /\ link' = [link EXCEPT ![g] = "none"]
  /\ UNCHANGED <<identityVars, left, script, gatewayVars>>

\* close(), or the end of the process
CloseAll ==
  /\ loader["api"].at = "up"
  /\ loader' = [loader EXCEPT !["api"] = [at |-> "off", id |-> NoId]]
  /\ link' = [g \in Gateways |-> "none"]
  /\ UNCHANGED <<file, made, left, script, gatewayVars>>

(***************************************************************************)
(* The probe                                                               *)
(***************************************************************************)
\* It asks one gateway after the other, and leaves requests behind.
Probe ==
  LET g == Head(left)
      id == loader["probe"].id
  IN /\ loader["probe"].at = "up" /\ left # << >> /\ left' = Tail(left)
     /\ \/ id \notin paired[g] /\ Asks(g, id) /\ MayReplace(g, id)
        \/ UNCHANGED <<pending, script>>
     /\ UNCHANGED <<identityVars, link, paired>>

ProbeEnds ==
  /\ loader["probe"].at = "up" /\ left = << >>
  /\ loader' = [loader EXCEPT !["probe"] = [at |-> "off", id |-> NoId]]
  /\ UNCHANGED <<file, made, left, link, script, gatewayVars>>

(***************************************************************************)
(* The pairing script                                                      *)
(***************************************************************************)
\* It needs an identity it can sign with; --gateway picks one gateway, or none if
\* its name is not in the fleet; with --dry-run it approves nothing and claims
\* nothing.
Chosen == {Fleet, << >>} \cup {<<g>> : g \in Gateways}
Start(todo, dry) ==
  /\ script.at \in {"off", "done"} /\ file \in Ids
  /\ script' = [at |-> IF todo = << >> THEN "done" ELSE "connect", todo |-> todo,
                id |-> file, held |-> FALSE,
                claims |-> IF dry THEN {} ELSE Range(todo), failed |-> FALSE]
  /\ UNCHANGED <<identityVars, left, link, gatewayVars>>

\* On to the next gateway, or to the report.
OnTo(failed) ==
  [script EXCEPT !.at = IF Len(script.todo) > 1 THEN "connect" ELSE "done",
                 !.todo = Tail(@), !.held = FALSE, !.failed = @ \/ failed]

ToApprove == [script EXCEPT !.at = "approve", !.held = TRUE]

\* The first connect: no token or no answer, paired, or a request, which is not
\* approved if it would change a device the gateway knows.
First ==
  LET g == Head(script.todo)
  IN /\ script.at = "connect"
     /\ \/ script' = OnTo(TRUE) /\ UNCHANGED pending
        \/ script.id \in paired[g] /\ script' = OnTo(FALSE)
             /\ UNCHANGED pending
        \/ script.id \notin paired[g] /\ Asks(g, script.id)
             /\ script' \in {IF script.claims = {} THEN OnTo(FALSE) ELSE ToApprove,
                            OnTo(TRUE)}
     /\ UNCHANGED <<identityVars, left, link, paired>>

\* Slip: the command's word is taken for it.
TakenAtItsWord == OnTo(FALSE)
\* After the approval the gateway is asked again.
ToCheck == [script EXCEPT !.at = "check", !.held = FALSE]

\* approve(): it fails if the request is gone, and may fail though the gateway
\* did it; output it cannot read it takes for success.
Approve ==
  LET g == Head(script.todo)
  IN /\ script.at = "approve"
     /\ \/ /\ script.held
           /\ paired' = [paired EXCEPT ![g] = @ \cup {script.id}]
           /\ pending' = [pending EXCEPT ![g] = @ \ {script.id}]
        \/ UNCHANGED <<paired, pending>>
     /\ script' \in {ToCheck, OnTo(TRUE)}
     /\ UNCHANGED <<identityVars, left, link>>

\* The second connect
Check ==
  LET g == Head(script.todo)
  IN /\ script.at = "check"
     /\ \/ script' = OnTo(TRUE) /\ UNCHANGED pending
        \/ script.id \in paired[g] /\ script' = OnTo(FALSE) /\ UNCHANGED pending
        \/ script.id \notin paired[g] /\ script' = OnTo(TRUE) /\ Asks(g, script.id)
     /\ UNCHANGED <<identityVars, left, link, paired>>

PairingNext ==
  \/ \E p \in Loaders : Load(p) \/ CreateStops(p)
  \/ Create("api") \/ ProbeCreates
  \/ Cleanup \/ LosesField \/ CloseAll \/ Probe \/ ProbeEnds
  \/ \E g \in Gateways : Connect(g) \/ Drop(g) \/ \E id \in Ids : Expires(g, id)
  \/ \E todo \in Chosen, dry \in BOOLEAN : Start(todo, dry)
  \/ First \/ Approve \/ Check

PairingSpec == PairingInit /\ [][PairingNext]_pairingVars

(***************************************************************************)
(* Fairness: the fleet sweep calls every gateway, and a link's timer tries *)
(* again, with a token that can be read.  Scripts are run or not.          *)
(***************************************************************************)
PairingFairSpec == PairingSpec /\ \A g \in Gateways : WF_pairingVars(Connect(g))

(***************************************************************************)
(* Properties                                                              *)
(***************************************************************************)
\* The script that reports no failure has paired the identity it read with
\* every gateway it was asked for, though requests expire or are replaced
\* under it and the command may claim what it did not do.
ReportIsTrue ==
  script.at = "done" /\ ~script.failed
    => \A g \in script.claims : script.id \in paired[g]

\* An API that has the identity the script paired gets its link without a
\* restart, in whatever order it, the probe and the script were started.
LinksFollow ==
  \A g \in Gateways :
    script.at = "done" /\ ~script.failed /\ g \in script.claims
        /\ loader["api"] = [at |-> "up", id |-> script.id]
      ~> link[g] = "ready" \/ loader["api"].id = NoId
=============================================================================
