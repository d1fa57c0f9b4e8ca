-------------------------------- MODULE Access --------------------------------
(***************************************************************************)
(* SSH and VNC access of agents (ssh/mod.rs, vnc/mod.rs): what a pass of   *)
(* the reconciler writes on the host (the host key in the store, the       *)
(* client files, known_hosts and the generated client configuration) and   *)
(* in the guest (platform/linux/ssh.rs, platform/linux/vnc.rs), in the     *)
(* order it writes it.  A pass may fail at any step, be dropped at any     *)
(* step (an immediate stop, a guest that does not answer), and agentd may  *)
(* end at any step; the next pass starts over.                             *)
(* Passes of one agent never overlap (the controller's promise).  Listing  *)
(* the agents and writing the configuration from the list are one step:    *)
(* lists are answered, and their tasks resumed, in one order.              *)
(***************************************************************************)
EXTENDS Naturals

CONSTANTS Incarnations,     \* agents, in the order they can take their name
          NameOf,           \* the name each incarnation has, a number that is no incarnation
          MaxKeys,          \* bound: host keys generated
          MaxApplies,       \* bound: manifests applied
          MaxRelease        \* bound: releases of agentd, each with its own server policy

NoKey == 0
Specs == [ssh : BOOLEAN, vnc : BOOLEAN, generation : 0..MaxApplies]
Off == [key |-> NoKey, policy |-> 0]

ASSUME AccessConstants ==
    /\ Incarnations \subseteq Nat /\ NameOf \in [Incarnations -> Nat \ Incarnations]
    /\ {MaxKeys, MaxApplies, MaxRelease} \subseteq Nat

VARIABLES agent,      \* "absent", "active", "deleting" or "gone", by incarnation
          spec,       \* the declared access, by incarnation
          settled,    \* the last pass recorded success for this spec
          host_key,     \* the host key in the secret store
          client,     \* the client key pair is in the agent's directory
          known,      \* known_hosts: the key by host alias (an incarnation or a name)
          config,     \* incarnations in the generated client configuration
          applied,    \* the VNC access agentd remembers having applied
          guest,      \* the guest's files, units and processes
          access_pass,       \* the pass under way, by incarnation
          made,       \* host keys generated
          applies,    \* manifests applied
          release,    \* the running release of agentd
          cut         \* <<a, "policy">>: a pass ended between the server's files and its restart;
                      \* <<a, "viewer">>: one was dropped with VNC granted and remembered as withdrawn

accessVars == <<agent, spec, settled, host_key, client, known, config, applied, guest, access_pass,
                made, applies, release, cut>>
hostVars == <<host_key, client, known, config>>
userVars == <<agent, spec, applies>>

Names == {NameOf[a] : a \in Incarnations}
Aliases == Incarnations \cup Names
NoAccessPass == [at |-> "idle"]

\* A sandbox as its image makes it: the units the image declares for VNC are disabled.
NewGuest == [up |-> TRUE, key |-> NoKey, policy |-> 0, unit |-> FALSE, enabled |-> FALSE,
             authorized |-> FALSE, server |-> Off, viewer |-> "inactive", viewerEnabled |-> FALSE]
NoGuest == [NewGuest EXCEPT !.up = FALSE]

AccessTypeOK ==
    /\ agent \in [Incarnations -> {"absent", "active", "deleting", "gone"}]
    /\ spec \in [Incarnations -> Specs] /\ settled \in [Incarnations -> BOOLEAN]
    /\ host_key \in [Incarnations -> 0..MaxKeys] /\ client \in [Incarnations -> BOOLEAN]
    /\ known \in [Aliases -> 0..MaxKeys] /\ config \subseteq Incarnations
    /\ applied \in [Incarnations -> {"unknown", "granted", "withdrawn"}]
    /\ \A a \in Incarnations :
         /\ guest[a].viewer \in {"inactive", "starting", "listening"}
         /\ guest[a].up => agent[a] \in {"active", "deleting"}
         /\ guest[a].server # Off => guest[a].server.key # NoKey /\ guest[a].server.policy # 0

AccessInit ==
    /\ agent = [a \in Incarnations |-> "absent"]
    /\ spec = [a \in Incarnations |-> [ssh |-> FALSE, vnc |-> FALSE, generation |-> 0]]
    /\ settled = [a \in Incarnations |-> FALSE]
    /\ host_key = [a \in Incarnations |-> NoKey] /\ client = [a \in Incarnations |-> FALSE]
    /\ known = [h \in Aliases |-> NoKey] /\ config = {}
    /\ applied = [a \in Incarnations |-> "unknown"]
    /\ guest = [a \in Incarnations |-> NoGuest]
    /\ access_pass = [a \in Incarnations |-> NoAccessPass]
    /\ made = 0 /\ applies = 0 /\ release = 1 /\ cut = {}

(***************************************************************************)
(* The user, and the guest by itself.                                      *)
(***************************************************************************)
Applies(a) ==
    /\ applies < MaxApplies /\ applies' = applies + 1
    /\ \/ agent[a] = "active"
       \/ /\ agent[a] = "absent"
          /\ \A b \in Incarnations : NameOf[b] = NameOf[a] => agent[b] \in {"absent", "gone"}
          /\ \A b \in Incarnations : agent[b] = "absent" => b >= a
    /\ agent' = [agent EXCEPT ![a] = "active"]
    /\ \E ssh, vnc \in BOOLEAN :
         /\ <<ssh, vnc>> # <<spec[a].ssh, spec[a].vnc>> \/ agent[a] = "absent"
         /\ spec' = [spec EXCEPT ![a] = [ssh |-> ssh, vnc |-> vnc, generation |-> applies + 1]]
    /\ settled' = [settled EXCEPT ![a] = FALSE]
    /\ UNCHANGED <<hostVars, applied, guest, access_pass, made, release, cut>>

Deletes(a) ==
    /\ agent[a] = "active"
    /\ agent' = [agent EXCEPT ![a] = "deleting"]
    /\ settled' = [settled EXCEPT ![a] = FALSE]
    /\ UNCHANGED <<spec, hostVars, applied, guest, access_pass, made, applies, release, cut>>

\* The VM stops, whoever stopped it; its disk stays.
GuestStops(a) ==
    /\ guest[a].up
    /\ guest' = [guest EXCEPT ![a].up = FALSE, ![a].server = Off, ![a].viewer = "inactive"]
    /\ UNCHANGED <<userVars, settled, hostVars, applied, access_pass, made, release, cut>>

\* What systemd starts: the enabled units, the server only with its host key there.
Served(g) == IF g.unit /\ g.key # NoKey THEN [key |-> g.key, policy |-> g.policy] ELSE Off

BootedGuest(g) == [g EXCEPT !.up = TRUE,
                      !.server = IF g.enabled THEN Served(g) ELSE Off,
                      !.viewer = IF g.viewerEnabled THEN "starting" ELSE "inactive"]

ViewerListens(a) ==
    /\ guest[a].viewer = "starting"
    /\ guest' = [guest EXCEPT ![a].viewer = "listening"]
    /\ UNCHANGED <<userVars, settled, hostVars, applied, access_pass, made, release, cut>>

(***************************************************************************)
(* A pass: the sandbox is ensured, then SSH, then VNC access.              *)
(***************************************************************************)
BeginsAccess(a) ==
    /\ access_pass[a] = NoAccessPass /\ agent[a] \in {"active", "deleting"}
    /\ access_pass' = [access_pass EXCEPT ![a] =
                  [at |-> IF agent[a] = "deleting" THEN "release"
                          ELSE IF spec[a].ssh THEN "verify" ELSE "disable",
                   release |-> agent[a] = "deleting",
                   vnc |-> spec[a].vnc, generation |-> spec[a].generation, changed |-> FALSE]]
    /\ guest' = [guest EXCEPT ![a] = IF agent[a] = "deleting" \/ @.up THEN @ ELSE BootedGuest(@)]
    /\ UNCHANGED <<userVars, settled, hostVars, applied, made, release, cut>>

PassAt(a, step) == access_pass[a] # NoAccessPass /\ access_pass[a].at = step
To(a, step) == access_pass' = [access_pass EXCEPT ![a].at = step]

OnHost(a, from, to) ==
    /\ PassAt(a, from) /\ To(a, to)
    /\ UNCHANGED <<userVars, settled, applied, guest, release, cut>>

InGuest(a, from, to, g) ==
    /\ PassAt(a, from) /\ guest[a].up
    /\ guest' = [guest EXCEPT ![a] = g]
    /\ To(a, to)
    /\ UNCHANGED <<userVars, settled, hostVars, applied, made, release, cut>>

\* verify_server only reads the guest; a failure is Fails.
verify_server(a) == InGuest(a, "verify", "host key", guest[a])

\* The stored key, or a new one that is stored before anything shows it.
LoadsHostKey(a) ==
    /\ OnHost(a, "host key", "client files")
    /\ IF host_key[a] # NoKey
       THEN UNCHANGED <<host_key, made>>
       ELSE made < MaxKeys /\ made' = made + 1 /\ host_key' = [host_key EXCEPT ![a] = made + 1]
    /\ UNCHANGED <<client, known, config>>

\* Only the incarnation's entry; the name's is left to the agent that had it before.
WritesClientFiles_IncarnationOnly(a) ==
    /\ OnHost(a, "client files", "configuration")
    /\ client' = [client EXCEPT ![a] = TRUE]
    /\ known' = [known EXCEPT ![a] = host_key[a]]
    /\ UNCHANGED <<host_key, config, made>>

\* ensure_client_key, then both known_hosts entries: of the incarnation and of its name.
WritesClientFiles(a) ==
    /\ OnHost(a, "client files", "configuration")
    /\ client' = [client EXCEPT ![a] = TRUE]
    /\ known' = [known EXCEPT ![a] = host_key[a], ![NameOf[a]] = host_key[a]]
    /\ UNCHANGED <<host_key, config, made>>

Listed == {a \in Incarnations : agent[a] = "active" /\ spec[a].ssh}

rewrite_config(a, from, to) ==
    /\ OnHost(a, from, to)
    /\ config' = Listed
    /\ UNCHANGED <<host_key, client, known, made>>

\* Each file is written when it differs, and the pass remembers that one did.
WritesServerFiles(a) ==
    /\ PassAt(a, "server key") /\ guest[a].up
    /\ access_pass' = [access_pass EXCEPT ![a].at = "policy", ![a].changed = (guest[a].key # host_key[a])]
    /\ guest' = [guest EXCEPT ![a].key = host_key[a]]
    /\ UNCHANGED <<userVars, settled, hostVars, applied, made, release, cut>>

WritesPolicy(a) ==
    /\ PassAt(a, "policy") /\ guest[a].up
    /\ access_pass' = [access_pass EXCEPT ![a].at = "authorize",
                            ![a].changed = (@ \/ guest[a].policy # release \/ ~guest[a].unit)]
    /\ guest' = [guest EXCEPT ![a].policy = release, ![a].unit = TRUE]
    /\ UNCHANGED <<userVars, settled, hostVars, applied, made, release, cut>>

\* The effective policy has been checked; the key that may log in and the login environment follow.
WritesAuthorizedKeys(a) ==
    InGuest(a, "authorize", "enable", [guest[a] EXCEPT !.authorized = TRUE])

EnablesServer(a) == InGuest(a, "enable", "start", [guest[a] EXCEPT !.enabled = TRUE])

\* A changed file restarts the server; `start` leaves a running one alone.
StartsServer(a) ==
    InGuest(a, "start", IF access_pass[a].vnc THEN "grant" ELSE "withdraw",
            [guest[a] EXCEPT !.server = IF access_pass[a].changed \/ @ = Off THEN Served(guest[a]) ELSE @])

(***************************************************************************)
(* Without declared access: first the guest, then the host.                *)
(***************************************************************************)
HasState(g) == g.key # NoKey \/ g.policy # 0 \/ g.unit \/ g.authorized

DisablesServer(a) ==
    InGuest(a, "disable", IF HasState(guest[a]) THEN "remove unit" ELSE "host material",
            IF HasState(guest[a]) THEN [guest[a] EXCEPT !.enabled = FALSE, !.server = Off] ELSE guest[a])

RemovesUnit(a) == InGuest(a, "remove unit", "remove state", [guest[a] EXCEPT !.unit = FALSE])

RemovesState(a) ==
    InGuest(a, "remove state", "host material",
            [guest[a] EXCEPT !.key = NoKey, !.policy = 0, !.authorized = FALSE])

DeletesHostKey(a) ==
    /\ OnHost(a, "host material", "host files")
    /\ host_key' = [host_key EXCEPT ![a] = NoKey]
    /\ UNCHANGED <<client, known, config, made>>

OwnedByAnother(a) ==
    \E b \in Incarnations \ {a} :
      NameOf[b] = NameOf[a] /\ agent[b] \in {"active", "deleting"} /\ spec[b].ssh

RemovesHostFiles(a) ==
    /\ OnHost(a, "host files", "last configuration")
    /\ client' = [client EXCEPT ![a] = FALSE]
    /\ known' = [known EXCEPT ![a] = NoKey,
                              ![NameOf[a]] = IF OwnedByAnother(a) THEN @ ELSE NoKey]
    /\ UNCHANGED <<host_key, config, made>>

RewritesLast(a) ==
    /\ access_pass[a] # NoAccessPass
    /\ rewrite_config(a, "last configuration",
                      IF access_pass[a].release THEN "finalize"
                      ELSE IF access_pass[a].vnc THEN "grant" ELSE "withdraw")

(***************************************************************************)
(* VNC access, and what agentd remembers of it.                            *)
(***************************************************************************)
EnablesViewer(a) ==
    InGuest(a, "grant", "listening",
            [guest[a] EXCEPT !.viewerEnabled = TRUE,
                             !.viewer = IF @ = "inactive" THEN "starting" ELSE @])

\* The pass ends well: what it did is remembered and the status stored, unless a newer spec is.
RecordsAccess(a, vnc) ==
    /\ applied' = [applied EXCEPT ![a] = vnc]
    /\ settled' = [settled EXCEPT ![a] =
                   @ \/ (agent[a] = "active" /\ spec[a].generation = access_pass[a].generation)]
    /\ access_pass' = [access_pass EXCEPT ![a] = NoAccessPass]

SeesViewer(a) ==
    /\ PassAt(a, "listening") /\ guest[a].viewer = "listening"
    /\ RecordsAccess(a, "granted")
    /\ cut' = cut \ {<<a, "viewer">>}
    /\ UNCHANGED <<userVars, hostVars, guest, made, release>>

\* A withdrawal agentd remembers is not repeated.
SkipsWithdrawal(a) ==
    /\ PassAt(a, "withdraw") /\ applied[a] = "withdrawn"
    /\ RecordsAccess(a, "withdrawn")
    /\ UNCHANGED <<userVars, hostVars, guest, made, release, cut>>

DisablesViewer(a) ==
    /\ applied[a] # "withdrawn"
    /\ InGuest(a, "withdraw", "inactive",
               [guest[a] EXCEPT !.viewerEnabled = FALSE, !.viewer = "inactive"])

SeesNoViewer(a) ==
    /\ PassAt(a, "inactive") /\ guest[a].up /\ guest[a].viewer = "inactive"
    /\ RecordsAccess(a, "withdrawn")
    /\ cut' = cut \ {<<a, "viewer">>}
    /\ UNCHANGED <<userVars, hostVars, guest, made, release>>

(***************************************************************************)
(* Deletion: the sandbox, the host material, what is remembered, the row.  *)
(***************************************************************************)
ReleasesSandbox(a) ==
    /\ PassAt(a, "release")
    /\ guest' = [guest EXCEPT ![a] = NoGuest]
    /\ To(a, "host material")
    /\ UNCHANGED <<userVars, settled, hostVars, applied, made, release, cut>>

Finalizes(a) ==
    /\ PassAt(a, "finalize")
    /\ agent' = [agent EXCEPT ![a] = "gone"]
    /\ applied' = [applied EXCEPT ![a] = "unknown"]
    /\ host_key' = [host_key EXCEPT ![a] = NoKey]
    /\ access_pass' = [access_pass EXCEPT ![a] = NoAccessPass]
    /\ UNCHANGED <<cut, spec, applies, settled, client, known, config, guest, made, release>>

(***************************************************************************)
(* Ways a pass ends early.                                                 *)
(***************************************************************************)
\* An error: it is recorded, and what VNC access is applied is forgotten if its pass failed.
InViewer(a) == access_pass[a].at \in {"grant", "listening", "withdraw", "inactive"}

\* What the end of a pass here leaves for later passes to miss.
Unrestarted(a) ==
    IF access_pass[a] # NoAccessPass /\ access_pass[a].at \in {"policy", "authorize", "enable", "start"} /\ access_pass[a].changed
      THEN {<<a, "policy">>} ELSE {}

Misremembered(a) ==
    IF access_pass[a].at = "listening" /\ applied[a] = "withdrawn" THEN {<<a, "viewer">>} ELSE {}

Fails(a) ==
    /\ access_pass[a] # NoAccessPass
    /\ settled' = [settled EXCEPT ![a] = FALSE]
    /\ applied' = [applied EXCEPT ![a] = IF InViewer(a) THEN "unknown" ELSE @]
    /\ access_pass' = [access_pass EXCEPT ![a] = NoAccessPass]
    /\ cut' = cut \cup Unrestarted(a)
    /\ UNCHANGED <<userVars, hostVars, guest, made, release>>

\* An immediate stop, or a guest that stopped answering: the pass is dropped where it is.
Dropped(a) ==
    /\ access_pass[a] # NoAccessPass /\ agent[a] = "active"
    /\ settled' = [settled EXCEPT ![a] = FALSE]
    /\ access_pass' = [access_pass EXCEPT ![a] = NoAccessPass]
    /\ cut' = cut \cup Unrestarted(a) \cup Misremembered(a)
    /\ UNCHANGED <<userVars, hostVars, applied, guest, made, release>>

\* agentd ends, and starts again, as this release or the next.
AgentdRestarts ==
    /\ applied' = [a \in Incarnations |-> "unknown"]
    /\ cut' = cut \cup UNION {Unrestarted(a) : a \in Incarnations}
    /\ access_pass' = [a \in Incarnations |-> NoAccessPass]
    /\ release' \in release..MaxRelease /\ release' <= release + 1
    /\ UNCHANGED <<userVars, settled, hostVars, guest, made>>

GrantsSsh(a) == \/ verify_server(a) \/ LoadsHostKey(a) \/ WritesClientFiles(a)
                \/ rewrite_config(a, "configuration", "server key")
                \/ WritesServerFiles(a) \/ WritesPolicy(a) \/ WritesAuthorizedKeys(a)
                \/ EnablesServer(a) \/ StartsServer(a)

WithdrawsSsh(a) == \/ DisablesServer(a) \/ RemovesUnit(a) \/ RemovesState(a)
                   \/ DeletesHostKey(a) \/ RemovesHostFiles(a) \/ RewritesLast(a)

PassesVnc(a) == \/ EnablesViewer(a) \/ SeesViewer(a) \/ SkipsWithdrawal(a)
                \/ DisablesViewer(a) \/ SeesNoViewer(a)

AccessNext ==
    \/ \E a \in Incarnations :
         \/ Applies(a) \/ Deletes(a) \/ GuestStops(a) \/ ViewerListens(a)
         \/ BeginsAccess(a) \/ GrantsSsh(a) \/ WithdrawsSsh(a) \/ PassesVnc(a)
         \/ ReleasesSandbox(a) \/ Finalizes(a) \/ Fails(a) \/ Dropped(a)
    \/ AgentdRestarts

AccessSpec == AccessInit /\ [][AccessNext]_accessVars

(***************************************************************************)
(* Properties.                                                             *)
(***************************************************************************)
\* While a server may be running, the store and known_hosts have the key it answers with, at
\* every step of a grant, a withdrawal or a deletion and wherever they were cut short.
ServedKeyIsKnown ==
    \A a \in Incarnations :
      guest[a].server # Off =>
        guest[a].server.key = host_key[a] /\ known[a] = host_key[a]

\* An agent recorded with SSH access can be reached by its name: its key is known by both
\* aliases, the client's key is there and the configuration lists it, during later passes too.
ReadyIsReachable ==
    \A a \in Incarnations :
      (settled[a] /\ spec[a].ssh) =>
        /\ host_key[a] # NoKey /\ client[a] /\ a \in config
        /\ known[a] = host_key[a] /\ known[NameOf[a]] = host_key[a]
        /\ guest[a].authorized /\ guest[a].enabled

\* A name's known_hosts entry is the key of the agent that has the name, never of an earlier one.
NameIsItsOwners ==
    \A n \in Names :
      known[n] # NoKey =>
        \E a \in Incarnations :
          NameOf[a] = n /\ agent[a] \in {"active", "deleting"} /\ known[n] = known[a]

\* Access recorded as withdrawn left neither server nor key; a deleted agent leaves nothing.
WithdrawnSshIsGone ==
    \A a \in Incarnations :
      /\ (settled[a] /\ ~spec[a].ssh) =>
           /\ guest[a].server = Off /\ ~guest[a].enabled /\ guest[a].key = NoKey
           /\ host_key[a] = NoKey /\ known[a] = NoKey /\ a \notin config
      /\ agent[a] = "gone" =>
           host_key[a] = NoKey /\ known[a] = NoKey /\ ~client[a] /\ a \notin config

\* A server recorded as running has the policy of the release that recorded it, unless a
\* pass was cut short between writing the policy and restarting the server.
ServerRunsItsPolicy ==
    \A a \in Incarnations :
      (settled[a] /\ guest[a].server # Off /\ access_pass[a] = NoAccessPass) =>
        guest[a].server.policy = guest[a].policy \/ <<a, "policy">> \in cut

\* VNC access recorded as withdrawn is off and stays off at the next boot, unless a pass that
\* had granted it was dropped, which leaves the memory of an earlier withdrawal.
WithdrawnVncIsOff ==
    \A a \in Incarnations :
      (settled[a] /\ ~spec[a].vnc) =>
        \/ guest[a].viewer = "inactive" /\ ~guest[a].viewerEnabled
        \/ <<a, "viewer">> \in cut

\* vnc/mod.rs says of a pass that did not succeed "nothing is known until a pass succeeds
\* again": a recorded withdrawal would then always be one that was made.  It is not.
NothingIsKnownAfterAFailedPass ==
    \A a \in Incarnations :
      (settled[a] /\ ~spec[a].vnc) => ~guest[a].viewerEnabled

\* Who is granted access reaches the sandbox under a key the client knows, a withdrawn access is
\* gone, and a name belongs to its owner (ssh/mod.rs, vnc/mod.rs).
AccessIsAsGranted ==
    /\ AccessTypeOK
    /\ ServedKeyIsKnown
    /\ ReadyIsReachable
    /\ NameIsItsOwners
    /\ WithdrawnSshIsGone
    /\ ServerRunsItsPolicy
    /\ WithdrawnVncIsOff

==============================================================================
