---------------------------- MODULE NetworkDriver ----------------------------
(***************************************************************************)
(* Mediation of one sandbox's network: the policy (agent_policy.rs), the   *)
(* driver that answers the runtime's requests (network_backend.rs), and    *)
(* the agent pass that prepares both (preparation.rs, Adapter::ensure and  *)
(* release in microsandbox/mod.rs).                                        *)
(*                                                                         *)
(* A hostname is its sequence of labels; ports, case and a trailing dot    *)
(* are taken off by request_host and host_matches.  The runtime, outside   *)
(* this code, carries no flow once its control connection is closed.       *)
(***************************************************************************)
EXTENDS Naturals, Sequences, FiniteSets, SequencesExt

CONSTANTS
    Manifests,     \* records [deny, secrets]: patterns, and for each variable [hosts, optional]
    LoginHosts,    \* patterns the managed login secret may go to
    HostLogins,    \* host logins a harness may be given
    Operations,    \* records [action, host, address, port, secret, locations]
    Flows,         \* flow identifiers
    PlatformHost,  \* the host alias
    PlatformPort,  \* the port of the Platform API
    MaxPolicies,   \* bound on policy changes
    REPEAT_EVERY, MAX_KEYS, MAX_LINES, SUMMARY_EVERY,  \* of DenialLog
    MaxDenials     \* bound on denials of one driver

ASSUME NetworkConstants ==
    /\ REPEAT_EVERY \in Nat \ {0} /\ MAX_KEYS \in Nat \ {0}
    /\ MAX_LINES \in Nat /\ SUMMARY_EVERY \in Nat \ {0}
    /\ MaxPolicies \in Nat /\ MaxDenials \in Nat
    /\ \A op \in Operations : op.action \in {"connect", "http"} => op.address \in {"public", "gateway", "reserved"}

VARIABLES
    policy,        \* AgentPolicyEngine::agents of this sandbox
    bindings,      \* secret_bindings of this sandbox: variable to reference
    driver,        \* drivers of this sandbox, with its DriverState
    evaluating,    \* the request whose secret the driver waits for
    revokes,       \* RevokeAll commands the driver has not received
    live,          \* flows the runtime carries, with the number of the policy that allowed them
    netPass,       \* the agent's pass
    serial,        \* number of policies so far (history)
    revoked,       \* the newest policy older flows were revoked for (history)
    through        \* operations the flows were allowed for (history)

netVars == <<policy, bindings, driver, evaluating, revokes, live, netPass, serial, revoked, through>>

Login == "the login's variable"
NoName == <<>>
NoPolicy == [set |-> FALSE, deny |-> {}, secrets |-> <<>>, number |-> 0]
NoDenials == [counts |-> <<>>, total |-> 0, lines |-> 0, written |-> 0]
NoDriver == [runs |-> FALSE, bindings |-> <<>>, handshake |-> FALSE, flows |-> {}, denials |-> NoDenials]
NoRequest == [flow |-> 0, number |-> 0]
NoPass == [pc |-> "idle", manifest |-> <<>>, prepared |-> <<>>, ok |-> FALSE]

NetTypeOK ==
    /\ policy.set \in BOOLEAN /\ policy.number \in 0..MaxPolicies
    /\ driver.runs \in BOOLEAN /\ driver.handshake \in BOOLEAN
    /\ driver.flows \subseteq Flows
    /\ ~driver.runs => driver = NoDriver
    /\ driver.denials.lines <= MAX_LINES
    /\ Cardinality(DOMAIN driver.denials.counts) <= MAX_KEYS
    /\ evaluating.flow \in Flows \cup {0}
    /\ revokes \in Seq(0..MaxPolicies)
    /\ DOMAIN live \subseteq Flows
    /\ netPass.pc \in {"idle", "stores", "logins", "sets", "ensures", "compares", "stops", "ensures again"}
    /\ serial \in 0..MaxPolicies

NetInit ==
    /\ policy = NoPolicy
    /\ bindings = <<>>
    /\ driver = NoDriver
    /\ evaluating = NoRequest
    /\ revokes = <<>>
    /\ live = <<>>
    /\ netPass = NoPass
    /\ serial = 0
    /\ revoked = 0
    /\ through = <<>>

-----------------------------------------------------------------------------
(* The policy.                                                             *)

\* host_matches: the host itself, or for "*." one of its subdomains.
host_matches(pattern, host) ==
    IF pattern.wild THEN Len(host) > Len(pattern.labels) /\ IsSuffix(pattern.labels, host)
    ELSE host = pattern.labels

\* authorization_request, as far as the policy reads it: only a connection carries
\* the runtime's own flag, and a DNS query carries no destination.
authorization_request(op) ==
    [action |-> op.action,
     host |-> op.host,
     flagged |-> op.action = "connect" /\ op.address = "gateway",
     reserved |-> op.action # "dns" /\ op.address \in {"gateway", "reserved"},
     port |-> IF op.action = "dns" THEN 0 ELSE op.port,
     resource |-> op.secret]

\* host_destined_decision: "none" for traffic that is not aimed at the host.
host_destined_decision(request) ==
    LET alias == request.host = PlatformHost IN
    IF request.action = "secret" \/ ~(alias \/ request.flagged \/ request.reserved) THEN "none"
    ELSE IF request.action = "dns" \/ (alias /\ request.port = PlatformPort) THEN "allow"
    ELSE "deny"

\* evaluate_request.
evaluate(request) ==
    LET destined == host_destined_decision(request) IN
    /\ policy.set
    /\ IF destined # "none" THEN destined = "allow"
       ELSE /\ request.host # NoName
            /\ IF request.action = "secret"
               THEN request.resource \in DOMAIN policy.secrets /\
                    \E pattern \in policy.secrets[request.resource] : host_matches(pattern, request.host)
               ELSE ~\E pattern \in policy.deny : host_matches(pattern, request.host)

-----------------------------------------------------------------------------
(* The driver.                                                             *)

ForPass == <<policy, bindings, netPass, serial>>

\* DenialLog::record: the first denial of each name and every so many repeats, up to
\* a number of lines, and summaries beyond.
record_denial(log, key) ==
    LET total == log.total + 1
        kept == IF key \notin DOMAIN log.counts /\ Cardinality(DOMAIN log.counts) >= MAX_KEYS THEN <<>> ELSE log.counts
        count == IF key \in DOMAIN kept THEN kept[key] + 1 ELSE 1
        warranted == count = 1 \/ count % REPEAT_EVERY = 0
    IN IF log.lines >= MAX_LINES
       THEN [log EXCEPT !.total = total, !.written = @ + IF total % SUMMARY_EVERY = 0 THEN 1 ELSE 0]
       ELSE [counts |-> [k \in DOMAIN kept \cup {key} |-> IF k = key THEN count ELSE kept[k]],
             total |-> total,
             lines |-> log.lines + IF warranted THEN 1 ELSE 0,
             written |-> log.written + IF warranted THEN 1 ELSE 0]

\* The driver's task ends: on a closed endpoint or an error of the protocol.
DriverEnds ==
    /\ driver.runs
    /\ driver' = NoDriver
    /\ evaluating' = NoRequest
    /\ revokes' = <<>>
    /\ live' = <<>>
    /\ through' = <<>>
    /\ UNCHANGED <<revoked, ForPass>>

\* RuntimeMessage::Hello: the runtime of a connection just opened carries no flow.
Hello ==
    /\ driver.runs
    /\ ~driver.handshake
    /\ driver' = [driver EXCEPT !.handshake = TRUE, !.flows = {}]
    /\ UNCHANGED <<evaluating, revokes, live, revoked, through, ForPass>>

\* authorize_operation before the policy is asked: where a secret goes, and whether
\* this driver has a binding for it.
Eligible(op) == op.action = "secret" => op.locations /\ op.secret \in DOMAIN driver.bindings

\* The answer is Allow: the flow is recorded and carried.
Allows(flow, number, op) ==
    /\ driver' = [driver EXCEPT !.flows = @ \cup {flow}]
    /\ live' = [f \in DOMAIN live \cup {flow} |-> IF f = flow THEN number ELSE live[f]]
    /\ through' = [f \in DOMAIN through \cup {flow} |-> IF f = flow THEN op ELSE through[f]]

\* The answer is Deny, and log_authorization_denial.
Denies(op) ==
    /\ driver' = [driver EXCEPT !.denials = record_denial(@, <<op.action, op.host>>)]
    /\ UNCHANGED <<live, through>>

\* An AuthorizationRequest; the answer to one that uses a secret waits for the store.
AuthorizationRequest(flow, op) ==
    /\ driver.runs /\ driver.handshake
    /\ evaluating = NoRequest
    /\ flow \notin DOMAIN live
    /\ driver.denials.total < MaxDenials
    /\ IF Eligible(op) /\ evaluate(authorization_request(op))
       THEN IF op.action = "secret"
            THEN /\ evaluating' = [flow |-> flow, number |-> policy.number, op |-> op]
                 /\ UNCHANGED <<driver, live, through>>
            ELSE Allows(flow, policy.number, op) /\ UNCHANGED evaluating
       ELSE Denies(op) /\ UNCHANGED evaluating
    /\ UNCHANGED <<revokes, revoked, ForPass>>

\* The store answers; a value that is missing, empty or has a line end is refused.
SecretResolves(found) ==
    /\ evaluating # NoRequest
    /\ IF found THEN Allows(evaluating.flow, evaluating.number, evaluating.op) ELSE Denies(evaluating.op)
    /\ evaluating' = NoRequest
    /\ UNCHANGED <<revokes, revoked, ForPass>>

\* RuntimeMessage::FlowClosed.
FlowClosed(flow) ==
    /\ driver.runs
    /\ evaluating = NoRequest
    /\ flow \in DOMAIN live
    /\ driver' = [driver EXCEPT !.flows = @ \ {flow}]
    /\ live' = [f \in DOMAIN live \ {flow} |-> live[f]]
    /\ through' = [f \in DOMAIN through \ {flow} |-> through[f]]
    /\ UNCHANGED <<evaluating, revokes, revoked, ForPass>>

\* revoke_all: the command is queued while the driver may be at another await.
revoke_all ==
    /\ driver.runs
    /\ Len(revokes) < 1
    /\ revokes' = Append(revokes, serial)
    /\ UNCHANGED <<driver, evaluating, live, revoked, through, ForPass>>

\* DriverCommand::RevokeAll: every known flow is revoked.
RevokeAll ==
    /\ revokes # <<>>
    /\ evaluating = NoRequest
    /\ revoked' = Head(revokes)
    /\ revokes' = Tail(revokes)
    /\ live' = [f \in DOMAIN live \ driver.flows |-> live[f]]
    /\ through' = [f \in DOMAIN through \ driver.flows |-> through[f]]
    /\ driver' = [driver EXCEPT !.flows = {}]
    /\ UNCHANGED <<evaluating, ForPass>>

-----------------------------------------------------------------------------
(* The agent's pass.                                                       *)

ForDriver == <<driver, evaluating, revokes, live, revoked, through>>

\* stop_driver aborts the task and waits for its end.
StopsDriver ==
    /\ driver' = NoDriver
    /\ evaluating' = NoRequest
    /\ revokes' = <<>>
    /\ live' = <<>>
    /\ through' = <<>>
    /\ UNCHANGED revoked

\* NetworkBackend::start: nothing when the driver runs; or else one with the
\* bindings now set.
StartsDriver ==
    IF driver.runs THEN UNCHANGED ForDriver
    ELSE /\ driver' = [NoDriver EXCEPT !.runs = TRUE, !.bindings = bindings]
         /\ UNCHANGED <<evaluating, revokes, live, revoked, through>>

\* Preparation::remove.
Removes == policy' = NoPolicy /\ bindings' = <<>>

\* Preparation::prepare reads the environment file; a required secret must be there.
ReadsEnvironment(manifest, present) ==
    /\ netPass.pc = "idle"
    /\ serial < MaxPolicies
    /\ IF \A env \in DOMAIN manifest.secrets : env \in present \/ manifest.secrets[env].optional
       THEN /\ netPass' = [pc |-> "stores", manifest |-> manifest, ok |-> FALSE,
                           prepared |-> [env \in DOMAIN manifest.secrets \cap present |-> <<"agent", env>>]]
            /\ UNCHANGED <<policy, bindings>>
       ELSE Removes /\ netPass' = NoPass
    /\ UNCHANGED <<serial, ForDriver>>

\* replace_agent_secrets.
ReplacesSecrets ==
    /\ netPass.pc = "stores"
    /\ netPass' = [netPass EXCEPT !.pc = "logins"]
    /\ UNCHANGED <<policy, bindings, serial, ForDriver>>

\* prepare_harnesses: the login's secret is added under its own variable; an optional
\* installation without a login is left out.
PreparesLogin(login) ==
    /\ netPass.pc = "logins"
    /\ netPass' = [netPass EXCEPT !.pc = "sets",
            !.prepared = IF login = "none" THEN @
                         ELSE [env \in DOMAIN @ \cup {Login} |-> IF env = Login THEN <<"login", login>> ELSE @[env]]]
    /\ UNCHANGED <<policy, bindings, serial, ForDriver>>

\* An error anywhere in prepare: what was set for the agent is removed.
PrepareFails ==
    /\ netPass.pc \in {"stores", "logins", "sets"}
    /\ Removes
    /\ netPass' = NoPass
    /\ UNCHANGED <<serial, ForDriver>>

\* set_agent: the declared secrets and the managed one.
PolicyOf(manifest, managed, number) ==
    [set |-> TRUE, deny |-> manifest.deny, number |-> number,
     secrets |-> [env \in DOMAIN manifest.secrets \cup managed |->
                     IF env = Login THEN LoginHosts ELSE manifest.secrets[env].hosts]]

\* set_agent and set_secret_bindings, with nothing awaited between them.
SetsPolicy ==
    /\ netPass.pc = "sets"
    /\ serial' = serial + 1
    /\ policy' = PolicyOf(netPass.manifest, {Login} \cap DOMAIN netPass.prepared, serial')
    /\ bindings' = netPass.prepared
    /\ netPass' = [netPass EXCEPT !.pc = "ensures"]
    /\ UNCHANGED ForDriver

\* SandboxService::ensure leaves a running sandbox with a started network.
Ensures ==
    /\ netPass.pc \in {"ensures", "ensures again"}
    /\ StartsDriver
    /\ netPass' = IF netPass.pc = "ensures" THEN [netPass EXCEPT !.pc = "compares"] ELSE [NoPass EXCEPT !.ok = TRUE]
    /\ UNCHANGED <<policy, bindings, serial>>

\* has_stale_secret_bindings asks what the running driver applies.
has_stale_secret_bindings == driver.runs /\ driver.bindings # bindings

\* Mutant of ComparesBindings: a driver that runs is taken to apply the bindings.
ComparesBindings_Never ==
    /\ netPass.pc = "compares"
    /\ netPass' = [NoPass EXCEPT !.ok = TRUE]
    /\ UNCHANGED <<policy, bindings, serial, ForDriver>>

\* Adapter::ensure, after its first ensure.
ComparesBindings ==
    /\ netPass.pc = "compares"
    /\ netPass' = IF has_stale_secret_bindings THEN [netPass EXCEPT !.pc = "stops"] ELSE [NoPass EXCEPT !.ok = TRUE]
    /\ UNCHANGED <<policy, bindings, serial, ForDriver>>

\* restart_network: the network is stopped, and the next ensure starts it.
RestartsNetwork ==
    /\ netPass.pc = "stops"
    /\ StopsDriver
    /\ netPass' = [netPass EXCEPT !.pc = "ensures again"]
    /\ UNCHANGED <<policy, bindings, serial>>

\* An ensure or a restart fails: the pass ends and is tried again later.
EnsureFails ==
    /\ netPass.pc \in {"ensures", "compares", "stops", "ensures again"}
    /\ netPass' = NoPass
    /\ UNCHANGED <<policy, bindings, serial, ForDriver>>

\* Adapter::stop and kill: the sandbox's network is stopped with it.
EndsSandbox ==
    /\ netPass.pc = "idle"
    /\ StopsDriver
    /\ UNCHANGED ForPass

\* Adapter::release: the sandbox goes first, its policy and bindings after it.
DropsNetwork ==
    /\ netPass.pc = "idle"
    /\ StopsDriver
    /\ Removes
    /\ netPass' = NoPass
    /\ UNCHANGED serial

\* agentd starts again, with nothing prepared.
NetRestart ==
    /\ Removes
    /\ StopsDriver
    /\ netPass' = NoPass
    /\ UNCHANGED serial

NetNext ==
    \/ \E manifest \in Manifests : \E present \in SUBSET DOMAIN manifest.secrets : ReadsEnvironment(manifest, present)
    \/ ReplacesSecrets \/ (\E login \in HostLogins \cup {"none"} : PreparesLogin(login)) \/ PrepareFails
    \/ SetsPolicy \/ Ensures \/ ComparesBindings \/ RestartsNetwork \/ EnsureFails
    \/ EndsSandbox \/ DropsNetwork \/ NetRestart
    \/ DriverEnds \/ Hello
    \/ \E flow \in Flows : (\E op \in Operations : AuthorizationRequest(flow, op)) \/ FlowClosed(flow)
    \/ \E found \in BOOLEAN : SecretResolves(found)
    \/ revoke_all \/ RevokeAll

NetSpec == NetInit /\ [][NetNext]_netVars

-----------------------------------------------------------------------------
(* Properties.                                                             *)

\* When a pass has succeeded, the driver that runs hands out the secrets that pass
\* prepared: a driver started earlier, or by a pass that failed, was replaced.
AppliesWhatWasPrepared == netPass.ok /\ driver.runs => driver.bindings = bindings

\* Every secret the pass bound has an entry in the policy set with it, and what is
\* removed is removed from both.
BoundIsCovered == DOMAIN bindings \subseteq DOMAIN policy.secrets

\* A flow that reaches the host, by its name or by a raw address, reaches the
\* Platform API's port and nothing else.
HostIsOnlyThePlatform ==
    \A flow \in DOMAIN through :
        through[flow].action \in {"connect", "http"} /\ through[flow].address # "public" =>
            through[flow].host = PlatformHost /\ through[flow].port = PlatformPort

\* Every flow the runtime carries can be revoked.
LiveIsRevocable == DOMAIN live \subseteq driver.flows

\* After a revocation no flow is left that was allowed by a policy older than the
\* one in force when it was asked for.
OnlyLaterFlowsAreLive == \A flow \in DOMAIN live : live[flow] >= revoked

\* However many names a sandbox tries, the host log gets a bounded number of lines
\* and one summary for every so many denials.
DenialsAreSummarised ==
    driver.denials.written <= MAX_LINES + driver.denials.total \div SUMMARY_EVERY

\* A sandbox's traffic is judged by the policy that was prepared for it with the credentials
\* bound to it, the host is only reached for the platform API, and what is live can be revoked
\* (sandbox/microsandbox/src/network_backend.rs).
NetworkIsAsPrepared ==
    /\ NetTypeOK
    /\ AppliesWhatWasPrepared
    /\ BoundIsCovered
    /\ HostIsOnlyThePlatform
    /\ LiveIsRevocable
    /\ OnlyLaterFlowsAreLive
    /\ DenialsAreSummarised

=============================================================================
