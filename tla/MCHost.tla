------------------------------- MODULE MCHost -------------------------------
(* What the host keeps and does on its own, for TLC: releases, the store,   *)
(* stored agents, manifests, transcripts, prompts, logins, and the queues   *)
(* of the integrations.  They share no state, so each behaviour moves the   *)
(* one in focus and the others rest where they began.                       *)
EXTENDS SelfUpdate, Store, Desired, Manifests, Transcripts, SessionPrompts,
        Logins, AgentQueue, ReviewNotifier, TLC

CONSTANTS c1, c2, x1, w1, w2,   \* logins and workers, as Logins' constants
          slack1, github1,      \* orders
          pull1                 \* a pull request

-----------------------------------------------------------------------------
(* Constants.                                                              *)

\* State files of earlier releases, sound and not.
StateFile(version, shape, instructions, accounts) ==
    [version |-> version, schema |-> shape, instructions |-> instructions, model |-> "none",
     agents |-> {}, gone |-> {}, accounts |-> accounts,
     secrets |-> {<<"login", a>> : a \in accounts}]
\* A file in which an agent is stored, with the secrets of a manifest.
WithAgent(f) == [f EXCEPT !.agents = {"a1"}, !.secrets = @ \cup ({"a1"} \X {"token", "key"})]
TheFiles ==
    {StateFile(0, {}, "none", {}), StateFile(0, {"unexpected"}, "none", {}),
     StateFile(1, SchemaOf(1), "object", {Unnamed}), StateFile(1, SchemaOf(2), "object", {Unnamed}),
     StateFile(1, SchemaOf(1) \cup {"activity reports"}, "null", {}), StateFile(1, SchemaOf(1), "other", {}),
     StateFile(2, SchemaOf(3), "array", {Unnamed}), StateFile(3, SchemaOf(5), "array", {}),
     StateFile(5, SchemaOf(5) \cup {"unexpected"}, "array", {Unnamed}),
     StateFile(6, SchemaOf(6), "array", {Default, "work"}), WithAgent(StateFile(7, SchemaOf(7), "array", {Default})),
     StateFile(8, SchemaOf(7), "array", {})}
TheSecrets == {{"token", "key"}, {"token", "other"}}

\* Requests that race: two agents that mount one workspace, with a secret
\* inside or outside of it, the second one created stopped.
Apply(name, run, mounts, secrets, env) ==
    [op |-> "apply", name |-> name, run |-> run, mounts |-> mounts,
     secrets |-> secrets, env |-> env, create_only |-> FALSE]
TheAsks ==
    {Apply(1, Unset, "optional", TRUE, "outside"),
     Apply(2, "Stopped", "none", TRUE, "inside"),
     [op |-> "stop", name |-> 1, now |-> TRUE], [op |-> "restart", name |-> 1, now |-> FALSE],
     [op |-> "delete", name |-> 1, now |-> FALSE]}
ClientSymmetry == Permutations(Clients)

\* Directories of a base and three variants.
Conventions == {"agent.yaml", "agent.a.yaml", "agent.b.yaml", "agent.c.yaml"}
Only(key, node) == [k \in {key} |-> node]
Harness(type, default) == [type |-> type, optional |-> FALSE, default |-> default]
SecretOf(name, source, placeholder) ==
    [name |-> name, source |-> source, placeholder |-> placeholder, allowed_hosts |-> {"h"}]
Variable(name, source) == [name |-> name, source |-> source]
Bases ==
    {Map([apiVersion |-> Str("v1alpha1"), kind |-> Str("Agent"), metadata |-> Map([name |-> Str("base")]),
          spec |-> Map([image |-> image, harnesses |-> List(harnesses),
                        secrets |-> List(<<SecretOf("T", "", "")>>)])])
       : image \in {Map([type |-> Str("build"), context |-> Str("."), target |-> Str("dev")]),
                    Map([type |-> Str("reference"), reference |-> Str("r")])},
         harnesses \in {<<Harness("claudeCode", FALSE)>>, <<Harness("pi", TRUE), Harness("codex", FALSE)>>}}
Patches ==
    {Only("image", Map(Only("target", Null))), Only("image", Map(Only("target", Str("x")))),
     Only("image", Map([type |-> Str("reference"), reference |-> Str("q")])),
     Only("image", Map([type |-> Str("build"), context |-> Str("..")])),
     Only("retentionPolicy", Null), Only("retentionPolicy", Str("keep")),
     Only("harnesses", List(<<Harness("claudeCode", FALSE), Harness("codex", FALSE)>>)),
     Only("secrets", List(<<SecretOf("T", "", ""), SecretOf("U", "", <<"generated", "T">>)>>)),
     Only("environment", List(<<Variable("T2", "T")>>)),
     Only("secrets", Null), Only("unknown", Null)}
\* What a second variant does to what the first one left.
SecondPatches ==
    {Only("image", Map([type |-> Str("build"), context |-> Str("..")])), Only("retentionPolicy", Null),
     Only("secrets", Null), Only("harnesses", List(<<Harness("claudeCode", FALSE)>>))}
Variant(extends, name, spec) ==
    Map([apiVersion |-> Str("v1alpha1"), kind |-> Str("AgentVariant"), extends |-> Str(extends),
         metadata |-> IF name = "" THEN Map([k \in {} |-> Null]) ELSE Map([name |-> Str(name)]),
         spec |-> Map(spec)])
TheDirectories ==
    {("agent.yaml" :> base @@ "agent.a.yaml" :> a @@ "agent.b.yaml" :> b @@ "agent.c.yaml" :> c)
       : base \in Bases,
         a \in {Variant(e, n, s) : e \in {"agent.yaml", "agent.a.yaml", "agent.b.yaml"}, n \in {"", "a"}, s \in Patches},
         b \in {Variant(e, "b", s) : e \in {"agent.yaml", "agent.a.yaml", "agent.c.yaml"}, s \in SecondPatches},
         c \in {Variant(e, "c", Only("retentionPolicy", Str("delete")))
                  : e \in {"agent.a.yaml", "agent.b.yaml", "other.yaml"}}}

TheOrder == <<c1, c2, x1>>
TheSets == {<<c1, c2>>, <<c2>>}

TheAgents == <<"primary", "route">>
TheArrivals == {{slack1}, {github1}, {slack1, github1}}

TheRepos == [p \in {pull1} |-> "r1"]
TheRules == {<<[matches |-> {"owned", "other"}, owners |-> TRUE], [matches |-> {"other"}, owners |-> FALSE]>>}

-----------------------------------------------------------------------------
VARIABLE focus
hostVars == <<updateVars, storeVars, desiredVars, manifestVars, transcriptVars,
              promptVars, loginVars, queueVars, notifierVars, focus>>

\* One more focus than modules: logins are checked while they are refreshed,
\* and while they are assigned.
Foci == {"update", "store", "agents", "manifest", "transcript", "prompts",
         "refresh", "assign", "queue", "notifier"}

\* Where a component that is not in focus rests, of its initial states.
OthersRest ==
    /\ focus # "update" => runtime = [x \in Live |-> 0]
    /\ focus # "store" => file = StateFile(0, {}, "none", {})
    /\ focus # "agents" => disk = [present |-> TRUE, dotenv |-> FALSE]
    /\ focus # "manifest" =>
          leaf = "agent.yaml" /\ files = CHOOSE f \in Directories : TRUE
    /\ focus # "transcript" => adapter = "claude"
    /\ focus # "assign" =>
          agent = [a \in LoginAgents |-> [pc |-> "idle", set |-> <<c2>>, run |-> "running",
                                          status |-> NoLogin, usable |-> {}]]
    /\ focus # "queue" =>
          /\ submit = [o \in Orders |-> IF o = slack1 THEN "unseen" ELSE "ended"]
          /\ offsetsOnDisk = [a \in Lines |-> 0]
    /\ focus # "notifier" =>
          /\ rules = NoFile
          /\ pull = [p \in PullRequests |-> CHOOSE first \in Pulls : first.state = "required"]

HostInit ==
    /\ focus \in Foci
    /\ OthersRest
    /\ UpdateInit /\ StoreInit /\ DesiredInit /\ ManifestInit /\ TranscriptInit
    /\ PromptInit /\ LoginInit /\ QueueInit /\ NotifierInit

\* Refreshes of the Codex login without assignments; assignments of the
\* Claude logins beside one worker.
LoginsMove ==
    \/ /\ focus = "refresh" /\ LoginNext /\ UNCHANGED <<assigned, agent>>
       /\ \A w \in LoginWorkers : worker'[w].login \in {x1, NoLogin}
    \/ /\ focus = "assign" /\ LoginNext /\ UNCHANGED <<lock, failure, service>>
       /\ worker'[w2] = Nowhere /\ worker'[w1].login # x1

HostNext ==
    \/ /\ focus = "update" /\ UpdateNext
       /\ UNCHANGED <<storeVars, desiredVars, manifestVars, transcriptVars, promptVars, loginVars, queueVars, notifierVars, focus>>
    \/ /\ focus = "store" /\ StoreNext
       /\ UNCHANGED <<updateVars, desiredVars, manifestVars, transcriptVars, promptVars, loginVars, queueVars, notifierVars, focus>>
    \/ /\ focus = "agents" /\ DesiredNext
       /\ UNCHANGED <<updateVars, storeVars, manifestVars, transcriptVars, promptVars, loginVars, queueVars, notifierVars, focus>>
    \/ /\ focus = "manifest" /\ ManifestNext
       /\ UNCHANGED <<updateVars, storeVars, desiredVars, transcriptVars, promptVars, loginVars, queueVars, notifierVars, focus>>
    \/ /\ focus = "transcript" /\ TranscriptNext
       /\ UNCHANGED <<updateVars, storeVars, desiredVars, manifestVars, promptVars, loginVars, queueVars, notifierVars, focus>>
    \/ /\ focus = "prompts" /\ PromptNext
       /\ UNCHANGED <<updateVars, storeVars, desiredVars, manifestVars, transcriptVars, loginVars, queueVars, notifierVars, focus>>
    \/ /\ LoginsMove
       /\ UNCHANGED <<updateVars, storeVars, desiredVars, manifestVars, transcriptVars, promptVars, queueVars, notifierVars, focus>>
    \/ /\ focus = "queue" /\ QueueNext
       /\ UNCHANGED <<updateVars, storeVars, desiredVars, manifestVars, transcriptVars, promptVars, loginVars, notifierVars, focus>>
    \/ /\ focus = "notifier" /\ NotifierNext
       /\ UNCHANGED <<updateVars, storeVars, desiredVars, manifestVars, transcriptVars, promptVars, loginVars, queueVars, focus>>

\* What tells one state of a behaviour from another: the component in focus.
InFocus ==
    <<focus,
      CASE focus = "update" -> updateVars
        [] focus = "store" -> storeVars
        [] focus = "agents" -> desiredVars
        [] focus = "manifest" -> manifestVars
        [] focus = "transcript" -> transcriptVars
        [] focus = "prompts" -> promptVars
        [] focus \in {"refresh", "assign"} -> loginVars
        [] focus = "queue" -> queueVars
        [] focus = "notifier" -> notifierVars>>

HostSpec == HostInit /\ [][HostNext]_hostVars

-----------------------------------------------------------------------------
\* What a step on the host may not do: lose a host key, change a state it
\* fails to open, migrate without a backup, shorten a transcript's turns, drop
\* an agent's login for another, or overwrite a stored agent unseen.
HostSteps ==
    /\ HostKeyIsKept /\ FailedOpenChangesNothing /\ BackedUpBeforeMigration
    /\ GrowthKeepsTurns /\ AgentKeepsItsLogin /\ LeastUsedIsGiven /\ WritesAreKept
=============================================================================
