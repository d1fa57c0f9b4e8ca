----------------------------- MODULE MCSandbox -----------------------------
(* A sandbox and what is in it, for TLC: its runtime and record, its image, *)
(* its network, access to it, executions, forwards, and what a set up       *)
(* places and starts in the guest.  They share no state, so each behaviour  *)
(* moves the one in focus and the others rest where they began.             *)
EXTENDS Microsandbox, ImageCache, NetworkDriver, Access, GuestExecutions,
        GuestForward, GuestFiles, SkillInstall, GuestPlacement, GuestSetup

\* A host that is denied, one with a credential, and the platform's own.
Host == <<"host", "internal">>
Exactly(labels) == [wild |-> FALSE, labels |-> labels]
Below(labels) == [wild |-> TRUE, labels |-> labels]
TheManifests ==
    {[deny |-> {Below(<<"com">>)}, secrets |-> [K |-> [hosts |-> {Exactly(<<"org">>)}, optional |-> TRUE]]],
     [deny |-> {}, secrets |-> <<>>]}
Operation(action, name, address, port, secret) ==
    [action |-> action, host |-> name, address |-> address, port |-> port, secret |-> secret, locations |-> TRUE]
TheOperations ==
    {Operation("connect", <<"a", "com">>, "public", 443, ""), Operation("connect", <<"com">>, "public", 443, ""),
     Operation("connect", Host, "gateway", 80, ""), Operation("http", <<"com">>, "gateway", 80, ""),
     Operation("dns", Host, "none", 0, ""), Operation("secret", <<"org">>, "public", 443, "K")}

\* Both incarnations take one name, one after the other.
TheNames == [a \in Incarnations |-> 0]

\* Which layers bring a certificate bundle.
TheCa == {[call |-> FALSE, agent |-> FALSE, intercepts |-> TRUE], [call |-> TRUE, agent |-> FALSE, intercepts |-> TRUE]}

Symmetry == Permutations(ExecCalls) \cup Permutations(Installs)

-----------------------------------------------------------------------------
VARIABLE focus
sandboxVars == <<boxVars, cacheVars, netVars, accessVars, execVars, forwardVars,
                 fileVars, skillVars, placementVars, setupVars, focus>>

Foci == {"runtime", "image", "network", "access", "executions", "forward",
         "file", "skills", "placement", "setup"}

\* Where a part that is not in focus rests, of its initial states.
OthersRest ==
    /\ focus # "image" => stored = FALSE /\ tagged = FALSE /\ recorded = {}
    /\ focus # "executions" =>
          /\ calls = [c \in ExecCalls |-> NoCall("probe")]
          /\ ca = CHOOSE first \in CaChoices : TRUE
    /\ focus # "placement" =>
          manifest = [skills |-> Declarable, own |-> FALSE, harnesses |-> PlacedHarnesses]
    /\ focus # "setup" => image = [podman |-> FALSE, nested |-> FALSE, home |-> FALSE]

SandboxInit ==
    /\ focus \in Foci
    /\ OthersRest
    /\ BoxInit /\ CacheInit /\ NetInit /\ AccessInit /\ ExecInit
    /\ ForwardInit /\ FileInit /\ SkillInit /\ PlacementInit /\ SetupInit

SandboxNext ==
    \/ /\ focus = "runtime" /\ BoxNext
       /\ UNCHANGED <<cacheVars, netVars, accessVars, execVars, forwardVars, fileVars, skillVars, placementVars, setupVars, focus>>
    \/ /\ focus = "image" /\ CacheNext
       /\ UNCHANGED <<boxVars, netVars, accessVars, execVars, forwardVars, fileVars, skillVars, placementVars, setupVars, focus>>
    \/ /\ focus = "network" /\ NetNext
       /\ UNCHANGED <<boxVars, cacheVars, accessVars, execVars, forwardVars, fileVars, skillVars, placementVars, setupVars, focus>>
    \/ /\ focus = "access" /\ AccessNext
       /\ UNCHANGED <<boxVars, cacheVars, netVars, execVars, forwardVars, fileVars, skillVars, placementVars, setupVars, focus>>
    \/ /\ focus = "executions" /\ ExecNext
       /\ UNCHANGED <<boxVars, cacheVars, netVars, accessVars, forwardVars, fileVars, skillVars, placementVars, setupVars, focus>>
    \/ /\ focus = "forward" /\ ForwardNext
       /\ UNCHANGED <<boxVars, cacheVars, netVars, accessVars, execVars, fileVars, skillVars, placementVars, setupVars, focus>>
    \/ /\ focus = "file" /\ FileNext
       /\ UNCHANGED <<boxVars, cacheVars, netVars, accessVars, execVars, forwardVars, skillVars, placementVars, setupVars, focus>>
    \/ /\ focus = "skills" /\ SkillNext
       /\ UNCHANGED <<boxVars, cacheVars, netVars, accessVars, execVars, forwardVars, fileVars, placementVars, setupVars, focus>>
    \/ /\ focus = "placement" /\ PlacementNext
       /\ UNCHANGED <<boxVars, cacheVars, netVars, accessVars, execVars, forwardVars, fileVars, skillVars, setupVars, focus>>
    \/ /\ focus = "setup" /\ SetupNext
       /\ UNCHANGED <<boxVars, cacheVars, netVars, accessVars, execVars, forwardVars, fileVars, skillVars, placementVars, focus>>

\* What tells one state of a behaviour from another: the part in focus.
InFocus ==
    <<focus,
      CASE focus = "runtime" -> boxVars
        [] focus = "image" -> cacheVars
        [] focus = "network" -> netVars
        [] focus = "access" -> accessVars
        [] focus = "executions" -> execVars
        [] focus = "forward" -> forwardVars
        [] focus = "file" -> fileVars
        [] focus = "skills" -> skillVars
        [] focus = "placement" -> placementVars
        [] focus = "setup" -> setupVars>>

SandboxSpec == SandboxInit /\ [][SandboxNext]_sandboxVars

-----------------------------------------------------------------------------
\* The backend keeps what the sandbox service relies on, and a step in the
\* guest replaces only what it is asked to, keeps what is not its own, clears
\* what a failed one left, and uses the login of the moment.
SandboxSteps ==
    /\ ImplementsBackend
    /\ ReplacingKeepsAttributes /\ UnchangedIsNotReplaced
    /\ ReplacesOnlyWhenAsked /\ LeftoversAreCleared
    /\ FoldersAreAsDeclared /\ InstructionsAreAsDeclared /\ OthersTextStays
    /\ LoginIsCurrent
=============================================================================
