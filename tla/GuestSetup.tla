------------------------------- MODULE GuestSetup -------------------------------
(***************************************************************************)
(* A setup pass prepares a Linux sandbox for its harnesses (sandbox/       *)
(* platform/linux and the harnesses' bootstrap): it points their hooks at  *)
(* this daemon, verifies them, waits for systemd where the image has       *)
(* Podman, grants /dev/kvm, carries the home, and configures them.         *)
(*                                                                         *)
(* The guest boots on its own beside the pass, and may die; systemd's      *)
(* rules run at the end of boot and may undo a grant.  The daemon may      *)
(* restart.  What becomes of a check that is out of time is the subject of *)
(* GuestExecutions.                                                        *)
(***************************************************************************)
EXTENDS Integers

CONSTANTS
    MaxVmBoots,   \* boots of the sandbox
    MaxDaemons,   \* daemons, one after another
    MaxClock,     \* the host's clock, in steps of half a day
    MaxEvents     \* changes of the clock, the login and the guest's files

ASSUME SetupConstants == MaxVmBoots \in Nat /\ MaxDaemons \in Nat \ {0} /\ MaxClock \in Nat /\ MaxEvents \in Nat

\* auth_needs_refresh: a day, in steps of the clock.
AUTH_REFRESH_MAX_AGE == 2

VARIABLES
    image,    \* whether it has Podman and nested sandboxes; whether the home has a Podman configuration
    vm_boot,     \* the sandbox's boot, and how far it is
    kvm,      \* the device of this boot
    written,  \* files in the sandbox
    setup_pass,     \* the pass
    daemon,   \* the daemon, its platform API's address with it
    clock, login, events,
    last      \* history: how the last pass ended, and what it met

setupVars == <<image, vm_boot, kvm, written, setup_pass, daemon, clock, login, events, last>>
Ambient == <<image, daemon, clock, login, events>>

NoSetup == [at |-> "idle", late |-> FALSE, next |-> "none", login |-> 0, systemd |-> FALSE]
At_step(at) == setup_pass.at = at
Up == vm_boot.phase # "off"
Moves_to(at) == setup_pass' = [setup_pass EXCEPT !.at = at]

-----------------------------------------------------------------------------
(* The pass.                                                               *)

\* ensure boots the sandbox when it is down; the guest creates the device
\* anew at every boot.
BeginsSetup ==
    /\ At_step("idle") /\ (Up \/ vm_boot.count < MaxVmBoots)
    /\ IF Up THEN UNCHANGED <<vm_boot, kvm>>
       ELSE /\ vm_boot' = [phase |-> "entrypoint", count |-> vm_boot.count + 1]
            /\ kvm' = IF image.nested THEN "bare" ELSE "absent"
    /\ setup_pass' = [NoSetup EXCEPT !.at = "url", !.login = login]
    /\ UNCHANGED <<written, last>> /\ UNCHANGED Ambient

\* install_platform_api_url, before anything that can fail.
InstallsUrl ==
    /\ At_step("url") /\ Up
    /\ written' = [written EXCEPT !.url = daemon]
    /\ Moves_to("verify")
    /\ UNCHANGED <<vm_boot, kvm, last>> /\ UNCHANGED Ambient

\* version_output: a probe with a time limit.
StartsProbe ==
    /\ At_step("verify") /\ Up
    /\ Moves_to("probing")
    /\ UNCHANGED <<vm_boot, kvm, written, last>> /\ UNCHANGED Ambient

\* verify_linux: the version is the declared one, or the pass fails.
ProbeEnds ==
    /\ At_step("probing") /\ Up
    /\ Moves_to("workspace")
    /\ UNCHANGED <<vm_boot, kvm, written, last>> /\ UNCHANGED Ambient

\* configure_podman, probing for it.
FindsPodman ==
    /\ At_step("workspace") /\ Up
    /\ setup_pass' = IF image.podman THEN [setup_pass EXCEPT !.at = "waits", !.next = "podman", !.late = FALSE, !.systemd = TRUE]
               ELSE [setup_pass EXCEPT !.at = "kvm"]
    /\ UNCHANGED <<vm_boot, kvm, written, last>> /\ UNCHANGED Ambient

StartsCheck ==
    /\ At_step("waits") /\ Up
    /\ Moves_to("checking")
    /\ UNCHANGED <<vm_boot, kvm, written, last>> /\ UNCHANGED Ambient

\* wait_for_systemd: refused at once before systemd is there, answered only
\* when it has finished booting the guest.  Degraded counts as ready.
CheckAnswers ==
    /\ At_step("checking") /\ vm_boot.phase \in {"entrypoint", "running"}
    /\ vm_boot.phase = "running" \/ ~setup_pass.late
    /\ Moves_to(IF vm_boot.phase = "running" THEN setup_pass.next ELSE "waits")
    /\ UNCHANGED <<vm_boot, kvm, written, last>> /\ UNCHANGED Ambient

DeadlinePasses ==
    /\ setup_pass.at \in {"waits", "checking"} /\ ~setup_pass.late
    /\ setup_pass' = [setup_pass EXCEPT !.late = TRUE]
    /\ UNCHANGED <<vm_boot, kvm, written, last>> /\ UNCHANGED Ambient

ConfiguresPodman ==
    /\ At_step("podman") /\ Up
    /\ written' = [written EXCEPT !.socket = vm_boot.phase = "running" \/ @]
    /\ vm_boot.phase # "entrypoint" \* systemctl is refused
    /\ Moves_to("kvm")
    /\ UNCHANGED <<vm_boot, kvm, last>> /\ UNCHANGED Ambient

\* As it would be if the device were granted without waiting for boot.
FindsKvm_WithoutWaiting ==
    /\ At_step("kvm") /\ Up
    /\ setup_pass' = [setup_pass EXCEPT !.at = IF kvm = "absent" THEN "home" ELSE "grant",
                            !.systemd = @ \/ vm_boot.phase # "entrypoint"]
    /\ UNCHANGED <<vm_boot, kvm, written, last>> /\ UNCHANGED Ambient

\* grant_kvm: on a guest already running systemd, once boot has finished.
FindsKvm ==
    /\ At_step("kvm") /\ Up
    /\ setup_pass' = IF kvm = "absent" THEN [setup_pass EXCEPT !.at = "home"]
               ELSE IF vm_boot.phase = "entrypoint" THEN [setup_pass EXCEPT !.at = "grant"]
               ELSE [setup_pass EXCEPT !.at = "waits", !.next = "grant", !.late = FALSE, !.systemd = TRUE]
    /\ UNCHANGED <<vm_boot, kvm, written, last>> /\ UNCHANGED Ambient

grant_kvm ==
    /\ At_step("grant") /\ Up
    /\ kvm' = "granted"
    /\ Moves_to("home")
    /\ UNCHANGED <<vm_boot, written, last>> /\ UNCHANGED Ambient

\* sync_home: a file of the home replaces what the sandbox has.
CarriesHome ==
    /\ At_step("home") /\ Up
    /\ written' = IF image.home THEN [written EXCEPT !.podman = "home"] ELSE written
    /\ Moves_to(IF image.podman THEN "point" ELSE "git")
    /\ UNCHANGED <<vm_boot, kvm, last>> /\ UNCHANGED Ambient

\* After the home, so that its configuration cannot replace this one.
point_podman_at_socket ==
    /\ At_step("point") /\ Up
    /\ written' = [written EXCEPT !.podman = "agentd"]
    /\ Moves_to("git")
    /\ UNCHANGED <<vm_boot, kvm, last>> /\ UNCHANGED Ambient

\* Nothing to do without an identity or without git; half of one is refused.
configure_git_identity ==
    /\ At_step("git") /\ Up
    /\ Moves_to("bootstrap")
    /\ UNCHANGED <<vm_boot, kvm, written, last>> /\ UNCHANGED Ambient

\* Codex's login, with the time it was refreshed: another's, an old one, or
\* one from later than now is written again, any other left in place.
auth_needs_refresh(auth) ==
    auth.login # setup_pass.login \/ clock > auth.at + AUTH_REFRESH_MAX_AGE \/ auth.at > clock

\* bootstrap_linux of the harnesses; the hook script is this release's.
Bootstraps ==
    /\ At_step("bootstrap") /\ Up
    /\ written' = [written EXCEPT !.hook = daemon,
                      !.auth = IF auth_needs_refresh(@) THEN [login |-> setup_pass.login, at |-> clock] ELSE @]
    /\ last' = [ended |-> "done", vm_boot |-> vm_boot.count, systemd |-> setup_pass.systemd]
    /\ setup_pass' = NoSetup
    /\ UNCHANGED <<vm_boot, kvm>> /\ UNCHANGED Ambient

-----------------------------------------------------------------------------
(* Failures.                                                               *)

Ended(how) == last' = [last EXCEPT !.ended = how] /\ setup_pass' = NoSetup

\* The probe, or the wait for systemd, is out of time.
TimesOut ==
    /\ At_step("probing") \/ (At_step("checking") /\ setup_pass.late)
    /\ Ended("failed")
    /\ UNCHANGED <<vm_boot, kvm, written>> /\ UNCHANGED Ambient

\* A command or a file is refused: what runs has ended.
SetupBreaks ==
    /\ ~At_step("idle")
    /\ Ended("failed")
    /\ UNCHANGED <<vm_boot, kvm, written>> /\ UNCHANGED Ambient

\* The daemon ends with its pass; the next one has another address.
DaemonRestarts ==
    /\ daemon < MaxDaemons
    /\ daemon' = daemon + 1
    /\ IF At_step("idle") THEN UNCHANGED <<last, setup_pass>> ELSE Ended("failed")
    /\ UNCHANGED <<image, vm_boot, kvm, written, clock, login, events>>

-----------------------------------------------------------------------------
(* External: the guest, the clock and the host's login.                    *)

BecomesSystemd ==
    /\ vm_boot.phase = "entrypoint"
    /\ vm_boot' = [vm_boot EXCEPT !.phase = "starting"]
    /\ UNCHANGED <<kvm, written, setup_pass, last>> /\ UNCHANGED Ambient

\* The image's rule for the device runs, and checks that waited answer.
BootFinishes ==
    /\ vm_boot.phase = "starting"
    /\ vm_boot' = [vm_boot EXCEPT !.phase = "running"]
    /\ kvm' = IF kvm = "absent" THEN "absent" ELSE "bare"
    /\ UNCHANGED <<written, setup_pass, last>> /\ UNCHANGED Ambient

GuestDies ==
    /\ Up
    /\ vm_boot' = [vm_boot EXCEPT !.phase = "off"]
    /\ UNCHANGED <<kvm, written, setup_pass, last>> /\ UNCHANGED Ambient

Event == events < MaxEvents /\ events' = events + 1
ClockMoves(t) ==
    /\ Event /\ t # clock /\ clock' = t
    /\ UNCHANGED <<image, vm_boot, kvm, written, setup_pass, daemon, login, last>>
LoginChanges ==
    /\ Event /\ login' = 3 - login
    /\ UNCHANGED <<image, vm_boot, kvm, written, setup_pass, daemon, clock, last>>

-----------------------------------------------------------------------------

SetupInit ==
    /\ image \in [podman : BOOLEAN, nested : BOOLEAN, home : BOOLEAN]
    /\ vm_boot = [phase |-> "off", count |-> 0]
    /\ kvm = "absent"
    /\ written = [url |-> 0, socket |-> FALSE, podman |-> "none", hook |-> 0, auth |-> [login |-> 0, at |-> 0]]
    /\ setup_pass = NoSetup
    /\ daemon = 1 /\ clock = 0 /\ login = 1 /\ events = 0
    /\ last = [ended |-> "none", vm_boot |-> 0, systemd |-> FALSE]

SetupNext ==
    \/ BeginsSetup \/ InstallsUrl \/ StartsProbe \/ ProbeEnds \/ FindsPodman
    \/ StartsCheck \/ CheckAnswers \/ DeadlinePasses \/ ConfiguresPodman
    \/ FindsKvm \/ grant_kvm \/ CarriesHome \/ point_podman_at_socket
    \/ configure_git_identity \/ Bootstraps
    \/ TimesOut \/ SetupBreaks \/ DaemonRestarts
    \/ BecomesSystemd \/ BootFinishes \/ GuestDies
    \/ \E t \in 0..MaxClock : ClockMoves(t)
    \/ LoginChanges

SetupSpec == SetupInit /\ [][SetupNext]_setupVars

-----------------------------------------------------------------------------

SetupTypeOK ==
    /\ vm_boot.phase \in {"off", "entrypoint", "starting", "running"} /\ vm_boot.count \in 0..MaxVmBoots
    /\ kvm \in {"absent", "bare", "granted"}
    /\ written.url \in 0..daemon /\ written.hook \in 0..daemon /\ written.podman \in {"none", "home", "agentd"}
    /\ setup_pass.next \in {"none", "podman", "grant"} /\ last.ended \in {"none", "done", "failed"}
    /\ daemon \in 1..MaxDaemons /\ clock \in 0..MaxClock /\ events \in 0..MaxEvents

\* Hooks left running by an earlier daemon reach this one as soon as a pass
\* of it got anywhere, also when it fails later (install_platform_api_url).
HooksReachTheDaemon == setup_pass.at \notin {"idle", "url"} => written.url = daemon

\* Podman's socket is only set up on a guest systemd has booted
\* (wait_for_systemd before systemctl).
PodmanOnABootedGuest == At_step("podman") /\ Up => vm_boot.phase = "running"

\* The device an agent was granted stays granted until the guest reboots,
\* also when its image has a rule of its own for it, unless setup was over
\* before the entrypoint had become systemd (grant_kvm).
KvmStaysGranted ==
    /\ last.ended = "done" /\ last.vm_boot = vm_boot.count /\ last.systemd /\ Up /\ At_step("idle")
    => kvm # "bare"

\* After a pass every podman in the sandbox uses the shared one, also when
\* the agent's home configures its own (point_podman_at_socket).
PodmanIsShared == last.ended = "done" /\ At_step("idle") /\ image.podman => written.podman = "agentd"

\* Codex never starts with another login than the one assigned, nor with one
\* it would think is due for a refresh (auth_needs_refresh).
LoginIsCurrent ==
    [][At_step("bootstrap") /\ setup_pass'.at = "idle" /\ last'.ended = "done" =>
           /\ written'.auth.login = setup_pass.login
           /\ written'.auth.at \in (clock - AUTH_REFRESH_MAX_AGE)..clock]_setupVars

\* The order of a setup pass: hooks reach this daemon from its first step on, Podman is set up
\* on a booted guest and shared, and a granted device stays granted (sandbox/platform/linux).
SetupIsInOrder ==
    /\ SetupTypeOK
    /\ HooksReachTheDaemon
    /\ PodmanOnABootedGuest
    /\ KvmStaysGranted
    /\ PodmanIsShared

=============================================================================
