------------------------------- MODULE Logins -------------------------------
(***************************************************************************)
(* Harness logins (harness/mod.rs, harness/login.rs, codex and claude_code *)
(* authentication.rs): the stored logins, the refresh of a Codex grant     *)
(* whose refresh token rotates on use, and the choice of a login for each  *)
(* agent.                                                                  *)
(*                                                                         *)
(* Every future may be dropped at an await: a driver is aborted, a caller  *)
(* disconnects.  A database command already sent is carried out all the    *)
(* same.  Tokens are numbered within their grant, and grants over all.     *)
(***************************************************************************)
EXTENDS Naturals, Sequences, FiniteSets, SequencesExt

CONSTANTS
    CodexLogins,   \* login names of Codex
    ClaudeLogins,  \* login names of Claude Code
    Preference,    \* every login name, in order of name
    LoginWorkers,  \* futures that resolve, log in or log out
    LoginAgents,   \* agents with one mediated harness installation
    LoginSets,     \* the login sets a manifest may declare, as sequences of names
    MaxGrants,     \* bound on sign-ins
    MaxTokens      \* bound on rotations of one grant

Names == CodexLogins \cup ClaudeLogins
Grants == 1..MaxGrants
NoLogin == "no login"
Unlocked == "unlocked"

ASSUME LoginConstants ==
    /\ CodexLogins \cap ClaudeLogins = {} /\ NoLogin \notin Names
    /\ ToSet(Preference) = Names
    /\ \A s \in LoginSets :
         s \in Seq(Names) /\ (ToSet(s) \subseteq CodexLogins \/ ToSet(s) \subseteq ClaudeLogins)
    /\ Unlocked \notin LoginWorkers /\ IsFiniteSet(LoginAgents)
    /\ MaxGrants \in Nat /\ MaxTokens \in Nat

VARIABLES
    stored,        \* the provider account of each login
    service,       \* what the sign-in service accepts for each grant
    lock,          \* Refresh::lock of each login
    failure,       \* Refresh::failure of each login
    worker,        \* the futures
    assigned,      \* AuthenticationManager::assignments
    agent,         \* the agents and their passes
    grants,        \* sign-ins so far
    lost,          \* grants one of whose rotations was not stored (history)
    latest,        \* the grant of the last completed sign-in, 0 after a logout (history)
    cut            \* logins whose sign-in or sign-out was dropped after its write (history)

loginVars == <<stored, service, lock, failure, worker, assigned, agent, grants, lost, latest, cut>>

NoAccount == [kind |-> "none", grant |-> 0, token |-> 0, due |-> FALSE]
NoFailure == [kind |-> "none", grant |-> 0]
Nowhere == [pc |-> "idle", op |-> "none", login |-> NoLogin, kind |-> "none", grant |-> 0, token |-> 0]

LoginTypeOK ==
    /\ stored \in [Names -> [kind : {"none", "oauth", "mediated", "setup token"}, grant : 0..MaxGrants,
                             token : 0..MaxTokens, due : BOOLEAN]]
    /\ service \in [Grants -> [token : 0..MaxTokens, revoked : BOOLEAN]]
    /\ lock \in [Names -> LoginWorkers \cup {Unlocked}]
    /\ failure \in [Names -> [kind : {"none", "permanent", "waiting", "elapsed"}, grant : 0..MaxGrants]]
    /\ worker \in [LoginWorkers ->
            [pc : {"idle", "waits", "stores", "deletes", "checks", "sent", "answered", "rejected", "clears"},
             op : {"none", "login", "logout", "resolve"}, login : Names \cup {NoLogin},
             kind : {"none", "oauth", "mediated", "setup token"}, grant : 0..MaxGrants, token : 0..MaxTokens]]
    /\ assigned \in [LoginAgents -> Names \cup {NoLogin}]
    /\ \A a \in LoginAgents :
         /\ agent[a].pc \in {"idle", "reads", "chose", "prepared"}
         /\ agent[a].set \in LoginSets
         /\ agent[a].status \in Names \cup {NoLogin}
         /\ agent[a].run \in {"running", "stopped", "deleting"}
         /\ agent[a].usable \subseteq Names
         /\ agent[a].pc \in {"chose", "prepared"} => assigned[a] # NoLogin

LoginInit ==
    /\ stored = [l \in Names |-> NoAccount]
    /\ service = [g \in Grants |-> [token |-> 0, revoked |-> FALSE]]
    /\ lock = [l \in Names |-> Unlocked]
    /\ failure = [l \in Names |-> NoFailure]
    /\ worker = [w \in LoginWorkers |-> Nowhere]
    /\ assigned = [a \in LoginAgents |-> NoLogin]
    /\ agent \in [LoginAgents -> [pc : {"idle"}, set : LoginSets, run : {"running"}, status : {NoLogin}, usable : {{}}]]
    /\ grants = 0
    /\ lost = {}
    /\ latest = [l \in Names |-> 0]
    /\ cut = {}

-----------------------------------------------------------------------------
(* Signing in and out.                                                     *)

ForAgents == <<assigned, agent>>

\* AuthenticationManager::login and codex login: a grant minted by the host login
\* flow, or the placeholders of an enclosing agent; nothing else can be imported.
\* A refresh in flight is waited for.
CodexLogin(w, l, kind, imported) ==
    /\ worker[w].pc = "idle"
    /\ grants < MaxGrants
    /\ imported => kind = "mediated"
    /\ grants' = grants + 1
    /\ worker' = [worker EXCEPT ![w] =
            [Nowhere EXCEPT !.pc = "waits", !.op = "login", !.login = l, !.kind = kind, !.grant = grants']]
    /\ UNCHANGED <<stored, service, lock, failure, lost, latest, cut, ForAgents>>

\* claude_code login: the token passed its format check; only an answer of 401
\* keeps it from being stored, and no lock is taken.
ClaudeLogin(w, l) ==
    /\ worker[w].pc = "idle"
    /\ grants < MaxGrants
    /\ grants' = grants + 1
    /\ worker' = [worker EXCEPT ![w] =
            [Nowhere EXCEPT !.pc = "stores", !.op = "login", !.login = l, !.kind = "setup token", !.grant = grants']]
    /\ UNCHANGED <<stored, service, lock, failure, lost, latest, cut, ForAgents>>

\* AuthenticationManager::logout.
Logout(w, l) ==
    /\ worker[w].pc = "idle"
    /\ worker' = [worker EXCEPT ![w] =
            [Nowhere EXCEPT !.pc = IF l \in CodexLogins THEN "waits" ELSE "deletes", !.op = "logout", !.login = l]]
    /\ UNCHANGED <<stored, service, lock, failure, grants, lost, latest, cut, ForAgents>>

\* SecretStore::resolve of a Codex access token: resolve_access, refresh_if_needed.
Resolve(w, l) ==
    /\ worker[w].pc = "idle"
    /\ worker' = [worker EXCEPT ![w] = [Nowhere EXCEPT !.pc = "waits", !.op = "resolve", !.login = l]]
    /\ UNCHANGED <<stored, service, lock, failure, grants, lost, latest, cut, ForAgents>>

\* Mutant of TakesLock: refreshes may overlap.
TakesLock_Shared(w) ==
    LET l == worker[w].login IN
    /\ worker[w].pc = "waits"
    /\ IF lock[l] = Unlocked THEN TRUE ELSE worker[w].op = "resolve" /\ worker[lock[l]].op = "resolve"
    /\ lock' = [lock EXCEPT ![l] = w]
    /\ worker' = [worker EXCEPT ![w].pc =
            CASE worker[w].op = "login" -> "stores" [] worker[w].op = "logout" -> "deletes" [] OTHER -> "checks"]
    /\ UNCHANGED <<stored, service, failure, grants, lost, latest, cut, ForAgents>>

\* refresh_state(login).lock, which is never removed from the map.
TakesLock(w) ==
    LET l == worker[w].login IN
    /\ worker[w].pc = "waits"
    /\ lock[l] = Unlocked
    /\ lock' = [lock EXCEPT ![l] = w]
    /\ worker' = [worker EXCEPT ![w].pc =
            CASE worker[w].op = "login" -> "stores" [] worker[w].op = "logout" -> "deletes" [] OTHER -> "checks"]
    /\ UNCHANGED <<stored, service, failure, grants, lost, latest, cut, ForAgents>>

\* The future ends, and its guard is dropped.
Returned(w) ==
    /\ worker' = [worker EXCEPT ![w] = Nowhere]
    /\ lock' = [l \in Names |-> IF lock[l] = w THEN Unlocked ELSE lock[l]]

\* LoginStore::put writes the secrets and the metadata in one transaction.
StoresLogin(w) ==
    LET l == worker[w].login IN
    /\ worker[w].pc = "stores"
    /\ stored' = [stored EXCEPT ![l] = [kind |-> worker[w].kind, grant |-> worker[w].grant, token |-> 0, due |-> FALSE]]
    /\ latest' = [latest EXCEPT ![l] = worker[w].grant]
    /\ worker' = [worker EXCEPT ![w].pc = "clears"]
    /\ UNCHANGED <<service, lock, failure, grants, lost, cut, ForAgents>>

\* LoginStore::delete.
DeletesLogin(w) ==
    LET l == worker[w].login IN
    /\ worker[w].pc = "deletes"
    /\ stored' = [stored EXCEPT ![l] = NoAccount]
    /\ latest' = [latest EXCEPT ![l] = 0]
    /\ worker' = [worker EXCEPT ![w].pc = "clears"]
    /\ UNCHANGED <<service, lock, failure, grants, lost, cut, ForAgents>>

\* The end of login and logout: failure.take().
ClearsFailure(w) ==
    /\ worker[w].pc = "clears"
    /\ failure' = [failure EXCEPT ![worker[w].login] = NoFailure]
    /\ cut' = cut \ {worker[w].login}
    /\ Returned(w)
    /\ UNCHANGED <<stored, service, grants, lost, latest, ForAgents>>

\* Validation or the write failed.
LoginFails(w) ==
    /\ worker[w].pc \in {"stores", "deletes"}
    /\ Returned(w)
    /\ UNCHANGED <<stored, service, failure, grants, lost, latest, cut, ForAgents>>

-----------------------------------------------------------------------------
(* The refresh of a grant.                                                 *)

\* Nothing to refresh: refresh_if_needed returns before it looks for a failure.
NotDue(l) == stored[l].kind = "mediated" \/ ~stored[l].due

\* cached_refresh_failure.
KnownToFail(l) == failure[l].kind \in {"permanent", "waiting"}

\* refresh_if_needed, up to the request.
ChecksGrant(w) ==
    LET l == worker[w].login IN
    /\ worker[w].pc = "checks"
    /\ IF stored[l].kind = "none" \/ NotDue(l) \/ KnownToFail(l)
       THEN Returned(w) /\ UNCHANGED failure
       ELSE /\ failure' = [failure EXCEPT ![l] = NoFailure]
            /\ worker' = [worker EXCEPT ![w].pc = "sent", ![w].grant = stored[l].grant, ![w].token = stored[l].token]
            /\ UNCHANGED lock
    /\ UNCHANGED <<stored, service, grants, lost, latest, cut, ForAgents>>

Accepted(g, token) == service[g].token = token /\ ~service[g].revoked

\* The service answers; a rotation makes the token it was given unusable.
ServiceAnswers(w, token) ==
    LET g == worker[w].grant IN
    /\ worker[w].pc = "sent"
    /\ IF Accepted(g, worker[w].token)
       THEN /\ token \in {worker[w].token, worker[w].token + 1} \cap 0..MaxTokens
            /\ service' = [service EXCEPT ![g].token = token]
            /\ worker' = [worker EXCEPT ![w].pc = "answered", ![w].token = token]
       ELSE /\ token = worker[w].token
            /\ worker' = [worker EXCEPT ![w].pc = "rejected"]
            /\ UNCHANGED service
    /\ UNCHANGED <<stored, lock, failure, grants, lost, latest, cut, ForAgents>>

Unsaved(w) == IF worker[w].pc = "answered" /\ worker[w].token # stored[worker[w].login].token
              THEN {worker[w].grant} ELSE {}

\* A transient failure: unreachable, a timeout, an unexpected status, an answer
\* that cannot be read or a write that failed.
RefreshFails(w) ==
    /\ worker[w].pc \in {"sent", "answered"}
    /\ failure' = [failure EXCEPT ![worker[w].login] = [kind |-> "waiting", grant |-> worker[w].grant]]
    /\ lost' = lost \cup Unsaved(w)
    /\ Returned(w)
    /\ UNCHANGED <<stored, service, grants, latest, cut, ForAgents>>

\* A permanent failure: the grant was rejected, and is not tried again.
RefreshRejected(w) ==
    /\ worker[w].pc = "rejected"
    /\ failure' = [failure EXCEPT ![worker[w].login] = [kind |-> "permanent", grant |-> worker[w].grant]]
    /\ Returned(w)
    /\ UNCHANGED <<stored, service, grants, lost, latest, cut, ForAgents>>

\* The replacement is stored, together with the token the service returned or else
\* the one that was sent.
StoresGrant(w) ==
    LET l == worker[w].login IN
    /\ worker[w].pc = "answered"
    /\ stored' = [stored EXCEPT ![l] = [kind |-> "oauth", grant |-> worker[w].grant, token |-> worker[w].token,
                                        due |-> FALSE]]
    /\ failure' = [failure EXCEPT ![l] = NoFailure]
    /\ Returned(w)
    /\ UNCHANGED <<service, grants, lost, latest, cut, ForAgents>>

-----------------------------------------------------------------------------
(* The choice of a login.                                                  *)

ForLogins == <<stored, service, lock, failure, worker, grants, lost, latest, cut>>

\* The first lines of assign_login, for the harness of the installation.
ReadsUsable(a) ==
    /\ agent[a].pc = "idle"
    /\ agent[a].run = "running"
    /\ agent' = [agent EXCEPT ![a].pc = "reads", ![a].usable = {l \in Names : stored[l].kind # "none"}]
    /\ UNCHANGED <<assigned, ForLogins>>

\* login_of: the latest choice made here, or else the agent's stored status.
LoginOf(a) == IF assigned[a] # NoLogin THEN assigned[a] ELSE agent[a].status

\* A stopped agent spends no quota, and one being deleted soon none.
Users(a, l) == Cardinality({b \in LoginAgents \ {a} : agent[b].run = "running" /\ LoginOf(b) = l})

\* Where in its set the stored logins are.
Candidates(a) == {i \in DOMAIN agent[a].set : agent[a].set[i] \in agent[a].usable}

\* The candidate the fewest other running agents use, and on a tie the earlier in the set.
LeastUsed(a) ==
    LET Use(i) == Users(a, agent[a].set[i])
    IN agent[a].set[CHOOSE i \in Candidates(a) :
          \A j \in Candidates(a) : Use(i) < Use(j) \/ (Use(i) = Use(j) /\ i <= j)]

\* LoginSet::choose: the current login stays while it is a candidate.
choose(a) ==
    IF \E i \in Candidates(a) : agent[a].set[i] = LoginOf(a) THEN LoginOf(a)
    ELSE IF Candidates(a) = {} THEN NoLogin
    ELSE LeastUsed(a)

\* assign_login from the list of agents on: nothing awaits.
AssignsLogin(a) ==
    /\ agent[a].pc = "reads"
    /\ assigned' = [assigned EXCEPT ![a] = choose(a)]
    /\ agent' = [agent EXCEPT ![a].pc = IF choose(a) = NoLogin THEN "idle" ELSE "chose", ![a].usable = {}]
    /\ UNCHANGED ForLogins

\* harness::prepare: is_ready is asked again.
PreparesHarness(a) ==
    /\ agent[a].pc = "chose"
    /\ agent' = [agent EXCEPT ![a].pc = IF stored[assigned[a]].kind = "none" THEN "idle" ELSE "prepared"]
    /\ UNCHANGED <<assigned, ForLogins>>

\* The pass records the sandbox with its logins.
RecordsLogin(a) ==
    /\ agent[a].pc = "prepared"
    /\ agent' = [agent EXCEPT ![a].pc = "idle", ![a].status = assigned[a]]
    /\ UNCHANGED <<assigned, ForLogins>>

\* The rest of the pass fails, or is abandoned.
PassIsCutShort(a) ==
    /\ agent[a].pc # "idle"
    /\ agent' = [agent EXCEPT ![a].pc = "idle", ![a].usable = {}]
    /\ UNCHANGED <<assigned, ForLogins>>

-----------------------------------------------------------------------------
(* What happens around them.                                               *)

\* Another manifest, a stop, a start or a delete.
ChangesAgent(a, set, run) ==
    /\ agent[a].pc = "idle"
    /\ agent[a].run # "deleting"
    /\ agent' = [agent EXCEPT ![a].set = set, ![a].run = run]
    /\ UNCHANGED <<assigned, ForLogins>>

\* The access token is within five minutes of its end.
BecomesDue(l) ==
    /\ stored[l].kind = "oauth"
    /\ stored' = [stored EXCEPT ![l].due = TRUE]
    /\ UNCHANGED <<service, lock, failure, worker, grants, lost, latest, cut, ForAgents>>

\* Thirty seconds have passed since a transient failure.
CoolsDown(l) ==
    /\ failure[l].kind = "waiting"
    /\ failure' = [failure EXCEPT ![l].kind = "elapsed"]
    /\ UNCHANGED <<stored, service, lock, worker, grants, lost, latest, cut, ForAgents>>

ServiceRevokes(g) ==
    /\ g <= grants
    /\ service' = [service EXCEPT ![g].revoked = TRUE]
    /\ UNCHANGED <<stored, lock, failure, worker, grants, lost, latest, cut, ForAgents>>

\* The driver is aborted, or the caller hangs up, at any await.
Dropped(w) ==
    /\ worker[w].pc # "idle"
    /\ lost' = lost \cup Unsaved(w)
    /\ cut' = IF worker[w].pc = "clears" THEN cut \cup {worker[w].login} ELSE cut
    /\ Returned(w)
    /\ UNCHANGED <<stored, service, failure, grants, latest, ForAgents>>

\* agentd ends and starts again: what it kept in memory is gone.
LoginRestart ==
    /\ worker' = [w \in LoginWorkers |-> Nowhere]
    /\ lock' = [l \in Names |-> Unlocked]
    /\ failure' = [l \in Names |-> NoFailure]
    /\ lost' = lost \cup UNION {Unsaved(w) : w \in LoginWorkers}
    /\ cut' = {}
    /\ assigned' = [a \in LoginAgents |-> NoLogin]
    /\ agent' = [a \in LoginAgents |-> [agent[a] EXCEPT !.pc = "idle", !.usable = {}]]
    /\ UNCHANGED <<stored, service, grants, latest>>

LoginNext ==
    \/ \E w \in LoginWorkers :
         \/ \E l \in CodexLogins, kind \in {"oauth", "mediated"}, imported \in BOOLEAN : CodexLogin(w, l, kind, imported)
         \/ \E l \in ClaudeLogins : ClaudeLogin(w, l)
         \/ \E l \in Names : Logout(w, l)
         \/ \E l \in CodexLogins : Resolve(w, l)
         \/ TakesLock(w) \/ StoresLogin(w) \/ DeletesLogin(w) \/ ClearsFailure(w) \/ LoginFails(w)
         \/ ChecksGrant(w)
         \/ \E token \in 0..MaxTokens : ServiceAnswers(w, token)
         \/ RefreshFails(w) \/ RefreshRejected(w) \/ StoresGrant(w)
         \/ Dropped(w)
    \/ \E a \in LoginAgents :
         \/ ReadsUsable(a) \/ AssignsLogin(a) \/ PreparesHarness(a) \/ RecordsLogin(a) \/ PassIsCutShort(a)
         \/ \E set \in LoginSets, run \in {"running", "stopped", "deleting"} : ChangesAgent(a, set, run)
    \/ \E l \in CodexLogins : BecomesDue(l) \/ CoolsDown(l)
    \/ \E g \in Grants : ServiceRevokes(g)
    \/ LoginRestart

LoginSpec == LoginInit /\ [][LoginNext]_loginVars

-----------------------------------------------------------------------------
(* Properties.                                                             *)

\* A grant is given up only when the service revoked it, or when one of its
\* rotations was never stored: no refresh token is used twice by two refreshes
\* that overlap (Refresh::lock).
GivenUpForCause ==
    \A l \in CodexLogins : failure[l].kind = "permanent" =>
        service[failure[l].grant].revoked \/ failure[l].grant \in lost

\* What is stored is the last sign-in, and nothing after a sign-out: a refresh in
\* flight does not bring an earlier grant back.
StoredIsTheLatest == \A l \in Names : stored[l].grant = latest[l]

\* The grant that is given up is the stored one, so that a new sign-in is used;
\* unless the sign-in was dropped between its write and its last step.
GivenUpIsTheStored ==
    \A l \in CodexLogins :
        failure[l].kind = "permanent" /\ l \notin cut /\ lock[l] = Unlocked => failure[l].grant = stored[l].grant

\* An agent moves to another login only when its own is no longer in its set or
\* was not stored when its pass began.
AgentKeepsItsLogin ==
    [][\A a \in LoginAgents :
          assigned'[a] # assigned[a] /\ LoginOf(a) # NoLogin /\ assigned'[a] \notin {LoginOf(a), NoLogin} =>
              LoginOf(a) \notin ToSet(agent[a].set) \cap agent[a].usable]_loginVars

\* A login newly given to an agent is one the fewest running agents use at that
\* moment, the choices of passes still under way included.
LeastUsedIsGiven ==
    [][\A a \in LoginAgents :
          assigned'[a] \notin {assigned[a], LoginOf(a), NoLogin} =>
              \A l \in ToSet(agent[a].set) \cap agent[a].usable : Users(a, assigned'[a]) <= Users(a, l)]_loginVars

\* Refreshes share one stored login: it is the latest one granted, and it is given up only for a
\* refusal of that very login (harness/codex/authentication.rs, harness/login.rs).
StoredLoginsAreTheLatest ==
    /\ LoginTypeOK
    /\ GivenUpForCause
    /\ StoredIsTheLatest
    /\ GivenUpIsTheStored

=============================================================================
