------------------------------ MODULE GuestForward ------------------------------
(***************************************************************************)
(* Port forwards into a guest (agentctl sandbox/forward.rs) and the relay  *)
(* of one connection over the sandbox agent's session (microsandbox        *)
(* guest_tcp.rs).                                                          *)
(*                                                                         *)
(* A forward is one task that accepts connections and dials the guest for  *)
(* each over a shared dialer; every accepted connection is relayed by a    *)
(* task of its own, which belongs to the accepting one.  `ssh-proxy` is a  *)
(* single connection with a dialer of its own.                             *)
(*                                                                         *)
(* A chunk of bytes is counted, not held: what matters is how many of each *)
(* direction went in and came out before the ends of stream.               *)
(***************************************************************************)
EXTENDS Integers, Sequences

CONSTANTS
    Conns,        \* local connections to the forward, or runs of ssh-proxy
    Talkers,      \* those over which anything is sent
    MaxChunks,    \* chunks each end of a connection writes
    MaxBoots      \* boots of the sandbox's runtime

ASSUME ForwardConstants == Talkers \subseteq Conns /\ MaxChunks \in Nat /\ MaxBoots \in Nat

VARIABLES
    boot,       \* the runtime that runs, 0 when none does
    boots,      \* runtimes that have run
    listens,    \* the guest port accepts connections
    loop,       \* accept_loop: what it awaits
    taking,     \* the connection it has accepted, if any
    dialer,     \* the boot its dialer is connected to, 0 for none
    shown_failure,     \* the last failure shown: "none" or "failed"
    conn,       \* the local end of each connection and its relay
    session,    \* the guest's end of each connection
    refused     \* history: connections dropped though the guest would have answered, this boot

forwardVars == <<boot, boots, listens, loop, taking, dialer, shown_failure, conn, session, refused>>

\* One connection on the host: `at` is where it is; `out` and `eof` are what its
\* client wrote; `reading` is what its relay's host_to_guest awaits; `written`,
\* `flushed` and `shut` are what its guest_to_host gave the client.
NewConn == [at |-> "new", own |-> FALSE, out |-> 0, eof |-> FALSE, taken |-> 0,
            reading |-> "read", hostClosed |-> FALSE, guestClosed |-> FALSE,
            written |-> 0, flushed |-> 0, shut |-> FALSE, result |-> "none"]

\* Its session in the guest: the boot it is of, what its server got and sent,
\* and what is on its way to the relay.
NoSession == [at |-> "none", boot |-> 0, got |-> 0, gotEof |-> FALSE,
              out |-> 0, eof |-> FALSE, inbox |-> <<>>]

Put(c, k) == conn' = [conn EXCEPT ![c] = k]
MovesTo(c, at) == Put(c, [conn[c] EXCEPT !.at = at])
PutSession(c, s) == session' = [session EXCEPT ![c] = s]
Relaying(c) == conn[c].at = "relays"

\* Whether the session's messages still arrive: its runtime is the one it began with.
Reached(c) == session[c].boot = boot /\ boot # 0

-----------------------------------------------------------------------------
(* The guest and the local clients.  External.                             *)

RuntimeStarts ==
    /\ boot = 0 /\ boots < MaxBoots
    /\ boots' = boots + 1 /\ boot' = boots + 1
    /\ listens' \in BOOLEAN
    /\ refused' = 0
    /\ UNCHANGED <<loop, taking, dialer, shown_failure, conn, session>>

RuntimeStops ==
    /\ boot # 0
    /\ boot' = 0 /\ listens' = FALSE
    /\ UNCHANGED <<boots, loop, taking, dialer, shown_failure, conn, session, refused>>

Listens ==
    /\ boot # 0 /\ ~listens
    /\ listens' = TRUE
    /\ UNCHANGED <<boot, boots, loop, taking, dialer, shown_failure, conn, session, refused>>

\* A local client connects to the forward's listener, or runs ssh-proxy.
Connects(c, own) ==
    /\ conn[c].at = "new" /\ (own \/ loop # "stopped")
    /\ Put(c, [conn[c] EXCEPT !.at = IF own THEN "dials" ELSE "waits", !.own = own])
    /\ UNCHANGED <<boot, boots, listens, loop, taking, dialer, shown_failure, session, refused>>

ClientWrites(c) ==
    /\ c \in Talkers /\ conn[c].at \in {"waits", "dials", "relays"} /\ ~conn[c].eof
    /\ IF conn[c].out < MaxChunks THEN Put(c, [conn[c] EXCEPT !.out = @ + 1])
       ELSE Put(c, [conn[c] EXCEPT !.eof = TRUE])
    /\ UNCHANGED <<boot, boots, listens, loop, taking, dialer, shown_failure, session, refused>>

\* The server in the guest writes, ends its writing, or closes both ways.
ServerSends(c) ==
    /\ c \in Talkers /\ session[c].at = "open" /\ Reached(c) /\ ~session[c].eof
    /\ \/ /\ session[c].out < MaxChunks
          /\ PutSession(c, [session[c] EXCEPT !.out = @ + 1, !.inbox = Append(@, "data")])
       \/ PutSession(c, [session[c] EXCEPT !.eof = TRUE, !.inbox = Append(@, "eof")])
       \/ PutSession(c, [session[c] EXCEPT !.eof = TRUE, !.at = "closed", !.inbox = Append(@, "closed")])
    /\ UNCHANGED <<boot, boots, listens, loop, taking, dialer, shown_failure, conn, refused>>

-----------------------------------------------------------------------------
(* accept_loop.                                                            *)

\* The next connection; a dialer that is not connected is connected first.
Accepts(c) ==
    /\ loop = "accepts" /\ conn[c].at = "waits"
    /\ taking' = {c}
    /\ loop' = IF dialer = 0 THEN "dials" ELSE "connects"
    /\ MovesTo(c, "taken")
    /\ UNCHANGED <<boot, boots, listens, dialer, shown_failure, session, refused>>

\* guest_tcp_dialer: reaches the runtime that runs now.
Dials ==
    /\ loop = "dials" /\ boot # 0
    /\ dialer' = boot /\ loop' = "connects"
    /\ UNCHANGED <<boot, boots, listens, taking, shown_failure, conn, session, refused>>

\* The stream is dropped, and the client sees its connection end.
DialFails(c) ==
    /\ loop = "dials" /\ c \in taking
    /\ loop' = "accepts" /\ taking' = {} /\ shown_failure' = "failed"
    /\ MovesTo(c, "dropped")
    /\ UNCHANGED <<boot, boots, listens, dialer, session, refused>>

\* GuestTcpStream::open: the guest dials its port, and the reply is awaited.
Answers(d) == d = boot /\ boot # 0 /\ listens

Opened(c) == session' = [session EXCEPT ![c] = [NoSession EXCEPT !.at = "open", !.boot = boot]]

ConnectSucceeds(c) ==
    /\ loop = "connects" /\ c \in taking /\ Answers(dialer)
    /\ loop' = "accepts" /\ taking' = {} /\ shown_failure' = "none"
    /\ MovesTo(c, "relays") /\ Opened(c)
    /\ UNCHANGED <<boot, boots, listens, dialer, refused>>

\* As it would be if the dialer were kept whatever became of the connect.
ConnectFails_KeepingDialer(c) ==
    /\ loop = "connects" /\ c \in taking /\ ~Answers(dialer)
    /\ loop' = "accepts" /\ taking' = {} /\ shown_failure' = "failed"
    /\ dialer' = dialer
    /\ MovesTo(c, "dropped")
    /\ refused' = IF boot # 0 /\ listens THEN refused + 1 ELSE refused
    /\ UNCHANGED <<boot, boots, listens, session>>

\* The guest refuses, or the dialer's connection to the runtime is gone: the
\* next connection dials anew.
ConnectFails(c) ==
    /\ loop = "connects" /\ c \in taking /\ ~Answers(dialer)
    /\ loop' = "accepts" /\ taking' = {} /\ shown_failure' = "failed"
    /\ dialer' = 0
    /\ MovesTo(c, "dropped")
    /\ refused' = IF boot # 0 /\ listens THEN refused + 1 ELSE refused
    /\ UNCHANGED <<boot, boots, listens, session>>

\* Those that end with the accepting task: its relays are in its JoinSet.
Aborted(c) == conn[c].at \in {"waits", "taken", "relays"} /\ ~conn[c].own

\* Dropping a stream sends TcpClose.
Release(cs) == session' = [c \in Conns |->
    IF c \in cs /\ session[c].at = "open" /\ Reached(c)
    THEN [session[c] EXCEPT !.at = "closed"] ELSE session[c]]

\* The task is aborted: the forward was stopped, or dropped.
StopsForward ==
    /\ loop # "stopped"
    /\ loop' = "stopped" /\ taking' = {}
    /\ conn' = [c \in Conns |-> IF Aborted(c) THEN [conn[c] EXCEPT !.at = "dropped"] ELSE conn[c]]
    /\ Release({c \in Conns : Aborted(c)})
    /\ UNCHANGED <<boot, boots, listens, dialer, shown_failure, refused>>

\* ssh-proxy dials for its one connection: every call reaches the runtime that runs now.
relay_guest_port(c) ==
    /\ conn[c].at = "dials"
    /\ IF Answers(boot)
       THEN MovesTo(c, "relays") /\ Opened(c)
       ELSE MovesTo(c, "dropped") /\ UNCHANGED session
    /\ UNCHANGED <<boot, boots, listens, loop, taking, dialer, shown_failure, refused>>

-----------------------------------------------------------------------------
(* relay_io: host_to_guest and guest_to_host, polled by turns.             *)

\* The relay ends, and its stream is dropped.
EndsRelay(c, k, result) ==
    /\ Put(c, [k EXCEPT !.at = "done", !.result = result])
    /\ session' = [session EXCEPT ![c].at = IF Reached(c) THEN "closed" ELSE @]
    /\ shown_failure' = IF result = "failed" /\ ~conn[c].own /\ loop # "stopped" THEN "failed" ELSE shown_failure
    /\ UNCHANGED <<boot, boots, listens, loop, taking, dialer, refused>>

GoesOn(c, k) ==
    /\ Put(c, k)
    /\ UNCHANGED <<boot, boots, listens, loop, taking, dialer, shown_failure, refused>>

HostRead(c) ==
    /\ Relaying(c) /\ conn[c].reading = "read"
    /\ \/ conn[c].taken < conn[c].out /\ GoesOn(c, [conn[c] EXCEPT !.reading = "send", !.taken = @ + 1])
       \/ conn[c].taken = conn[c].out /\ conn[c].eof /\ GoesOn(c, [conn[c] EXCEPT !.reading = "sendEof"])
    /\ UNCHANGED session

HostSent(c) ==
    /\ Relaying(c) /\ conn[c].reading = "send" /\ Reached(c)
    /\ GoesOn(c, [conn[c] EXCEPT !.reading = "read"])
    /\ session' = [session EXCEPT ![c].got = @ + 1]

\* A half-close: the relay goes on while the guest may still write.
HostSentEof(c) ==
    /\ Relaying(c) /\ conn[c].reading = "sendEof" /\ Reached(c)
    /\ LET over == [conn[c] EXCEPT !.reading = "over", !.hostClosed = TRUE] IN
       IF conn[c].guestClosed
       THEN /\ Put(c, [over EXCEPT !.at = "done", !.result = "both"])
            /\ PutSession(c, [session[c] EXCEPT !.gotEof = TRUE, !.at = "closed"])
            /\ UNCHANGED <<boot, boots, listens, loop, taking, dialer, shown_failure, refused>>
       ELSE GoesOn(c, over) /\ session' = [session EXCEPT ![c].gotEof = TRUE]

SendFails(c) ==
    /\ Relaying(c) /\ conn[c].reading \in {"send", "sendEof"} /\ ~Reached(c)
    /\ EndsRelay(c, conn[c], "failed")

Rest(c) == [session EXCEPT ![c].inbox = Tail(@)]

\* Flushed once nothing more is queued.
GuestData(c) ==
    /\ Relaying(c) /\ session[c].inbox # <<>> /\ Head(session[c].inbox) = "data"
    /\ session' = Rest(c)
    /\ GoesOn(c, [conn[c] EXCEPT !.written = @ + 1,
                                 !.flushed = IF Len(session[c].inbox) = 1 THEN conn[c].written + 1 ELSE @])

GuestEof(c) ==
    /\ Relaying(c) /\ session[c].inbox # <<>> /\ Head(session[c].inbox) = "eof"
    /\ LET over == [conn[c] EXCEPT !.guestClosed = TRUE, !.shut = TRUE, !.flushed = conn[c].written] IN
       IF conn[c].hostClosed THEN EndsRelay(c, over, "both")
       ELSE session' = Rest(c) /\ GoesOn(c, over)

\* The guest closed the connection, or the agent's connection ended: what was
\* received before is handed over first.
GuestGone(c) ==
    /\ Relaying(c)
    /\ \/ session[c].inbox # <<>> /\ Head(session[c].inbox) = "closed"
       \/ session[c].inbox = <<>> /\ ~Reached(c)
    /\ EndsRelay(c, conn[c], "gone")

\* The client's socket fails: the connection was reset.
HostFails(c) ==
    /\ Relaying(c)
    /\ EndsRelay(c, conn[c], "failed")

ForwardInit ==
    /\ boot = 0 /\ boots = 0 /\ listens = FALSE
    /\ loop = "accepts" /\ taking = {} /\ dialer = 0 /\ shown_failure = "none"
    /\ conn = [c \in Conns |-> NewConn] /\ session = [c \in Conns |-> NoSession]
    /\ refused = 0

Relays(c) ==
    \/ HostRead(c) \/ HostSent(c) \/ HostSentEof(c) \/ SendFails(c)
    \/ GuestData(c) \/ GuestEof(c) \/ GuestGone(c) \/ HostFails(c)

ForwardNext ==
    \/ RuntimeStarts \/ RuntimeStops \/ Listens
    \/ Dials \/ StopsForward
    \/ \E c \in Conns :
          \/ \E own \in BOOLEAN : Connects(c, own)
          \/ ClientWrites(c) \/ ServerSends(c)
          \/ Accepts(c) \/ DialFails(c) \/ ConnectSucceeds(c) \/ ConnectFails(c)
          \/ relay_guest_port(c) \/ Relays(c)

ForwardSpec == ForwardInit /\ [][ForwardNext]_forwardVars

-----------------------------------------------------------------------------
(* Properties.                                                             *)

ForwardTypeOK ==
    /\ boot \in 0..MaxBoots /\ boots \in 0..MaxBoots /\ listens \in BOOLEAN
    /\ loop \in {"accepts", "dials", "connects", "stopped"}
    /\ taking \in SUBSET Conns /\ dialer \in 0..MaxBoots /\ shown_failure \in {"none", "failed"}
    /\ taking # {} <=> loop \in {"dials", "connects"}
    /\ \A c \in Conns :
          /\ conn[c].at \in {"new", "waits", "taken", "dials", "relays", "dropped", "done"}
          /\ conn[c].flushed \in 0..conn[c].written /\ conn[c].written \in 0..session[c].out
          /\ session[c].got \in 0..conn[c].taken /\ conn[c].taken \in 0..conn[c].out
          /\ session[c].at \in {"none", "open", "closed"}

\* A runtime that restarted costs at most one connection: the first one finds
\* the dialer of the runtime before and is dropped, the next dials anew.
OneIsLostPerRestart == refused <= 1

\* A relay that ended with both directions closed lost nothing: all the client
\* wrote reached the guest and all the guest wrote reached the client, before
\* the ends of stream; a client that closes first still gets its answer.
BothDirectionsAreWhole ==
    \A c \in Conns : conn[c].result = "both" =>
        /\ conn[c].eof /\ session[c].got = conn[c].out /\ session[c].gotEof
        /\ session[c].eof /\ conn[c].flushed = session[c].out /\ conn[c].shut

\* A relay does not outlive its connection: no message follows a mutual
\* half-close, so one that waited for it would pin the socket.
ClosedIsOver == \A c \in Conns : Relaying(c) => ~(conn[c].hostClosed /\ conn[c].guestClosed)

\* A relay with nothing left to read has handed everything over: an
\* interactive protocol's answer is not stranded in a buffered writer.
IdleIsFlushed == \A c \in Conns :
    Relaying(c) /\ session[c].inbox = <<>> => conn[c].flushed = conn[c].written

\* A stopped forward leaves no connection: no relay of its runs, and the guest
\* holds no session for one.
StoppedHoldsNothing ==
    \A c \in Conns : ~conn[c].own /\ loop = "stopped" =>
        /\ ~Relaying(c)
        /\ ~(session[c].at = "open" /\ Reached(c))

\* A forwarded connection carries both directions whole and in order, a restart of the guest
\* costs one connection, and a stopped forward holds nothing (sandbox/forward.rs, guest_tcp.rs).
ForwardedBytesAreWhole ==
    /\ ForwardTypeOK
    /\ OneIsLostPerRestart
    /\ BothDirectionsAreWhole
    /\ ClosedIsOver
    /\ IdleIsFlushed
    /\ StoppedHoldsNothing

=============================================================================
