------------------------------- MODULE Startup -------------------------------
(***************************************************************************)
(* The process: main (src/src/main.rs) with one task per server, each      *)
(* server's way to its accept loop (src/src/server.rs, Server::serve), and *)
(* the connections it accepts, up to the timer on the head of a request    *)
(* (src/src/tokiotimer.rs).                                                *)
(*                                                                         *)
(* The operating system refuses to bind a server to an address that        *)
(* another one listens on; 0.0.0.0 and a local address with the same port  *)
(* are two addresses to the configuration and one to the operating system. *)
(***************************************************************************)
EXTENDS Naturals

CONSTANTS
    Servers,      \* what the configuration may have a server for
    Telemetry,    \* the one among them that serves the proxy's own metrics
    Secure,       \* those that use TLS
    Clashing,     \* those that listen on one address by two names
    Conns,        \* the connections of clients
    HeadTimeout,  \* header_read_timeout, in ticks
    NoTimer       \* a connection that never had a timer

ASSUME ConstantsAssumption ==
    /\ Secure \subseteq Servers
    /\ Clashing \subseteq Servers
    /\ HeadTimeout \in Nat \ {0}
    /\ NoTimer \notin Nat

VARIABLES
    valid,    \* whether the configuration is accepted
    wanted,   \* the servers it asks for
    main,     \* where main is
    code,     \* the exit code, once it has exited
    task,     \* where the task of each server is
    conn,     \* where each connection is
    at,       \* the servers each connection is to (none, before it is made)
    timer,    \* what is left of the time for the head of a request
    waited    \* the time since that head began

connVars == <<conn, at, timer, waited>>
vars == <<valid, wanted, main, code, task, connVars>>

CONFIG == 78    \* exitcode::CONFIG
OSERR  == 71    \* exitcode::OSERR
PANIC  == 101   \* what Rust exits with when main panics

TaskStates == {"none", "spawned", "routed", "bound", "accepting", "failed", "panicked",
               "killed"}
Open       == {"pending", "handshaking", "silent", "head", "serving", "idle", "http2"}
ConnStates == {"none", "closed", "timedOut"} \union Open

TypeOK ==
    /\ valid \in BOOLEAN
    /\ wanted \subseteq Servers
    /\ main \in {"loading", "running", "exited"}
    /\ code \in {0, CONFIG, OSERR, PANIC}
    /\ task \in [Servers -> TaskStates]
    /\ conn \in [Conns -> ConnStates]
    /\ at \in [Conns -> SUBSET Servers]
    /\ timer \in [Conns -> 0..HeadTimeout \union {NoTimer}]
    /\ waited \in [Conns -> 0..HeadTimeout]

Init ==
    /\ valid \in BOOLEAN
    /\ wanted \in SUBSET Servers
    /\ main = "loading"
    /\ code = 0
    /\ task = [s \in Servers |-> "none"]
    /\ conn = [c \in Conns |-> "none"]
    /\ at = [c \in Conns |-> {}]
    /\ timer = [c \in Conns |-> NoTimer]
    /\ waited = [c \in Conns |-> 0]

-----------------------------------------------------------------------------
(***************************************************************************)
(* main.                                                                   *)
(***************************************************************************)
\* The process is gone, with all its tasks and connections.
Exit(c) ==
    /\ main' = "exited"
    /\ code' = c
    /\ task' = [s \in Servers |-> IF task[s] \in {"none", "failed", "panicked"}
                                    THEN task[s] ELSE "killed"]
    /\ conn' = [d \in Conns |-> IF conn[d] \in Open THEN "closed" ELSE conn[d]]
    /\ UNCHANGED <<valid, wanted, at, timer, waited>>

Load ==
    /\ main = "loading"
    /\ valid
    /\ main' = "running"
    /\ UNCHANGED <<valid, wanted, code, task, connVars>>

LoadFails ==
    /\ main = "loading"
    /\ ~valid
    /\ Exit(CONFIG)

\* One task per proxy server, and the telemetry's last.
Spawn(s) ==
    /\ main = "running"
    /\ s \in wanted /\ task[s] = "none"
    /\ s = Telemetry => \A t \in wanted \ {s} : task[t] # "none"
    /\ task' = [task EXCEPT ![s] = "spawned"]
    /\ UNCHANGED <<valid, wanted, main, code, connVars>>

\* join_next is awaited once all tasks have been spawned.
Joining == main = "running" /\ \A s \in wanted : task[s] # "none"

\* Variant: a server that could not start is started again.
JoinRestarts(s) ==
    /\ Joining
    /\ task[s] = "failed"
    /\ task' = [task EXCEPT ![s] = "spawned"]
    /\ UNCHANGED <<valid, wanted, main, code, connVars>>

\* A server has returned a StartError.
Join(s) ==
    /\ Joining
    /\ task[s] = "failed"
    /\ Exit(OSERR)

\* Variant: what ended a task is not told apart.
JoinAnyhow(s) ==
    /\ Joining
    /\ task[s] = "panicked"
    /\ Exit(OSERR)

\* The task of a server has panicked, and so does main: res.unwrap().
JoinPanicked(s) ==
    /\ Joining
    /\ task[s] = "panicked"
    /\ Exit(PANIC)

\* There is nothing to wait for.
JoinNone ==
    /\ Joining
    /\ wanted = {}
    /\ Exit(0)

(***************************************************************************)
(* The task of a server, up to the accept loop.                            *)
(***************************************************************************)
Moves(s, from, to) ==
    /\ task[s] = from
    /\ task' = [task EXCEPT ![s] = to]
    /\ UNCHANGED <<valid, wanted, main, code>>

Listening(s) == task[s] \in {"bound", "accepting"}

\* The router takes the paths of the handlers, or panics at one: the configuration
\* knows of equal paths only, not of those that match the same or are malformed.
Route(s) == Moves(s, "spawned", "routed") /\ UNCHANGED connVars
RoutePanics(s) ==
    /\ s # Telemetry
    /\ Moves(s, "spawned", "panicked")
    /\ UNCHANGED connVars

\* Variant: addresses are shared, as with SO_REUSEPORT.
BindShares(s) == Moves(s, "routed", "bound") /\ UNCHANGED connVars

Bind(s) ==
    /\ s \in Clashing => \A t \in Clashing \ {s} : ~Listening(t)
    /\ Moves(s, "routed", "bound")
    /\ UNCHANGED connVars

\* The address is in use, here or in another program, or not one of this machine.
BindFails(s) == Moves(s, "routed", "failed") /\ UNCHANGED connVars

Serve(s) == Moves(s, "bound", "accepting") /\ UNCHANGED connVars

\* rustls does not take the certificate with the key; the socket, which is bound
\* already, is closed with the clients that are waiting at it.
TlsFails(s) ==
    /\ s \in Secure
    /\ Moves(s, "bound", "failed")
    /\ conn' = [c \in Conns |-> IF at[c] = {s} /\ conn[c] \in Open THEN "closed" ELSE conn[c]]
    /\ UNCHANGED <<at, timer, waited>>

-----------------------------------------------------------------------------
(***************************************************************************)
(* The connections; each has a task of its own once it is accepted.        *)
(***************************************************************************)
Goes(c, from, to) ==
    /\ conn[c] = from
    /\ conn' = [conn EXCEPT ![c] = to]
    /\ UNCHANGED <<valid, wanted, main, code, task, at>>

\* A client connects to a socket, whether or not anybody accepts there yet.
Connect(c, s) ==
    /\ Listening(s)
    /\ conn[c] = "none"
    /\ conn' = [conn EXCEPT ![c] = "pending"]
    /\ at' = [at EXCEPT ![c] = {s}]
    /\ UNCHANGED <<valid, wanted, main, code, task, timer, waited>>

Accepting(c) == \E s \in at[c] : task[s] = "accepting"

\* Variant: the handshake is part of the accept loop.
AcceptShakesHands(c) ==
    /\ Accepting(c)
    /\ \A d \in Conns : at[d] = at[c] => conn[d] # "handshaking"
    /\ Goes(c, "pending", IF at[c] \subseteq Secure THEN "handshaking" ELSE "silent")
    /\ UNCHANGED <<timer, waited>>

\* The loop accepts and goes on; the rest is left to a task of its own.
Accept(c) ==
    /\ Accepting(c)
    /\ Goes(c, "pending", IF at[c] \subseteq Secure THEN "handshaking" ELSE "silent")
    /\ UNCHANGED <<timer, waited>>

\* accept returns an error, which is logged: the client has gone.
AcceptFails(c) ==
    /\ Accepting(c)
    /\ Goes(c, "pending", "closed")
    /\ UNCHANGED <<timer, waited>>

Handshake(c) ==
    /\ \/ Goes(c, "handshaking", "silent")
       \/ Goes(c, "handshaking", "closed")
    /\ UNCHANGED <<timer, waited>>

\* Variant: the timer of an earlier request is taken as it is, as TokioTimer::reset
\* leaves it if it is not a TokioSleep.
StartTimerOnce(c) ==
    timer' = [timer EXCEPT ![c] = IF @ = NoTimer THEN HeadTimeout ELSE @]

\* Variant: what is left of the time for the last head is added.
StartTimerExtends(c) ==
    timer' = [timer EXCEPT ![c] = IF @ = NoTimer THEN HeadTimeout ELSE @ + HeadTimeout]

\* TokioTimer::sleep_until for the first request of a connection, and
\* TokioTimer::reset for the later ones.
StartTimer(c) == timer' = [timer EXCEPT ![c] = HeadTimeout]

\* The first byte of a request is in.
FirstByte(c) ==
    /\ Goes(c, "silent", "head") \/ Goes(c, "idle", "head")
    /\ StartTimer(c)
    /\ waited' = [waited EXCEPT ![c] = 0]

\* The client speaks HTTP/2: there is no timer on the heads of its requests.
Http2(c) == Goes(c, "silent", "http2") /\ UNCHANGED <<timer, waited>>

HeadIsIn(c) == Goes(c, "head", "serving") /\ UNCHANGED <<timer, waited>>

HeadTimesOut(c) ==
    /\ timer[c] = 0
    /\ Goes(c, "head", "timedOut")
    /\ UNCHANGED <<timer, waited>>

\* The request is answered, and the connection is kept or not.
Answer(c) ==
    /\ Goes(c, "serving", "idle") \/ Goes(c, "serving", "closed")
    /\ UNCHANGED <<timer, waited>>

\* The client goes away, or what serves it panics.
Close(c) ==
    /\ conn[c] \in Open
    /\ Goes(c, conn[c], "closed")
    /\ UNCHANGED <<timer, waited>>

\* Time passes, but no timer that is waited for is overdue.
Tick ==
    /\ \E c \in Conns : timer[c] # NoTimer /\ timer[c] > 0
    /\ \A c \in Conns : conn[c] = "head" => timer[c] > 0
    /\ timer' = [c \in Conns |-> IF timer[c] = NoTimer \/ timer[c] = 0
                                   THEN timer[c] ELSE timer[c] - 1]
    /\ waited' = [c \in Conns |-> IF conn[c] = "head" THEN waited[c] + 1 ELSE waited[c]]
    /\ UNCHANGED <<valid, wanted, main, code, task, conn, at>>

\* The process has ended, or serves all it was asked to and nobody is there.
AtRest ==
    /\ \/ main = "exited"
       \/ /\ \A s \in wanted : task[s] = "accepting"
          /\ \A c \in Conns : conn[c] \in {"closed", "timedOut"}
    /\ UNCHANGED vars

MainMoves ==
    \/ Load
    \/ LoadFails
    \/ \E s \in Servers : Spawn(s)
    \/ \E s \in Servers : Join(s)
    \/ \E s \in Servers : JoinPanicked(s)
    \/ JoinNone

TaskMoves(s) ==
    \/ Route(s)
    \/ RoutePanics(s)
    \/ Bind(s)
    \/ BindFails(s)
    \/ Serve(s)
    \/ TlsFails(s)

Next ==
    \/ MainMoves
    \/ \E s \in Servers : TaskMoves(s)
    \/ \E c \in Conns, s \in Servers : Connect(c, s)
    \/ \E c \in Conns : Accept(c)
    \/ \E c \in Conns : AcceptFails(c)
    \/ \E c \in Conns : Handshake(c)
    \/ \E c \in Conns : FirstByte(c)
    \/ \E c \in Conns : Http2(c)
    \/ \E c \in Conns : HeadIsIn(c)
    \/ \E c \in Conns : HeadTimesOut(c)
    \/ \E c \in Conns : Answer(c)
    \/ \E c \in Conns : Close(c)
    \/ Tick
    \/ AtRest

Spec == Init /\ [][Next]_vars

(***************************************************************************)
(* The tasks that are ready run: main, the servers, and their accept loops *)
(* (which takes that accept does not fail for ever for want of file        *)
(* descriptors).  Clients need do nothing at all.                          *)
(***************************************************************************)
Fairness ==
    /\ WF_vars(MainMoves)
    /\ \A s \in Servers : WF_vars(TaskMoves(s))
    /\ \A c \in Conns : WF_vars(Accept(c))

FairSpec == Spec /\ Fairness
-----------------------------------------------------------------------------
\* The exit code tells what happened: 78 that the configuration was refused, before
\* any server was started; 71 that a server could not start ("StartError is
\* returned if the server fails to start", serve), 101 that the task of a server
\* panicked, and 0 that there was nothing to serve.  What happens to a connection
\* never ends the process.
ExitIsEarned ==
    main = "exited" =>
        /\ code = CONFIG <=> ~valid
        /\ code = CONFIG => \A s \in Servers : task[s] = "none"
        /\ code = OSERR => \E s \in wanted : task[s] = "failed"
        /\ code = PANIC => \E s \in wanted : task[s] = "panicked"
        /\ code = 0 => wanted = {}

\* In the end the process serves all that its configuration asks for, or it has
\* ended: it does not stay half up, with a server missing that nobody misses.
AllOrNothing ==
    <>[]\/ main = "exited"
        \/ main = "running" /\ \A s \in wanted : task[s] = "accepting"

\* Two names of one address pass the checks of the configuration (config.rs:490
\* compares them as they are), and then end the process, whatever it serves by then.
ClashEndsAll ==
    Clashing \subseteq wanted ~> main = "exited"

\* Whoever connects is accepted, or told that nobody will: no client that is slow to
\* shake hands or to speak keeps the next one waiting.
EveryClientIsAccepted ==
    \A c \in Conns : conn[c] = "pending" ~> conn[c] # "pending"

\* "The time counts from the first HTTP-level byte the client sends to the last
\* carriage return in the request header" (README, header_read_timeout): each
\* HTTP/1 request on a connection gets this time, and no more.
HeadsGetTheirTime ==
    \A c \in Conns : /\ conn[c] = "timedOut" => waited[c] = HeadTimeout
                     /\ conn[c] = "head" => waited[c] <= HeadTimeout
=============================================================================
