---------------------------- MODULE StartupProofs ----------------------------
(***************************************************************************)
(* The process ends for a reason that its exit code names, and the heads   *)
(* of requests are timed from their own first byte: for any servers, any   *)
(* of them clashing or secure, any connections, and any timeout.           *)
(***************************************************************************)
EXTENDS Startup, TLAPS

\* A server has a task only if the configuration is accepted and asks for it, and
\* nothing is started before it is loaded.
TaskInv ==
    /\ main = "loading" => code = 0 /\ \A s \in Servers : task[s] = "none"
    /\ main = "running" => valid
    /\ \A s \in Servers : task[s] # "none" => valid /\ s \in wanted

\* While a head is awaited the timer runs against it, and against nothing else.
HeadInv ==
    \A c \in Conns : /\ conn[c] = "head" => timer[c] # NoTimer /\ timer[c] + waited[c] = HeadTimeout
                     /\ conn[c] = "timedOut" => waited[c] = HeadTimeout

IInv == TypeOK /\ TaskInv /\ HeadInv /\ ExitIsEarned

LEMMA InitHolds == Init => IInv
  BY ConstantsAssumption
  DEF Init, IInv, TypeOK, TaskInv, HeadInv, ExitIsEarned, TaskStates, ConnStates

-----------------------------------------------------------------------------
\* The process ends, with a code that is due.
LEMMA ExitPreserves ==
    ASSUME IInv, NEW c \in {0, CONFIG, OSERR, PANIC}, Exit(c), main # "exited",
           c = CONFIG <=> ~valid,
           c = CONFIG => \A s \in Servers : task[s] = "none",
           c = OSERR => \E s \in wanted : task[s] = "failed",
           c = PANIC => \E s \in wanted : task[s] = "panicked",
           c = 0 => wanted = {}
    PROVE  IInv'
<1>1. TypeOK'
  BY DEF IInv, TypeOK, Exit, TaskStates, ConnStates, Open
<1>2. TaskInv'
  BY DEF IInv, TypeOK, TaskInv, Exit
<1>3. HeadInv'
  BY DEF IInv, TypeOK, HeadInv, Exit, Open
<1>4. ExitIsEarned'
  BY DEF IInv, TypeOK, ExitIsEarned, Exit, CONFIG, OSERR, PANIC
<1>5. QED
  BY <1>1, <1>2, <1>3, <1>4 DEF IInv

\* A server moves on: it had been spawned, and had not failed before.
LEMMA TaskMovePreserves ==
    ASSUME IInv, NEW s \in Servers, NEW from \in {"spawned", "routed", "bound"},
           NEW to \in TaskStates \ {"none"}, Moves(s, from, to)
    PROVE  task' \in [Servers -> TaskStates] /\ TaskInv' /\ ExitIsEarned'
<1>1. task' \in [Servers -> TaskStates]
  BY DEF IInv, TypeOK, Moves
<1>2. task[s] = from /\ task[s] \notin {"none", "failed", "panicked"}
  BY DEF Moves
<1>3. \A t \in Servers : t # s => task'[t] = task[t]
  BY DEF IInv, TypeOK, Moves
<1>4. TaskInv'
  BY <1>2, <1>3 DEF IInv, TypeOK, TaskInv, Moves
<1>5. ExitIsEarned'
  BY <1>2, <1>3 DEF IInv, TypeOK, ExitIsEarned, Moves
<1>6. QED
  BY <1>1, <1>4, <1>5

LEMMA TaskMovesPreserve ==
    ASSUME IInv, NEW s \in Servers, TaskMoves(s)
    PROVE  IInv'
<1>1. ASSUME NEW from \in {"spawned", "routed", "bound"}, NEW to \in TaskStates \ {"none"},
             Moves(s, from, to), UNCHANGED connVars
      PROVE  IInv'
  BY <1>1, TaskMovePreserves DEF IInv, TypeOK, HeadInv, Moves, connVars
<1>2. CASE TlsFails(s)
  <2>1. task' \in [Servers -> TaskStates] /\ TaskInv' /\ ExitIsEarned'
    BY <1>2, TaskMovePreserves DEF TlsFails, TaskStates
  <2>2. \A c \in Conns : conn'[c] \in {conn[c], "closed"}
    BY <1>2 DEF TlsFails, IInv, TypeOK
  <2>3. HeadInv'
    BY <1>2, <2>2 DEF TlsFails, IInv, TypeOK, HeadInv
  <2>4. TypeOK'
    BY <1>2, <2>1 DEF TlsFails, Moves, IInv, TypeOK, ConnStates
  <2>5. QED
    BY <2>1, <2>3, <2>4 DEF IInv
<1>3. QED
  BY <1>1, <1>2 DEF TaskMoves, Route, RoutePanics, Bind, BindFails, Serve, TaskStates

\* main goes on, or ends.
LEMMA MainMovesPreserve ==
    ASSUME IInv, MainMoves
    PROVE  IInv'
<1>1. CASE Load
  BY <1>1 DEF Load, IInv, TypeOK, TaskInv, HeadInv, ExitIsEarned, connVars
<1>2. CASE LoadFails
  BY <1>2, ExitPreserves DEF LoadFails, IInv, TaskInv, CONFIG, OSERR, PANIC
<1>3. ASSUME NEW s \in Servers, Spawn(s)
      PROVE  IInv'
  BY <1>3 DEF Spawn, IInv, TypeOK, TaskInv, HeadInv, ExitIsEarned, connVars, TaskStates
<1>4. ASSUME NEW s \in Servers, Join(s)
      PROVE  IInv'
  BY <1>4, ExitPreserves DEF Join, Joining, IInv, TaskInv, CONFIG, OSERR, PANIC
<1>5. ASSUME NEW s \in Servers, JoinPanicked(s)
      PROVE  IInv'
  BY <1>5, ExitPreserves DEF JoinPanicked, Joining, IInv, TaskInv, CONFIG, OSERR, PANIC
<1>6. CASE JoinNone
  BY <1>6, ExitPreserves DEF JoinNone, Joining, IInv, TaskInv, CONFIG, OSERR, PANIC
<1>7. QED
  BY <1>1, <1>2, <1>3, <1>4, <1>5, <1>6 DEF MainMoves

\* A connection moves on, and no head begins.
LEMMA ConnMovePreserves ==
    ASSUME IInv, NEW c \in Conns, NEW from \in ConnStates, NEW to \in ConnStates \ {"head"},
           Goes(c, from, to), UNCHANGED <<timer, waited>>,
           to = "timedOut" => waited[c] = HeadTimeout
    PROVE  IInv'
<1>1. TypeOK'
  BY DEF IInv, TypeOK, Goes
<1>2. HeadInv'
  BY DEF IInv, TypeOK, HeadInv, Goes
<1>3. TaskInv' /\ ExitIsEarned'
  BY DEF IInv, TaskInv, ExitIsEarned, Goes
<1>4. QED
  BY <1>1, <1>2, <1>3 DEF IInv

\* The first byte of a head starts the timer anew.
LEMMA FirstBytePreserves ==
    ASSUME IInv, NEW c \in Conns, FirstByte(c)
    PROVE  IInv'
<1> USE DEF FirstByte, StartTimer, Goes
<1>1. TypeOK'
  BY ConstantsAssumption DEF IInv, TypeOK, ConnStates, Open
<1>2. HeadInv'
  BY ConstantsAssumption DEF IInv, TypeOK, HeadInv
<1>3. TaskInv' /\ ExitIsEarned'
  BY DEF IInv, TaskInv, ExitIsEarned
<1>4. QED
  BY <1>1, <1>2, <1>3 DEF IInv

\* A head that is still awaited has time left, and what it has waited is what the
\* timer has lost.
LEMMA TickPreserves ==
    ASSUME IInv, Tick
    PROVE  IInv'
<1>1. ASSUME NEW c \in Conns
      PROVE  /\ timer'[c] \in 0..HeadTimeout \union {NoTimer}
             /\ waited'[c] \in 0..HeadTimeout
             /\ conn[c] = "head" => timer'[c] # NoTimer /\ timer'[c] + waited'[c] = HeadTimeout
             /\ conn[c] # "head" => waited'[c] = waited[c]
  <2>1. timer[c] \in 0..HeadTimeout \union {NoTimer} /\ waited[c] \in 0..HeadTimeout
    BY DEF IInv, TypeOK
  <2>2. conn[c] = "head" => timer[c] \in 1..HeadTimeout /\ timer[c] + waited[c] = HeadTimeout
    BY <2>1, ConstantsAssumption DEF IInv, HeadInv, Tick
  <2>3. /\ timer'[c] = IF timer[c] = NoTimer \/ timer[c] = 0 THEN timer[c] ELSE timer[c] - 1
        /\ waited'[c] = IF conn[c] = "head" THEN waited[c] + 1 ELSE waited[c]
    BY DEF Tick
  <2>4. CASE conn[c] = "head"
    BY <2>1, <2>2, <2>3, <2>4, ConstantsAssumption
  <2>5. CASE conn[c] # "head"
    BY <2>1, <2>3, <2>5, ConstantsAssumption
  <2>6. QED
    BY <2>4, <2>5
<1>2. TypeOK'
  BY <1>1 DEF Tick, IInv, TypeOK
<1>3. HeadInv'
  BY <1>1 DEF Tick, IInv, HeadInv
<1>4. TaskInv' /\ ExitIsEarned'
  BY DEF Tick, IInv, TaskInv, ExitIsEarned
<1>5. QED
  BY <1>2, <1>3, <1>4 DEF IInv

LEMMA ConnsPreserve ==
    ASSUME IInv, NEW c \in Conns
    PROVE  /\ Accept(c) => IInv'
           /\ AcceptFails(c) => IInv'
           /\ Handshake(c) => IInv'
           /\ Http2(c) => IInv'
           /\ HeadIsIn(c) => IInv'
           /\ HeadTimesOut(c) => IInv'
           /\ Answer(c) => IInv'
           /\ Close(c) => IInv'
<1> USE DEF ConnStates, Open
<1>1. Accept(c) => IInv'
  BY ConnMovePreserves DEF Accept
<1>2. AcceptFails(c) => IInv'
  BY ConnMovePreserves DEF AcceptFails
<1>3. Handshake(c) => IInv'
  BY ConnMovePreserves DEF Handshake
<1>4. Http2(c) => IInv'
  BY ConnMovePreserves DEF Http2
<1>5. HeadIsIn(c) => IInv'
  BY ConnMovePreserves DEF HeadIsIn
<1>6. HeadTimesOut(c) => IInv'
  <2>1. HeadTimesOut(c) => waited[c] = HeadTimeout
    BY ConstantsAssumption DEF HeadTimesOut, Goes, IInv, TypeOK, HeadInv
  <2>2. QED
    BY <2>1, ConnMovePreserves DEF HeadTimesOut
<1>7. Answer(c) => IInv'
  BY ConnMovePreserves DEF Answer
<1>8. Close(c) => IInv'
  BY ConnMovePreserves DEF Close
<1>9. QED
  BY <1>1, <1>2, <1>3, <1>4, <1>5, <1>6, <1>7, <1>8

LEMMA ConnectPreserves ==
    ASSUME IInv, NEW c \in Conns, NEW s \in Servers, Connect(c, s)
    PROVE  IInv'
<1>1. TypeOK'
  BY DEF Connect, IInv, TypeOK, ConnStates, Open
<1>2. HeadInv'
  BY DEF Connect, IInv, TypeOK, HeadInv
<1>3. TaskInv' /\ ExitIsEarned'
  BY DEF Connect, IInv, TaskInv, ExitIsEarned
<1>4. QED
  BY <1>1, <1>2, <1>3 DEF IInv

LEMMA NextPreserves == IInv /\ [Next]_vars => IInv'
<1> SUFFICES ASSUME IInv, [Next]_vars
             PROVE  IInv'
  OBVIOUS
<1>1. CASE UNCHANGED vars
  BY <1>1 DEF vars, connVars, IInv, TypeOK, TaskInv, HeadInv, ExitIsEarned
<1>2. CASE AtRest
  BY <1>1, <1>2 DEF AtRest
<1>3. QED
  BY <1>1, <1>2, MainMovesPreserve, TaskMovesPreserve, ConnectPreserves, ConnsPreserve,
     FirstBytePreserves, TickPreserves DEF Next

-----------------------------------------------------------------------------
\* The inductive invariant of the process holds always.
THEOREM Invariance == Spec => []IInv
  BY InitHolds, NextPreserves, PTL DEF Spec

\* Every variable of the process keeps its type; the clocks of the heads stay within
\* header_read_timeout.
THEOREM TypeCorrect == Spec => []TypeOK
<1>1. IInv => TypeOK
  BY DEF IInv
<1>2. QED
  BY <1>1, Invariance, PTL

\* The exit code of the process (main.rs, run) names what happened, whichever servers
\* fail or panic, in whichever order, while others start and serve.
THEOREM ExitsAreEarned == Spec => []ExitIsEarned
<1>1. IInv => ExitIsEarned
  BY DEF IInv
<1>2. QED
  BY <1>1, Invariance, PTL

\* Every head of a request gets header_read_timeout from its first byte, and no more,
\* however often the one Sleep of its connection has been reset before.
THEOREM HeadsAreTimed == Spec => []HeadsGetTheirTime
<1>1. IInv => HeadsGetTheirTime
  BY ConstantsAssumption DEF IInv, TypeOK, HeadInv, HeadsGetTheirTime
<1>2. QED
  BY <1>1, Invariance, PTL
=============================================================================
