--------------------------- MODULE SeatLifecycle ---------------------------
(***************************************************************************)
(* What one seat is and what the daemon takes it for                       *)
(* (src/internal/seat/manager.go): the container and the session in it,    *)
(* the input broker beside it, the operations that move them, the sweeps   *)
(* that read them, and the events Incus sends about them.                  *)
(*                                                                         *)
(* Who may have the seat is SeatLanes' matter and is taken from there: one *)
(* operation at a time, and it starts to work when no sweep is left.  The  *)
(* broker keeps HelperPromise, which Supervise implements.  Only the sweep *)
(* lane is here: the readings of the other two change nothing of the seat. *)
(***************************************************************************)
EXTENDS Naturals, Sequences

CONSTANTS
  Requests,    \* what the interface may ask for in this instance
  MaxRequests, \* bound: how often it asks
  MaxOutside,  \* bound: how often somebody else moves the seat
  MaxEvents    \* the capacity of the Lifecycles channel, 32 in the code

Operations == {"start", "stop", "build", "update"}

ASSUME RequestsAssumption == Requests \subseteq Operations \cup {"pointer"}
ASSUME LifecycleBounds ==
  MaxRequests \in Nat /\ MaxOutside \in Nat /\ MaxEvents \in Nat \ {0}

VARIABLES
  container,  \* what Incus knows of the instance, "" for none
  session,    \* whether Sway and Sunshine are active in it
  events,     \* lifecycle events on their way to the daemon
  state,      \* rt.state
  phase,      \* of the broker's supervise.Process, see HelperPromise
  child,      \* whether the broker process exists
  waiters,    \* who waits in Stop for the broker's run to end
  busy,       \* rt.busy, "" for none
  op,         \* where the operation's goroutine is
  late,       \* an operation that failed has yet to say StateError
  sweep,      \* where the holder of the sweep lane is
  found,      \* what it read
  told,       \* whether its context is cancelled
  waiting,    \* goroutines in reconcile that wait for the lane
  loop,       \* what the main loop is doing about an event
  talker,     \* the request that sets the pointer speed
  asked,      \* requests so far
  moved       \* moves from outside so far

seat    == <<container, session, events>>
broker  == <<phase, child, waiters>>
doing   == <<busy, op, late>>
sweeper == <<sweep, found, told>>
rest    == <<talker, asked, moved>>
lifeVars == <<seat, state, broker, doing, sweeper, waiting, loop, rest>>

Broker == INSTANCE HelperPromise

NoEvent == [what |-> "none", own |-> FALSE]
Idle    == [ev |-> NoEvent, at |-> "idle"]

Init ==
  /\ container = ""
  /\ session = FALSE
  /\ events = <<>>
  /\ state = "absent"
  /\ Broker!Init
  /\ waiters = {}
  /\ busy = ""
  /\ op = "none"
  /\ late = FALSE
  /\ sweep = "none"
  /\ found = "nothing"
  /\ told = FALSE
  /\ waiting = 0
  /\ loop = Idle
  /\ talker = "idle"
  /\ asked = 0
  /\ moved = 0

-----------------------------------------------------------------------------
(* The broker *)

\* Start waits out a Stop in progress, and finds a process that is on as good
\* as started.
StartBroker ==
  \/ phase = "on" /\ UNCHANGED <<phase, child>>
  \/ Broker!Begin

\* Stop, whoever calls it, returns when the run it found has ended.
StopBroker(who) ==
  IF phase = "off" THEN UNCHANGED broker
  ELSE /\ phase' = "ending"
       /\ waiters' = waiters \cup {who}
       /\ UNCHANGED child

BrokerGone ==
  /\ Broker!Gone
  /\ waiters' = {}
  /\ UNCHANGED <<seat, state, doing, sweeper, waiting, loop, rest>>

BrokerMoves ==
  /\ Broker!ChildComes \/ Broker!ChildGoes
  /\ UNCHANGED <<seat, state, waiters, doing, sweeper, waiting, loop, rest>>

-----------------------------------------------------------------------------
(* The container and the world around it *)

\* Mutated: the handler waits until the channel takes the event.
EmitKeepsAll(what, own) ==
  events' = Append(events, [what |-> what, own |-> own])

\* The handler drops an event the channel has no room for.
Emit(what, own) ==
  events' = IF Len(events) < MaxEvents
              THEN Append(events, [what |-> what, own |-> own])
              ELSE events

Outside ==
  /\ moved < MaxOutside
  /\ moved' = moved + 1
  /\ UNCHANGED <<broker, waiting, talker, asked>>

\* incus stop, incus start, incus delete, or the seat powering itself off
OutsideStops ==
  /\ Outside
  /\ container = "Running"
  /\ container' = "Stopped"
  /\ session' = FALSE
  /\ Emit("stopped", FALSE)
  /\ UNCHANGED <<state, doing, sweeper, loop>>

OutsideStarts ==
  /\ Outside
  /\ container = "Stopped"
  /\ container' = "Running"
  /\ Emit("started", FALSE)
  /\ UNCHANGED <<session, state, doing, sweeper, loop>>

OutsideDeletes ==
  /\ Outside
  /\ container = "Stopped"
  /\ container' = ""
  /\ Emit("deleted", FALSE)
  /\ UNCHANGED <<session, state, doing, sweeper, loop>>

\* A session that crashes, and one its units bring back.
SessionTurns ==
  /\ Outside
  /\ container = "Running"
  /\ session' = ~session
  /\ UNCHANGED <<container, events, state, doing, sweeper, loop>>

\* The daemon goes and comes back.  systemd takes its children with it
\* (KillMode=mixed), the containers stay; everything in runtime is new.
DaemonRestarts ==
  /\ moved < MaxOutside
  /\ moved' = moved + 1
  /\ events' = <<>>
  /\ state' = "absent"
  /\ phase' = "off" /\ child' = FALSE /\ waiters' = {}
  /\ busy' = "" /\ op' = "none" /\ late' = FALSE
  /\ sweep' = "none" /\ found' = "nothing" /\ told' = FALSE
  /\ waiting' = 0
  /\ loop' = Idle
  /\ talker' = "idle"
  /\ UNCHANGED <<container, session, asked>>

-----------------------------------------------------------------------------
(* Operations *)

\* claim: the sweep in progress is told to stop.
Claim(j) ==
  /\ j \in Requests \cap Operations
  /\ asked < MaxRequests
  /\ asked' = asked + 1
  /\ busy = ""
  /\ op = "none"
  /\ busy' = j
  /\ op' = "quiesce"
  /\ told' = (sweep # "none")
  /\ UNCHANGED <<seat, state, broker, late, sweep, found, waiting, loop,
                 talker, moved>>

Quiesced ==
  /\ op = "quiesce"
  /\ sweep = "none"
  /\ op' = "begin"
  /\ UNCHANGED <<seat, state, broker, busy, late, sweeper, waiting, loop, rest>>

\* A step of the operation's function that leads from one place to another.
\* Nothing moves while it waits in the broker's Stop.
OpStep(from, to) ==
  /\ op = from
  /\ "op" \notin waiters
  /\ op' = to
  /\ UNCHANGED <<busy, late, sweeper, waiting, loop, rest>>

\* Start says what it is about to do.  A seat that was never built, or whose
\* record Update marked, is built first.
BeginStart ==
  /\ busy = "start"
  /\ \E to \in {"look", "prepare"} : OpStep("begin", to)
  /\ state' = "starting"
  /\ UNCHANGED <<seat, broker>>

BeginStop ==
  /\ busy = "stop"
  /\ OpStep("begin", "off")
  /\ state' = "stopping"
  /\ UNCHANGED <<seat, broker>>

BeginBuild ==
  /\ busy = "build"
  /\ OpStep("begin", "prepare")
  /\ UNCHANGED <<seat, state, broker>>

\* UpdateSoftware has nothing to do in a seat that is not running.
BeginUpdate ==
  /\ busy = "update"
  /\ state = "running"
  /\ OpStep("begin", "off")
  /\ UNCHANGED <<seat, state, broker>>

\* build
Prepare ==
  /\ OpStep("prepare", "off")
  /\ state' = "building"
  /\ UNCHANGED <<seat, broker>>

AfterOff == CASE busy = "stop"   -> "status"
              [] busy = "update" -> "session"
              [] OTHER           -> "run"

\* Mutated: the broker is told and not waited for.
TakeBrokerDownLater ==
  /\ OpStep("off", AfterOff)
  /\ phase' = IF phase = "off" THEN "off" ELSE "ending"
  /\ UNCHANGED <<seat, state, child, waiters>>

\* stopBroker, before the container and not after.
TakeBrokerDown ==
  /\ OpStep("off", AfterOff)
  /\ StopBroker("op")
  /\ UNCHANGED <<seat, state>>

StopLooks ==
  /\ OpStep("status", IF container = "Running" THEN "halt" ELSE "down")
  /\ UNCHANGED <<seat, state, broker>>

\* haltContainer and restartContainer ask the session to go first and carry on
\* when it does not.
AskSession ==
  /\ OpStep("halt", "halting")
  /\ session' \in {session, FALSE}
  /\ UNCHANGED <<container, events, state, broker>>

HaltContainer ==
  /\ OpStep("halting", IF busy = "stop" THEN "down" ELSE "reboot")
  /\ container = "Running"
  /\ container' = "Stopped"
  /\ session' = FALSE
  /\ Emit("stopped", TRUE)
  /\ UNCHANGED <<state, broker>>

SayStopped ==
  /\ OpStep("down", "ended")
  /\ state' = "stopped"
  /\ UNCHANGED <<seat, broker>>

\* stepContainer creates and starts what is not there, startContainer in Start
\* and restartContainer start what is stopped.
StartContainer ==
  /\ \/ OpStep("run", "configure") /\ container # "Running"
     \/ OpStep("reboot", "session") /\ container = "Stopped"
     \/ OpStep("boot", "session") /\ container = "Stopped"
  /\ container' = "Running"
  /\ Emit("started", TRUE)
  /\ UNCHANGED <<session, state, broker>>

AlreadyRunning ==
  /\ OpStep("run", "configure")
  /\ container = "Running"
  /\ UNCHANGED <<seat, state, broker>>

\* A changed configuration costs a restart, an unchanged one does not.
Configure ==
  /\ \E to \in {"halt", "session"} : OpStep("configure", to)
  /\ UNCHANGED <<seat, state, broker>>

\* Start looks at the container, and at the session of one that runs.  A unit
\* that could not be asked counts as not active.
StartLooks ==
  /\ \/ container = "Stopped" /\ OpStep("look", "boot")
     \/ container = "Running" /\ session /\ OpStep("look", "broker")
     \/ container = "Running" /\ OpStep("look", "session")
  /\ UNCHANGED <<seat, state, broker>>

\* startSession
RestartSession ==
  /\ OpStep("session", "wait")
  /\ container = "Running"
  /\ session' = FALSE
  /\ UNCHANGED <<container, events, state, broker>>

SessionIsUp ==
  /\ OpStep("wait", "broker")
  /\ container = "Running"
  /\ session' = TRUE
  /\ UNCHANGED <<container, events, state, broker>>

BringBroker ==
  /\ OpStep("broker", "say")
  /\ StartBroker
  /\ UNCHANGED <<waiters, seat, state>>

SayRunning ==
  /\ OpStep("say", "ended")
  /\ state' = "running"
  /\ UNCHANGED <<seat, broker>>

\* Whatever the container refuses, a cancel, or a deadline.
Fails ==
  /\ \E from \in {"begin", "status", "halting", "run", "reboot", "configure",
                  "look", "boot", "session", "wait"} : OpStep(from, "failed")
  /\ UNCHANGED <<seat, state, broker>>

\* operate: busy is cleared, and the reconcile of a finished operation begins.
Ended ==
  /\ op = "ended"
  /\ op' = "none"
  /\ busy' = ""
  /\ waiting' = waiting + 1
  /\ UNCHANGED <<seat, state, broker, late, sweeper, loop, rest>>

\* A failure is said after busy was cleared.  One goroutine at a time is late
\* with it here.
EndedBadly ==
  /\ op = "failed"
  /\ ~late
  /\ op' = "none"
  /\ busy' = ""
  /\ late' = TRUE
  /\ UNCHANGED <<seat, state, broker, sweeper, waiting, loop, rest>>

SayError ==
  /\ late
  /\ late' = FALSE
  /\ state' = "error"
  /\ waiting' = waiting + 1
  /\ UNCHANGED <<seat, broker, busy, op, sweeper, loop, rest>>

OpWorks ==
  \/ BeginStart \/ BeginStop \/ BeginBuild \/ BeginUpdate \/ Prepare
  \/ TakeBrokerDown \/ StopLooks \/ AskSession \/ HaltContainer \/ SayStopped
  \/ StartContainer \/ AlreadyRunning \/ Configure \/ StartLooks
  \/ RestartSession \/ SessionIsUp \/ BringBroker \/ SayRunning \/ Fails

OpSteps == Quiesced \/ OpWorks \/ Ended \/ EndedBadly \/ SayError

-----------------------------------------------------------------------------
(* Sweeps *)

\* Mutated: the look at busy is left out.
RefusedOnlyStopping == state = "stopping"

Refused == busy # "" \/ state = "stopping"

SweepBegins ==
  /\ sweep = "none"
  /\ ~Refused
  /\ sweep' = "status"
  /\ told' = FALSE
  /\ found' = "nothing"

\* reconcileAll on the ten second tick
TickSweep ==
  /\ SweepBegins
  /\ UNCHANGED <<seat, state, broker, doing, waiting, loop, rest>>

\* reconcile, when its turn for the lane has come
Reconcile ==
  /\ waiting > 0
  /\ waiting' = waiting - 1
  /\ sweep = "none"
  /\ SweepBegins \/ (Refused /\ UNCHANGED sweeper)
  /\ UNCHANGED <<seat, state, broker, doing, loop, rest>>

SweepStep(from, to) ==
  /\ sweep = from
  /\ "sweep" \notin waiters
  /\ sweep' = to
  /\ UNCHANGED <<seat, doing, waiting, loop, rest, told>>

\* Status; when it fails the sweep is over.
SweepStatus ==
  /\ \/ /\ SweepStep("status", IF container = "Running" THEN "probe" ELSE "down")
        /\ found' = container
     \/ SweepStep("status", "none") /\ found' = "nothing"
  /\ UNCHANGED <<state, broker>>

\* Mutated: a seat that is down has its broker left to the events.
SweepDownSaysOnly ==
  /\ SweepStep("down", "saydown")
  /\ UNCHANGED <<found, state, broker>>

SweepDown ==
  /\ SweepStep("down", "saydown")
  /\ StopBroker("sweep")
  /\ UNCHANGED <<found, state>>

SweepSaysDown ==
  /\ SweepStep("saydown", "none")
  /\ state' = IF found = "" THEN "absent" ELSE "stopped"
  /\ found' = "nothing"
  /\ UNCHANGED broker

\* probeSession and the other execs.  A cancelled one answers nothing, and any
\* of them may not answer.
SweepReads ==
  /\ SweepStep("probe", "decide")
  /\ found' \in IF told THEN {"cancelled"}
                ELSE {IF container = "Running" /\ session THEN "up" ELSE "not up",
                      "not up"}
  /\ UNCHANGED <<state, broker>>

\* The look at the context before anything is decided.
SweepDecides ==
  /\ SweepStep("decide", IF told THEN "none"
                         ELSE IF found = "up" THEN "broker" ELSE "write")
  /\ found' = IF told THEN "nothing" ELSE found
  /\ UNCHANGED <<state, broker>>

\* Mutated: a sweep leaves the broker to the operations.
SweepLeavesBroker ==
  /\ SweepStep("broker", "write")
  /\ UNCHANGED <<found, state, broker>>

SweepBringsBroker ==
  /\ SweepStep("broker", "write")
  /\ StartBroker
  /\ UNCHANGED <<found, state, waiters>>

SweepWrites ==
  /\ SweepStep("write", "none")
  /\ state' = IF found = "up" THEN "running" ELSE "starting"
  /\ found' = "nothing"
  /\ UNCHANGED broker

SweepSteps ==
  \/ SweepStatus \/ SweepDown \/ SweepSaysDown \/ SweepReads \/ SweepDecides
  \/ SweepBringsBroker \/ SweepWrites

-----------------------------------------------------------------------------
(* onLifecycle *)

LoopStep == UNCHANGED <<container, session, doing, sweeper, rest>>

\* An operation owns the seat's state while it runs, so its events are passed
\* over.  The look is a look, and not a claim.
Take ==
  /\ loop = Idle
  /\ events # <<>>
  /\ events' = Tail(events)
  /\ loop' = IF busy # "" THEN Idle ELSE [ev |-> Head(events), at |-> "taken"]
  /\ LoopStep
  /\ UNCHANGED <<state, broker, waiting>>

OnDown ==
  /\ loop.at = "taken"
  /\ loop.ev.what \in {"stopped", "deleted"}
  /\ loop' = [loop EXCEPT !.at = "told"]
  /\ StopBroker("loop")
  /\ LoopStep
  /\ UNCHANGED <<events, state, waiting>>

Says == CASE loop.ev.what = "stopped" -> "stopped"
          [] loop.ev.what = "deleted" -> "absent"
          [] loop.ev.what = "started" -> "starting"

LoopSays ==
  /\ \/ loop.at = "told" /\ "loop" \notin waiters
     \/ loop.at = "taken" /\ loop.ev.what = "started"
  /\ state' = Says
  /\ loop' = Idle
  /\ waiting' = waiting + 1
  /\ LoopStep
  /\ UNCHANGED <<events, broker>>

LoopSteps == Take \/ OnDown \/ LoopSays

-----------------------------------------------------------------------------
(* applyPointerSpeed, on the request's own goroutine and in no lane *)

PointerLooks ==
  /\ "pointer" \in Requests
  /\ talker = "idle"
  /\ container = "Running"
  /\ asked < MaxRequests
  /\ asked' = asked + 1
  /\ talker' = "talking"
  /\ UNCHANGED <<seat, state, broker, doing, sweeper, waiting, loop, moved>>

PointerDone ==
  /\ talker = "talking"
  /\ talker' = "idle"
  /\ UNCHANGED <<seat, state, broker, doing, sweeper, waiting, loop, asked, moved>>

-----------------------------------------------------------------------------

World ==
  \/ OutsideStops \/ OutsideStarts \/ OutsideDeletes \/ SessionTurns
  \/ DaemonRestarts

Next ==
  \/ World \/ BrokerGone \/ BrokerMoves
  \/ \E j \in Operations : Claim(j)
  \/ OpSteps
  \/ TickSweep \/ Reconcile \/ SweepSteps
  \/ LoopSteps
  \/ PointerLooks \/ PointerDone

\* The ticker ticks, and a seat that can be asked is not unlucky for ever: of
\* the sweeps that begin some read the container and get an answer.  The
\* broker keeps HelperPromise's promise to end.
Fairness ==
  /\ WF_lifeVars(OpSteps)
  /\ WF_lifeVars(LoopSteps)
  /\ WF_lifeVars(SweepSteps)
  /\ SF_lifeVars(TickSweep)
  /\ SF_lifeVars(SweepStatus /\ sweep' # "none")
  /\ SF_lifeVars(SweepReads /\ found' = "up")
  /\ SF_lifeVars(Reconcile)
  /\ SF_lifeVars(BrokerGone)
  /\ WF_lifeVars(phase = "ending" /\ child /\ BrokerMoves)

Spec == Init /\ [][Next]_lifeVars /\ Fairness

-----------------------------------------------------------------------------
(* Properties *)

States == {"absent", "stopped", "starting", "running", "stopping", "building",
           "error"}
Working == op \notin {"none", "quiesce", "ended", "failed"}

Event == [what : {"none", "stopped", "started", "deleted"}, own : BOOLEAN]

\* Every variable keeps its kind.
LifecycleTypeOK ==
  /\ container \in {"", "Stopped", "Running"}
  /\ session \in BOOLEAN
  /\ events \in Seq(Event) /\ Len(events) <= MaxEvents
  /\ state \in States
  /\ phase \in {"off", "on", "ending"} /\ child \in BOOLEAN
  /\ waiters \subseteq {"op", "sweep", "loop"}
  /\ busy \in Operations \cup {""}
  /\ op \in {"none", "quiesce", "begin", "prepare", "off", "status", "halt",
             "halting", "down", "run", "configure", "reboot", "look", "boot",
             "session", "wait", "broker", "say", "ended", "failed"}
  /\ late \in BOOLEAN
  /\ sweep \in {"none", "status", "down", "saydown", "probe", "decide",
                "broker", "write"}
  /\ found \in {"nothing", "", "Stopped", "Running", "cancelled", "up", "not up"}
  /\ told \in BOOLEAN
  /\ waiting \in Nat
  /\ loop \in [ev : Event, at : {"idle", "taken", "told"}]
  /\ talker \in {"idle", "talking"}
  /\ asked \in 0..MaxRequests /\ moved \in 0..MaxOutside

\* Stop's comment: "A broker still polling into a shutdown is what once left the
\* Incus daemon hung".  From the moment an operation has stopped the broker
\* until its container is down there is no broker process, whatever the sweeps
\* and the event loop do meanwhile.
NoBrokerIntoShutdown ==
  op \in {"halt", "halting"} /\ "op" \notin waiters => phase = "off" /\ ~child

\* refreshSession's comment: a sweep an operation stopped part way "read nothing
\* worth acting on".
CancelledReadsDecideNothing == found = "cancelled" => sweep = "decide"

\* Without anybody from outside, the card says running only of a container that
\* runs: no sweep writes down what it read before the operation that stopped
\* the seat.
RunningIsNotStale == moved = 0 /\ state = "running" => container = "Running"

\* Sweep and operation take turns as SeatLanes' do: what is assumed of the lanes
\* here is what SeatTurns promises.
Turns == INSTANCE SeatTurns WITH
  has   <- busy # "",
  works <- Working,
  reads <- IF sweep = "none" THEN {} ELSE {"sweep"}

KeepsTheTurns == Turns!Spec

\* "a lost event costs a delay, never correctness": a container that stays down
\* ends up without a broker and with a card that says so.
DownIsNoticed ==
  <>[](container # "Running" /\ busy = "")
    => <>[](phase = "off" /\ state \in {"stopped", "absent"})

\* A seat that stays up ends up with its broker, also after the daemon was
\* started anew or an update of the seat failed half way, and its card comes
\* back to running.
UpIsAdopted ==
  <>[](container = "Running" /\ session /\ busy = "")
    => <>[](phase = "on") /\ []<>(state = "running")

-----------------------------------------------------------------------------
(* What the comments say and the code does not do *)

\* StateStopping: "Nothing may talk to the container in this state".
NothingTalksWhileStopping == state = "stopping" => talker = "idle"

\* "An operation of ours owns the seat's state while it runs".
OperationOwnsTheState ==
  [][Working /\ busy' = busy /\ op' = op => state' = state]_lifeVars

\* Events of an operation's own doing would be "the daemon reacting to itself":
\* none of them takes the broker from a seat that is up.
NotReactingToItself ==
  [][loop.ev.own /\ container = "Running" /\ session
       => ~(phase = "on" /\ phase' = "ending" /\ loop'.at = "told")]_lifeVars

\* "Already up": Start leaves the session of a seat that is up alone.
StartAdoptsWhatIsUp ==
  [][op = "look" /\ container = "Running" /\ session => op' # "session"]_lifeVars

\* StateRunning: "container, session and broker are all up".
RunningHasItsBroker == state = "running" => phase = "on"
=============================================================================
