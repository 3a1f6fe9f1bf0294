----------------------------- MODULE Supervise -----------------------------
(***************************************************************************)
(* One supervised helper process (src/internal/supervise/supervise.go):    *)
(* the goroutines that call Start and Stop on it, the goroutine each Start *)
(* spawns, and the child that goroutine runs again and again.              *)
(*                                                                         *)
(* A run of the supervise goroutine is numbered by the Start that spawned  *)
(* it.  The number stands for the context, the done channel and, once a    *)
(* Stop took the handle, the stopping channel of that run: the code makes  *)
(* all three afresh each time, and never more than one of each per run.    *)
(***************************************************************************)
EXTENDS Integers, FiniteSets

CONSTANTS
  Callers,      \* goroutines of the daemon that call Start and Stop
  MaxRuns,      \* bound: how many times Start may spawn a goroutine
  MaxBackoff,   \* maxBackoff, in seconds
  CanFail       \* whether the process has a Fatal function

ASSUME CallersAssumption == Callers # {}
ASSUME MaxRunsAssumption == MaxRuns \in Nat
ASSUME MaxBackoffAssumption == MaxBackoff \in Nat
ASSUME CanFailAssumption == CanFail \in BOOLEAN

VARIABLES
  state,      \* p.state
  handle,     \* the run p.cancel belongs to, 0 when p.cancel is nil
  stopping,   \* the run p.stopping belongs to, 0 when p.stopping is nil
  closed,     \* the runs whose stopping channel has been closed
  backoff,    \* p.backoff, in seconds
  newest,     \* the last run spawned
  sup,        \* per run, where its goroutine is
  cancelled,  \* per run, whether its context is cancelled
  spawned,    \* whether the child in being has started helpers of its own
  stray,      \* whether a helper outlived the child that started it
  pc,         \* per caller, where it is in Start or Stop
  arg         \* per caller, the run its Stop took or the channel it waits on

vars == <<state, handle, stopping, closed, backoff, newest, sup, cancelled,
          spawned, stray, pc, arg>>

handles == <<handle, stopping, closed, newest>>
callers == <<pc, arg>>
child   == <<spawned, stray>>

Runs     == 1..MaxRuns
States   == {"stopped", "running", "restarting", "failed"}
SupPlace == {"none", "top", "mark", "spawn", "child", "signalled",
             "exited", "fatal", "retry", "giveup", "wait", "done"}
Place    == {"idle", "start", "startWait", "stop", "stopWait",
             "join", "mark", "clear", "close"}

Init ==
  /\ state = "stopped"
  /\ handle = 0
  /\ stopping = 0
  /\ closed = {}
  /\ backoff = 0
  /\ newest = 0
  /\ sup = [r \in Runs |-> "none"]
  /\ cancelled = [r \in Runs |-> FALSE]
  /\ spawned = FALSE
  /\ stray = FALSE
  /\ pc = [c \in Callers |-> "idle"]
  /\ arg = [c \in Callers |-> 0]

-----------------------------------------------------------------------------
(* Start *)

Starting == {c \in Callers : pc[c] \in {"start", "startWait"}}

\* The bound counts the callers already inside Start, so that none of them is
\* ever held up by it.
CallStart(c) ==
  /\ pc[c] = "idle"
  /\ newest + Cardinality(Starting) < MaxRuns
  /\ pc' = [pc EXCEPT ![c] = "start"]
  /\ UNCHANGED <<state, backoff, sup, cancelled, arg, handles, child>>

\* p.cancel is set: starting a process that is running does nothing.
StartAlready(c) ==
  /\ pc[c] = "start"
  /\ handle # 0
  /\ pc' = [pc EXCEPT ![c] = "idle"]
  /\ UNCHANGED <<state, backoff, sup, cancelled, arg, handles, child>>

\* Still being stopped: the lock is let go and the channel waited on.
StartMustWait(c) ==
  /\ pc[c] = "start"
  /\ handle = 0
  /\ stopping # 0
  /\ pc' = [pc EXCEPT ![c] = "startWait"]
  /\ arg' = [arg EXCEPT ![c] = stopping]
  /\ UNCHANGED <<state, backoff, sup, cancelled, handles, child>>

StartWoken(c) ==
  /\ pc[c] = "startWait"
  /\ arg[c] \in closed
  /\ pc' = [pc EXCEPT ![c] = "start"]
  /\ UNCHANGED <<state, backoff, sup, cancelled, arg, handles, child>>

\* Mutated: Start does not look at p.stopping.
StartSpawnsBeside(c) ==
  /\ pc[c] = "start"
  /\ handle = 0
  /\ newest < MaxRuns
  /\ newest' = newest + 1
  /\ handle' = newest + 1
  /\ sup' = [sup EXCEPT ![newest + 1] = "top"]
  /\ backoff' = 0
  /\ pc' = [pc EXCEPT ![c] = "idle"]
  /\ UNCHANGED <<state, stopping, closed, cancelled, arg, child>>

StartSpawns(c) ==
  /\ pc[c] = "start"
  /\ handle = 0
  /\ stopping = 0
  /\ newest < MaxRuns
  /\ newest' = newest + 1
  /\ handle' = newest + 1
  /\ sup' = [sup EXCEPT ![newest + 1] = "top"]
  /\ backoff' = 0
  /\ pc' = [pc EXCEPT ![c] = "idle"]
  /\ UNCHANGED <<state, stopping, closed, cancelled, arg, child>>

-----------------------------------------------------------------------------
(* Stop *)

CallStop(c) ==
  /\ pc[c] = "idle"
  /\ pc' = [pc EXCEPT ![c] = "stop"]
  /\ UNCHANGED <<state, backoff, sup, cancelled, arg, handles, child>>

\* Mutated: a second Stop returns early because the first took the handle.
StopNothingAtOnce(c) ==
  /\ pc[c] = "stop"
  /\ handle = 0
  /\ pc' = [pc EXCEPT ![c] = "idle"]
  /\ arg' = [arg EXCEPT ![c] = stopping]
  /\ UNCHANGED <<state, backoff, sup, cancelled, handles, child>>

\* Nothing holds the handle: wait for a Stop in progress, if there is one.
StopNothing(c) ==
  /\ pc[c] = "stop"
  /\ handle = 0
  /\ pc' = [pc EXCEPT ![c] = IF stopping = 0 THEN "idle" ELSE "stopWait"]
  /\ arg' = [arg EXCEPT ![c] = stopping]
  /\ UNCHANGED <<state, backoff, sup, cancelled, handles, child>>

StopWoken(c) ==
  /\ pc[c] = "stopWait"
  /\ arg[c] \in closed
  /\ pc' = [pc EXCEPT ![c] = "idle"]
  /\ UNCHANGED <<state, backoff, sup, cancelled, arg, handles, child>>

StopTakes(c) ==
  /\ pc[c] = "stop"
  /\ handle # 0
  /\ arg' = [arg EXCEPT ![c] = handle]
  /\ stopping' = handle
  /\ handle' = 0
  /\ pc' = [pc EXCEPT ![c] = "join"]
  /\ UNCHANGED <<state, backoff, sup, cancelled, closed, newest, child>>

\* cancel(), outside the lock.
StopCancels(c) ==
  /\ pc[c] = "join"
  /\ ~cancelled[arg[c]]
  /\ cancelled' = [cancelled EXCEPT ![arg[c]] = TRUE]
  /\ UNCHANGED <<state, backoff, sup, handles, callers, child>>

\* Mutated: Stop does not wait for the goroutine.
StopJoinsEarly(c) ==
  /\ pc[c] = "join"
  /\ cancelled[arg[c]]
  /\ pc' = [pc EXCEPT ![c] = "mark"]
  /\ UNCHANGED <<state, backoff, sup, cancelled, arg, handles, child>>

\* <-done
StopJoins(c) ==
  /\ pc[c] = "join"
  /\ cancelled[arg[c]]
  /\ sup[arg[c]] = "done"
  /\ pc' = [pc EXCEPT ![c] = "mark"]
  /\ UNCHANGED <<state, backoff, sup, cancelled, arg, handles, child>>

\* Mutated: Stop leaves the state as the goroutine left it.
StopMarksNothing(c) ==
  /\ pc[c] = "mark"
  /\ pc' = [pc EXCEPT ![c] = "clear"]
  /\ UNCHANGED <<state, backoff, sup, cancelled, arg, handles, child>>

StopMarks(c) ==
  /\ pc[c] = "mark"
  /\ state' = "stopped"
  /\ pc' = [pc EXCEPT ![c] = "clear"]
  /\ UNCHANGED <<backoff, sup, cancelled, arg, handles, child>>

StopClears(c) ==
  /\ pc[c] = "clear"
  /\ stopping' = 0
  /\ pc' = [pc EXCEPT ![c] = "close"]
  /\ UNCHANGED <<state, backoff, sup, cancelled, arg, handle, closed, newest,
                 child>>

\* Mutated: the channel is never closed.
StopClosesNothing(c) ==
  /\ pc[c] = "close"
  /\ pc' = [pc EXCEPT ![c] = "idle"]
  /\ UNCHANGED <<state, backoff, sup, cancelled, arg, handles, child>>

StopCloses(c) ==
  /\ pc[c] = "close"
  /\ closed' = closed \cup {arg[c]}
  /\ pc' = [pc EXCEPT ![c] = "idle"]
  /\ UNCHANGED <<state, backoff, sup, cancelled, arg, handle, stopping, newest,
                 child>>

-----------------------------------------------------------------------------
(* The supervise goroutine of run r, and the child it runs *)

SupGo(r, from, to) ==
  /\ sup[r] = from
  /\ sup' = [sup EXCEPT ![r] = to]

\* The look at the context at the top of the loop.
SupTop(r) ==
  /\ SupGo(r, "top", IF cancelled[r] THEN "done" ELSE "mark")
  /\ UNCHANGED <<state, backoff, cancelled, handles, callers, child>>

SupRunning(r) ==
  /\ SupGo(r, "mark", "spawn")
  /\ state' = "running"
  /\ UNCHANGED <<backoff, cancelled, handles, callers, child>>

\* cmd.Start: the context is not looked at again before the child exists.
ChildStarts(r) ==
  /\ SupGo(r, "spawn", "child")
  /\ UNCHANGED <<state, backoff, cancelled, handles, callers, child>>

ChildCannotStart(r) ==
  /\ SupGo(r, "spawn", "exited")
  /\ UNCHANGED <<state, backoff, cancelled, handles, callers, child>>

\* The observer runs bpftrace, in its own process group.
ChildSpawns(r) ==
  /\ sup[r] = "child"
  /\ ~spawned
  /\ spawned' = TRUE
  /\ UNCHANGED <<state, backoff, sup, cancelled, handles, callers, stray>>

\* The child ends by itself.  Nothing signals its process group then, so what
\* it had started may live on.
ChildExits(r) ==
  /\ \/ SupGo(r, "child", "exited")
     \/ CanFail /\ SupGo(r, "child", "fatal")
  /\ spawned' = FALSE
  /\ stray' \in {stray, stray \/ spawned}
  /\ UNCHANGED <<state, backoff, cancelled, handles, callers>>

\* <-ctx.Done(): SIGTERM, then SIGKILL, to the whole process group.
ChildSignalled(r) ==
  /\ cancelled[r]
  /\ SupGo(r, "child", "signalled")
  /\ UNCHANGED <<state, backoff, cancelled, handles, callers, child>>

\* What the child had started takes the signal as the child does.
ChildReaped(r) ==
  /\ SupGo(r, "signalled", "exited")
  /\ spawned' = FALSE
  /\ UNCHANGED <<state, backoff, cancelled, handles, callers, stray>>

\* Mutated: every exit is taken for a fatal one.
SupAfterGivesUp(r) ==
  /\ \/ SupGo(r, "exited", IF cancelled[r] THEN "done" ELSE "giveup")
     \/ SupGo(r, "fatal", IF cancelled[r] THEN "done" ELSE "giveup")
  /\ UNCHANGED <<state, backoff, cancelled, handles, callers, child>>

\* The second look at the context, after runOnce.
SupAfter(r) ==
  /\ \/ SupGo(r, "exited", IF cancelled[r] THEN "done" ELSE "retry")
     \/ SupGo(r, "fatal", IF cancelled[r] THEN "done" ELSE "giveup")
  /\ UNCHANGED <<state, backoff, cancelled, handles, callers, child>>

SupGivesUp(r) ==
  /\ SupGo(r, "giveup", "done")
  /\ state' = "failed"
  /\ UNCHANGED <<backoff, cancelled, handles, callers, child>>

\* Up for more than a minute, or not, is the child's choice.
NextBackoff(b, long) ==
  IF long THEN 0
  ELSE IF b = 0 THEN 1
  ELSE IF b < MaxBackoff THEN 2 * b ELSE b

SupRestarting(r) ==
  /\ SupGo(r, "retry", "wait")
  /\ \E long \in BOOLEAN : backoff' = NextBackoff(backoff, long)
  /\ state' = "restarting"
  /\ UNCHANGED <<cancelled, handles, callers, child>>

\* time.After(p.backoff)
SupWaited(r) ==
  /\ SupGo(r, "wait", "top")
  /\ UNCHANGED <<state, backoff, cancelled, handles, callers, child>>

\* ctx.Done() while waiting
SupWaitCancelled(r) ==
  /\ cancelled[r]
  /\ SupGo(r, "wait", "done")
  /\ UNCHANGED <<state, backoff, cancelled, handles, callers, child>>

-----------------------------------------------------------------------------

CallerStep(c) ==
  \/ StartAlready(c) \/ StartMustWait(c) \/ StartWoken(c) \/ StartSpawns(c)
  \/ StopNothing(c) \/ StopWoken(c) \/ StopTakes(c) \/ StopCancels(c)
  \/ StopJoins(c) \/ StopMarks(c) \/ StopClears(c) \/ StopCloses(c)

\* What the goroutine does by itself, whatever the child does.
SupStep(r) ==
  \/ SupTop(r) \/ SupRunning(r) \/ ChildStarts(r) \/ ChildCannotStart(r)
  \/ ChildSignalled(r) \/ ChildReaped(r) \/ SupAfter(r) \/ SupGivesUp(r)
  \/ SupRestarting(r) \/ SupWaited(r) \/ SupWaitCancelled(r)

ChildStep(r) == ChildSpawns(r) \/ ChildExits(r)

Next ==
  \/ \E c \in Callers : CallStart(c) \/ CallStop(c) \/ CallerStep(c)
  \/ \E r \in Runs : SupStep(r) \/ ChildStep(r)

\* Go runs every goroutine that can run; the timer of the wait fires and a
\* killed process group is reaped.  Nobody has to call Start or Stop, and a
\* child may stay up for ever.
Fairness ==
  /\ \A c \in Callers : WF_vars(CallerStep(c))
  /\ \A r \in Runs : WF_vars(SupStep(r))

Spec == Init /\ [][Next]_vars /\ Fairness

-----------------------------------------------------------------------------
(* Properties *)

\* Every variable keeps its kind.
TypeOK ==
  /\ state \in States
  /\ handle \in 0..MaxRuns
  /\ stopping \in 0..MaxRuns
  /\ closed \subseteq Runs
  /\ backoff \in Nat
  /\ newest \in 0..MaxRuns
  /\ sup \in [Runs -> SupPlace]
  /\ cancelled \in [Runs -> BOOLEAN]
  /\ spawned \in BOOLEAN
  /\ stray \in BOOLEAN
  /\ pc \in [Callers -> Place]
  /\ arg \in [Callers -> 0..MaxRuns]

Alive(r) == sup[r] \in {"child", "signalled"}
Live(r)  == sup[r] \notin {"none", "done"}

\* Start's comment: never "two brokers for one seat".  At most one supervise
\* goroutine is at work, so there is never a second child beside the first.
AtMostOneChild == \A r, s \in Runs : Live(r) /\ Live(s) => r = s

\* "a state that lied": what State() answers is never stopped while a child
\* is there, and while a child is there it says running.
StateTellsTheTruth == \A r \in Runs : Alive(r) => state = "running"

\* With the handle gone and no Stop on its way nothing runs and the state says
\* so: every Stop leaves the process in the one state a new Start may find.
StoppedMeansGone ==
  handle = 0 /\ stopping = 0 =>
    /\ state = "stopped"
    /\ \A r \in Runs : ~Live(r)

\* "the caller has to be able to rely on this having finished": the step with
\* which any caller returns from Stop finds every run that was spawned before
\* it took its place in the queue ended.  A run spawned later is another
\* Start's.
StopWaitsForTheEnd ==
  [][\A c \in Callers :
       pc[c] \in {"stop", "stopWait", "close"} /\ pc'[c] = "idle"
         => /\ pc[c] = "stop" => \A r \in Runs : ~Live(r)
            /\ \A r \in Runs : r <= arg'[c] => ~Live(r)]_vars

\* A Stop returns, however the child takes being told to go, and a Start returns,
\* whoever is stopping the process meanwhile.
CallsReturn == \A c \in Callers : pc[c] \in {"start", "stop"} ~> pc[c] = "idle"

\* "keeping them running": a child that went away while nobody stopped the
\* process is tried again, however often it goes away.
TriedAgain ==
  \A r \in Runs :
    sup[r] = "exited" /\ handle = r ~> sup[r] = "spawn" \/ handle # r

-----------------------------------------------------------------------------
(* What the rest of the daemon relies on, see HelperPromise. *)

phaseOf ==
  IF handle # 0 THEN "on" ELSE IF stopping # 0 THEN "ending" ELSE "off"

Promise == INSTANCE HelperPromise
             WITH phase <- phaseOf, child <- (\E r \in Runs : Alive(r))

\* Supervise keeps the promise of HelperPromise, its liveness included: with
\* the handle given up, the child goes and the stop comes to an end.
KeepsThePromise == Promise!Spec

-----------------------------------------------------------------------------
(* What the comments say and the code does not do *)

\* The comment on maxBackoff: it "caps the wait between restarts".
BackoffCapped == backoff <= MaxBackoff

\* The comment in runOnce: the process group is there "so a stop reaches
\* anything the helper spawned".  With the process stopped, nothing it had
\* started is left.
StopReachesEverything ==
  handle = 0 /\ stopping = 0 => ~stray
=============================================================================
