----------------------------- MODULE SeatLanes -----------------------------
(***************************************************************************)
(* Who may have a seat when (src/internal/seat/manager.go): the lanes a    *)
(* reading of the seat holds, the claim an operation makes on it, and the  *)
(* runtime record both of them go through.                                 *)
(*                                                                         *)
(* One seat name.  A seat that is deleted and created again under its name *)
(* gets a runtime record of its own, so the records are numbered and a     *)
(* goroutine that fetched one keeps the number, as it keeps the pointer.   *)
(* What a reading reads and an operation does is in SeatLifecycle; here    *)
(* only the writes of the state matter, because StateStopping is half of   *)
(* what refuses a reading.                                                 *)
(***************************************************************************)
EXTENDS Integers, FiniteSets

CONSTANTS
  Goroutines,   \* goroutines of the daemon that reach for this seat
  Nobody,       \* a lock that is free, a seat that is not busy
  MaxCreates,   \* bound: how often the seat is created
  MaxRuntimes   \* bound: how many runtimes are made for its name

ASSUME NobodyAssumption == Nobody \notin Goroutines
ASSUME BoundsAssumption == MaxCreates \in Nat /\ MaxRuntimes \in Nat

VARIABLES
  recorded,   \* whether the store has a record of the seat
  created,    \* how often it was created
  rt,         \* the runtime m.rt holds for the name, 0 when it holds none
  newest,     \* the last runtime made
  busy,       \* per runtime, the goroutine whose operation rt.busy names
  mode,       \* per runtime, rt.state as far as the lanes tell it apart
  held,       \* per runtime and lane, who holds lane.mu
  cancel,     \* per runtime and lane, whose reading lane.cancel ends
  pc,         \* per goroutine, where it is
  job,        \* per goroutine, what it came for
  mine,       \* per goroutine, the runtime it fetched
  told,       \* per goroutine in claim, the readings still to be cancelled
  at,         \* per goroutine in quiesce, the lanes already waited for
  over        \* per goroutine, whether its reading's context is cancelled

laneVars == <<recorded, created, rt, newest, busy, mode, held, cancel, pc, job,
              mine, told, at, over>>

registry == <<recorded, created, rt, newest>>
locks    == <<held, cancel>>
local    == <<job, mine, told, at, over>>

Runtimes == 1..MaxRuntimes

\* lanes(), in the order it lists them
Lanes     == {"sweep", "apps", "asking"}
LaneOrder == <<"sweep", "apps", "asking">>

\* reconcile, reconcileAll, refreshAppsSoon, askInTurn, CheckFreshness
Readings == {"reconcile", "sweep", "rebuild", "freshness", "check"}

\* Start stands for every operation that leaves the registry and StateStopping
\* alone.
Operations == {"start", "stop", "delete"}

LaneOf(j) == CASE j \in {"reconcile", "sweep"}  -> "sweep"
               [] j = "rebuild"                 -> "apps"
               [] j \in {"freshness", "check"}  -> "asking"

\* enter's wait
Waits(j) == j \in {"reconcile", "check"}

Places == {"idle", "looked", "fetched", "locked", "reading", "leaving",
           "claimed", "quiesce", "work", "halting", "unrecorded",
           "worked", "failed", "failing"}

\* From claim until the operation gives the seat up again.
InOperation(g) == pc[g] \in {"claimed", "quiesce", "work", "halting",
                             "unrecorded", "worked", "failed"}
\* While fn runs.
Working(g) == pc[g] \in {"work", "halting", "unrecorded"}

Init ==
  /\ recorded = FALSE
  /\ created = 0
  /\ rt = 0
  /\ newest = 0
  /\ busy = [i \in Runtimes |-> Nobody]
  /\ mode = [i \in Runtimes |-> "other"]
  /\ held = [i \in Runtimes |-> [l \in Lanes |-> Nobody]]
  /\ cancel = [i \in Runtimes |-> [l \in Lanes |-> Nobody]]
  /\ pc = [g \in Goroutines |-> "idle"]
  /\ job = [g \in Goroutines |-> "reconcile"]
  /\ mine = [g \in Goroutines |-> 0]
  /\ told = [g \in Goroutines |-> {}]
  /\ at = [g \in Goroutines |-> 0]
  /\ over = [g \in Goroutines |-> FALSE]

Go(g, from, to) == pc[g] = from /\ pc' = [pc EXCEPT ![g] = to]

\* Nothing a goroutine knew outlives the call it knew it in.
Forget(g) ==
  /\ job' = [job EXCEPT ![g] = "reconcile"]
  /\ mine' = [mine EXCEPT ![g] = 0]
  /\ told' = [told EXCEPT ![g] = {}]
  /\ at' = [at EXCEPT ![g] = 0]
  /\ over' = [over EXCEPT ![g] = FALSE]

Return(g, from) == Go(g, from, "idle") /\ Forget(g)

-----------------------------------------------------------------------------
(* The registry *)

\* runtimeOf: the name's runtime, made when there is none.
RuntimeNow == IF rt = 0 THEN newest + 1 ELSE rt

RuntimeOf ==
  /\ RuntimeNow \in Runtimes
  /\ rt' = RuntimeNow
  /\ newest' = IF rt = 0 THEN RuntimeNow ELSE newest
  /\ UNCHANGED <<recorded, created>>

\* setState, which finds the runtime by the seat's name.
SetMode(m) == RuntimeOf /\ mode' = [mode EXCEPT ![RuntimeNow] = m]

\* createRecord under recordMu; Create then reconciles what it made.
Create(g) ==
  /\ Go(g, "idle", "looked")
  /\ ~recorded
  /\ created < MaxCreates
  /\ recorded' = TRUE
  /\ created' = created + 1
  /\ job' = [job EXCEPT ![g] = "reconcile"]
  /\ UNCHANGED <<rt, newest, busy, mode, mine, told, at, over, locks>>

\* The look at the store with which every reading and every operation begins:
\* store.Get in Start, Stop, Delete and onLifecycle, store.List in reconcileAll.
\* CheckFreshness alone has no such look.
Look(g) ==
  /\ Go(g, "idle", "looked")
  /\ \E j \in Readings \cup Operations :
       /\ recorded \/ j = "check"
       /\ job' = [job EXCEPT ![g] = j]
  /\ UNCHANGED <<busy, mode, mine, told, at, over, registry, locks>>

Fetch(g) ==
  /\ Go(g, "looked", "fetched")
  /\ job[g] = "check" => rt # 0
  /\ RuntimeOf
  /\ mine' = [mine EXCEPT ![g] = RuntimeNow]
  /\ UNCHANGED <<busy, mode, job, told, at, over, locks>>

\* CheckFreshness looks its runtime up without making one.
FetchNothing(g) ==
  /\ Return(g, "looked")
  /\ job[g] = "check"
  /\ rt = 0
  /\ UNCHANGED <<busy, mode, registry, locks>>

-----------------------------------------------------------------------------
(* enter: a reading takes its lane *)

Lane(g) == held[mine[g]][LaneOf(job[g])]

Lock(g) ==
  /\ Go(g, "fetched", "locked")
  /\ job[g] \in Readings
  /\ Lane(g) = Nobody
  /\ held' = [held EXCEPT ![mine[g]][LaneOf(job[g])] = g]
  /\ UNCHANGED <<busy, mode, cancel, local, registry>>

\* TryLock
LockFails(g) ==
  /\ Return(g, "fetched")
  /\ job[g] \in Readings
  /\ ~Waits(job[g])
  /\ Lane(g) # Nobody
  /\ UNCHANGED <<busy, mode, registry, locks>>

\* Mutated: the look at busy is left out.
RefusedOnlyStopping(i) == mode[i] = "stopping"

\* The look under m.mu that decides: an operation has the seat, or it is being
\* stopped.
Refused(i) == busy[i] # Nobody \/ mode[i] = "stopping"

\* Mutated: the lane does not learn how to end the reading.
EnterUncancellable(g) ==
  /\ Go(g, "locked", "reading")
  /\ ~Refused(mine[g])
  /\ over' = [over EXCEPT ![g] = FALSE]
  /\ UNCHANGED <<busy, mode, job, mine, told, at, registry, locks>>

Enter(g) ==
  /\ Go(g, "locked", "reading")
  /\ ~Refused(mine[g])
  /\ cancel' = [cancel EXCEPT ![mine[g]][LaneOf(job[g])] = g]
  /\ over' = [over EXCEPT ![g] = FALSE]
  /\ UNCHANGED <<busy, mode, held, job, mine, told, at, registry>>

EnterRefused(g) ==
  /\ Return(g, "locked")
  /\ Refused(mine[g])
  /\ held' = [held EXCEPT ![mine[g]][LaneOf(job[g])] = Nobody]
  /\ UNCHANGED <<busy, mode, cancel, registry>>

\* A sweep says what it found, by the seat's name.
SweepWrites(g) ==
  /\ pc[g] = "reading"
  /\ LaneOf(job[g]) = "sweep"
  /\ SetMode("other")
  /\ UNCHANGED <<busy, pc, local, locks>>

\* end: first the cancel is taken back, then the lane is let go.
End(g) ==
  /\ Go(g, "reading", "leaving")
  /\ cancel' = [cancel EXCEPT ![mine[g]][LaneOf(job[g])] = Nobody]
  /\ UNCHANGED <<busy, mode, held, local, registry>>

Unlock(g) ==
  /\ Return(g, "leaving")
  /\ held' = [held EXCEPT ![mine[g]][LaneOf(job[g])] = Nobody]
  /\ UNCHANGED <<busy, mode, cancel, registry>>

-----------------------------------------------------------------------------
(* operate: an operation claims the seat, waits, works and lets go *)

Claim(g) ==
  /\ Go(g, "fetched", "claimed")
  /\ job[g] \in Operations
  /\ busy[mine[g]] = Nobody
  /\ busy' = [busy EXCEPT ![mine[g]] = g]
  /\ told' = [told EXCEPT ![g] =
                {cancel[mine[g]][l] : l \in Lanes} \ {Nobody}]
  /\ UNCHANGED <<mode, job, mine, at, over, registry, locks>>

\* ErrBusy
ClaimRefused(g) ==
  /\ Return(g, "fetched")
  /\ job[g] \in Operations
  /\ busy[mine[g]] # Nobody
  /\ UNCHANGED <<busy, mode, registry, locks>>

\* The collected cancels are called after the lock is let go.  One whose
\* reading has ended meanwhile reaches nothing.
Tell(g) ==
  /\ pc[g] = "claimed"
  /\ \E h \in told[g] :
       /\ told' = [told EXCEPT ![g] = @ \ {h}]
       /\ over' = IF pc[h] \in {"reading", "leaving"} /\ mine[h] = mine[g]
                    THEN [over EXCEPT ![h] = TRUE] ELSE over
  /\ UNCHANGED <<busy, mode, pc, job, mine, at, registry, locks>>

AllTold(g) ==
  /\ Go(g, "claimed", "quiesce")
  /\ told[g] = {}
  /\ at' = [at EXCEPT ![g] = 0]
  /\ UNCHANGED <<busy, mode, job, mine, told, over, registry, locks>>

\* quiesce locks and unlocks each lane in turn, only to wait for its holder.
Quiesce(g) ==
  /\ pc[g] = "quiesce"
  /\ at[g] < 3
  /\ held[mine[g]][LaneOrder[at[g] + 1]] = Nobody
  /\ at' = [at EXCEPT ![g] = @ + 1]
  /\ UNCHANGED <<busy, mode, pc, job, mine, told, over, registry, locks>>

\* Mutated: the last lane is not waited for.
QuiescedEarly(g) ==
  /\ Go(g, "quiesce", "work")
  /\ at[g] >= 2
  /\ UNCHANGED <<busy, mode, local, registry, locks>>

Quiesced(g) ==
  /\ Go(g, "quiesce", "work")
  /\ at[g] = 3
  /\ UNCHANGED <<busy, mode, local, registry, locks>>

\* Start and its like say StateStarting, StateBuilding, StateRunning.
WorkWrites(g) ==
  /\ pc[g] = "work"
  /\ job[g] = "start"
  /\ SetMode("other")
  /\ UNCHANGED <<busy, pc, local, locks>>

StopBegins(g) ==
  /\ Go(g, "work", "halting")
  /\ job[g] = "stop"
  /\ SetMode("stopping")
  /\ UNCHANGED <<busy, local, locks>>

StopSucceeds(g) ==
  /\ Go(g, "halting", "worked")
  /\ SetMode("other")
  /\ UNCHANGED <<busy, local, locks>>

StartSucceeds(g) ==
  /\ Go(g, "work", "worked")
  /\ job[g] = "start"
  /\ UNCHANGED <<busy, mode, local, registry, locks>>

\* store.Delete; the secrets and the pool's records go after it.
DeleteRecord(g) ==
  /\ Go(g, "work", "unrecorded")
  /\ job[g] = "delete"
  /\ recorded' = FALSE
  /\ UNCHANGED <<created, rt, newest, busy, mode, local, locks>>

\* delete(m.rt, name), the last thing Delete does.
DropRuntime(g) ==
  /\ Go(g, "unrecorded", "worked")
  /\ rt' = 0
  /\ UNCHANGED <<recorded, created, newest, busy, mode, local, locks>>

\* fn returns an error, whatever it had done by then.
WorkFails(g) ==
  /\ Working(g)
  /\ pc' = [pc EXCEPT ![g] = "failed"]
  /\ UNCHANGED <<busy, mode, local, registry, locks>>

\* Mutated: a seat found gone is left as it is, busy and all.
ReleaseUnlessGone(g) ==
  /\ pc[g] \in {"worked", "failed"}
  /\ busy' = IF rt # mine[g] THEN busy ELSE [busy EXCEPT ![mine[g]] = Nobody]
  /\ pc' = [pc EXCEPT ![g] = IF rt # mine[g] THEN "idle"
                             ELSE IF pc[g] = "failed" THEN "failing"
                             ELSE "looked"]
  /\ Forget(g)
  /\ UNCHANGED <<mode, registry, locks>>

\* busy is cleared and, in the same breath, the seat found gone or not.
Release(g) ==
  /\ pc[g] \in {"worked", "failed"}
  /\ busy' = [busy EXCEPT ![mine[g]] = Nobody]
  /\ pc' = [pc EXCEPT ![g] = IF rt # mine[g] THEN "idle"
                             ELSE IF pc[g] = "failed" THEN "failing"
                             ELSE "looked"]
  /\ Forget(g)
  /\ UNCHANGED <<mode, registry, locks>>

\* Mutated: the failure is only logged.
FailSilently(g) ==
  /\ Go(g, "failing", "looked")
  /\ UNCHANGED <<busy, mode, local, registry, locks>>

\* StateError, and then the reconcile of a finished operation.
Fail(g) ==
  /\ Go(g, "failing", "looked")
  /\ SetMode("error")
  /\ UNCHANGED <<busy, local, locks>>

-----------------------------------------------------------------------------

ReadingStep(g) ==
  \/ Fetch(g) \/ FetchNothing(g) \/ Lock(g) \/ LockFails(g) \/ Enter(g)
  \/ EnterRefused(g) \/ End(g) \/ Unlock(g)

OperationStep(g) ==
  \/ Claim(g) \/ ClaimRefused(g) \/ Tell(g) \/ AllTold(g) \/ Quiesce(g)
  \/ Quiesced(g) \/ StopBegins(g) \/ StopSucceeds(g) \/ StartSucceeds(g)
  \/ DeleteRecord(g) \/ DropRuntime(g) \/ WorkFails(g) \/ Release(g) \/ Fail(g)

Next ==
  \E g \in Goroutines :
    \/ Create(g) \/ Look(g) \/ SweepWrites(g) \/ WorkWrites(g)
    \/ ReadingStep(g) \/ OperationStep(g)

\* Every goroutine that can run is run.  A sync.Mutex is handed to whoever has
\* waited for it, so neither a reading nor quiesce is passed over for ever.  A
\* reading whose context is cancelled ends; one that is not may take as long
\* as it likes.
Fairness ==
  \A g \in Goroutines :
    /\ WF_laneVars(Fetch(g) \/ FetchNothing(g) \/ Enter(g) \/ EnterRefused(g)
                   \/ LockFails(g) \/ Unlock(g))
    /\ WF_laneVars(over[g] /\ End(g))
    /\ WF_laneVars(OperationStep(g))
    /\ SF_laneVars(Lock(g))
    /\ SF_laneVars(Quiesce(g))

Spec == Init /\ [][Next]_laneVars /\ Fairness

-----------------------------------------------------------------------------
(* Properties *)

\* Every variable keeps its kind.
LaneTypeOK ==
  /\ recorded \in BOOLEAN
  /\ created \in 0..MaxCreates
  /\ rt \in 0..MaxRuntimes
  /\ newest \in 0..MaxRuntimes
  /\ busy \in [Runtimes -> Goroutines \cup {Nobody}]
  /\ mode \in [Runtimes -> {"other", "stopping", "error"}]
  /\ held \in [Runtimes -> [Lanes -> Goroutines \cup {Nobody}]]
  /\ cancel \in [Runtimes -> [Lanes -> Goroutines \cup {Nobody}]]
  /\ pc \in [Goroutines -> Places]
  /\ job \in [Goroutines -> Readings \cup Operations]
  /\ mine \in [Goroutines -> 0..MaxRuntimes]
  /\ told \in [Goroutines -> SUBSET Goroutines]
  /\ at \in [Goroutines -> 0..3]
  /\ over \in [Goroutines -> BOOLEAN]

\* beginSweep's comment: "no read and no operation share a moment".  While an
\* operation on a runtime does its work nothing reads through that runtime, in
\* any of its lanes.
NoOverlap ==
  \A g, h \in Goroutines :
    Working(g) /\ pc[h] = "reading" => mine[g] # mine[h]

\* "exactly one at a time": operate's claim on one runtime.
OneOperation ==
  \A g, h \in Goroutines :
    InOperation(g) /\ InOperation(h) /\ mine[g] = mine[h] => g = h

\* claim's other half: once it has called the cancels it collected, every
\* reading still going through that runtime has been told to stop.  One that
\* had not would hold the operation up for as long as it cares to read.
NobodyReadsUntold ==
  \A g, h \in Goroutines :
    /\ InOperation(g) /\ pc[g] # "claimed"
    /\ pc[h] = "reading" /\ mine[h] = mine[g]
    => over[h]

\* Readings and operations take turns on every runtime, as SeatTurns says.
Turn(i) == INSTANCE SeatTurns WITH
  has   <- busy[i] # Nobody,
  works <- \E g \in Goroutines : Working(g) /\ mine[g] = i,
  reads <- {g \in Goroutines : pc[g] = "reading" /\ mine[g] = i}

TakesTurns ==
  /\ \A i \in Runtimes : Turn(i)!Init
  /\ [][\A i \in Runtimes : [Turn(i)!Next]_(Turn(i)!vars)]_laneVars

\* "milliseconds for the sweep": an operation that claimed the seat gets to do
\* its work, although a reading nobody cancels may go on for ever.
ClaimGetsToWork ==
  \A g \in Goroutines : pc[g] = "claimed" ~> Working(g)

\* No runtime stays busy and no lane stays taken after the operation is done,
\* whatever it did to the registry meanwhile.
SeatComesFree ==
  \A i \in Runtimes : busy[i] # Nobody ~> busy[i] = Nobody

\* StateStopping refuses every reading, and a reading is what puts a seat's
\* state right.  So no seat may be left in it with nothing working on it, as long as
\* its name is not used a second time.
NeverLeftStopping ==
  created <= 1 /\ recorded /\ rt # 0 /\ mode[rt] = "stopping"
    ~> \/ ~recorded \/ rt = 0 \/ created > 1
       \/ mode[rt] # "stopping"

-----------------------------------------------------------------------------
(* What the comments say and the code does not do *)

\* The same sentence of beginSweep, taken for the seat rather than for one
\* runtime of it: sweepSeat and every operation reach the container by name.
NoOverlapOnTheSeat ==
  \A g, h \in Goroutines : ~(Working(g) /\ pc[h] = "reading")

\* StateStopping's comment: it "means a shutdown is in progress".  Somebody is
\* in the middle of a Stop or about to say how it failed.
StoppingMeansAShutdown ==
  recorded /\ rt # 0 /\ mode[rt] = "stopping"
    => \E g \in Goroutines : pc[g] \in {"halting", "failed", "failing"}

\* operate stops short of the seat's name after a Delete because "runtimeOf
\* would make a fresh record under that name": when everybody is done with a
\* deleted seat the daemon holds nothing under its name.
DeletedIsForgotten ==
  ~recorded /\ (\A g \in Goroutines : pc[g] = "idle") => rt = 0
=============================================================================
