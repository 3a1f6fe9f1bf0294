-------------------------- MODULE SuperviseProofs --------------------------
(***************************************************************************)
(* Supervise for every set of callers and every number of runs: never two  *)
(* children, a state that tells the truth, and a Stop that leaves nothing. *)
(* That is what HelperPromise says to the seat manager, step for step.     *)
(*                                                                         *)
(* None of it is inductive.  What carries it is who owns a run: a          *)
(* goroutine that is not done belongs either to the handle or to the one   *)
(* Stop that took the handle, those two are never there at once, and the   *)
(* caller inside that Stop is the only one that can let it go.             *)
(*                                                                         *)
(* The last part is about what runs under supervision, the observer and    *)
(* the brokers (InputDevices): no pass gives a seat what another made, or  *)
(* takes away what it plays with, however nodes and numbers are used       *)
(* again.  It rests on what the kernel keeps apart (KernelKnows), on the   *)
(* observer's record being of the device it names (ObserverKnows), and on  *)
(* a pass deciding from what it has itself found (PassKnows, SeatHolds).   *)
(***************************************************************************)
EXTENDS Supervise, InputDevices, WellFoundedInduction, TLAPS

\* The callers past taking the handle and not yet past giving up stopping.
InStop(c) == pc[c] \in {"join", "mark", "clear"}

\* Run r was spawned, and it and every run before it has ended.
Over(r) == r <= newest /\ \A s \in Runs : s <= r => ~Live(s)

\* A run at work is the handle's or the stopping one's, and there is one
\* such owner at most.
Owned ==
  /\ handle = 0 \/ stopping = 0
  /\ handle \in {0, newest}
  /\ stopping \in {0, newest}
  /\ \A r \in Runs : Live(r) => r = newest /\ (handle = r \/ stopping = r)

\* The caller inside Stop is the one stopping belongs to, and is alone there.
OneStopper ==
  /\ \A c \in Callers : InStop(c) => stopping # 0 /\ arg[c] = stopping
  /\ \A c, d \in Callers : InStop(c) /\ InStop(d) => c = d
  /\ \A c \in Callers :
       pc[c] \in {"mark", "clear"} => \A r \in Runs : ~Live(r)

\* A run whose stop is over, or about to be announced, is over with all the
\* runs before it.
StopsAreOver ==
  /\ \A c \in Callers : pc[c] = "close" => arg[c] \in Runs /\ Over(arg[c])
  /\ \A r \in closed : Over(r)

\* What p.state says against where the goroutine is.
StateFollows ==
  /\ \A r \in Runs :
       sup[r] \in {"spawn", "child", "signalled"} => state = "running"
  /\ \A c \in Callers : pc[c] = "clear" => state = "stopped"

IInv ==
  /\ TypeOK
  /\ Owned
  /\ OneStopper
  /\ StopsAreOver
  /\ StateFollows
  /\ StoppedMeansGone

-----------------------------------------------------------------------------

LEMMA InitIInv == Init => IInv
<1> SUFFICES ASSUME Init PROVE IInv
  OBVIOUS
<1> USE MaxRunsAssumption
<1>1. TypeOK
  <2>1. /\ state \in States /\ closed \subseteq Runs /\ spawned \in BOOLEAN
        /\ stray \in BOOLEAN /\ pc \in [Callers -> Place]
        /\ sup \in [Runs -> SupPlace] /\ cancelled \in [Runs -> BOOLEAN]
    BY DEF Init, States, Place, SupPlace
  <2>2. /\ handle \in 0..MaxRuns /\ stopping \in 0..MaxRuns /\ backoff \in Nat
        /\ newest \in 0..MaxRuns /\ arg \in [Callers -> 0..MaxRuns]
    BY DEF Init
  <2> QED BY <2>1, <2>2 DEF TypeOK
<1>2. /\ \A r \in Runs : sup[r] = "none"
      /\ \A c \in Callers : pc[c] = "idle"
  BY DEF Init
<1>3. Owned /\ StoppedMeansGone
  BY <1>2 DEF Init, Owned, StoppedMeansGone, Live
<1>4. OneStopper /\ StopsAreOver
  BY <1>2 DEF Init, OneStopper, StopsAreOver, InStop
<1>5. StateFollows
  BY <1>2 DEF StateFollows
<1> QED BY <1>1, <1>3, <1>4, <1>5 DEF IInv

\* What is left of the invariant when the goroutine of a run, and with it
\* perhaps the state, makes a step: the callers and the handles stay.
LEMMA SupStepIInv ==
  ASSUME IInv, NEW r \in Runs, SupStep(r) \/ ChildStep(r)
  PROVE  IInv'
<1>1. Live(r)
  BY DEF SupStep, ChildStep, SupTop, SupRunning, ChildStarts, ChildCannotStart,
     ChildSignalled, ChildReaped, SupAfter, SupGivesUp, SupRestarting,
     SupWaited, SupWaitCancelled, ChildSpawns, ChildExits, SupGo, Live
<1>2. /\ UNCHANGED <<handle, stopping, closed, newest, pc, arg>>
      /\ \A s \in Runs : s # r => sup'[s] = sup[s]
      /\ sup' \in [Runs -> SupPlace]
  BY DEF SupStep, ChildStep, SupTop, SupRunning, ChildStarts, ChildCannotStart,
     ChildSignalled, ChildReaped, SupAfter, SupGivesUp, SupRestarting,
     SupWaited, SupWaitCancelled, ChildSpawns, ChildExits, SupGo, IInv, TypeOK,
     SupPlace, handles, callers
<1>3. r = newest /\ (handle = r \/ stopping = r)
  BY <1>1 DEF IInv, Owned
<1>4. \A c \in Callers : pc[c] \notin {"mark", "clear"}
  BY <1>1 DEF IInv, OneStopper
<1>5. \A s \in Runs : Live(s) => s = r
  BY <1>3 DEF IInv, Owned
<1>6. state' \in States /\ backoff' \in Nat
  BY DEF SupStep, ChildStep, SupTop, SupRunning, ChildStarts, ChildCannotStart,
     ChildSignalled, ChildReaped, SupAfter, SupGivesUp, SupRestarting,
     SupWaited, SupWaitCancelled, ChildSpawns, ChildExits, SupGo, IInv, TypeOK,
     States, NextBackoff
<1>7. cancelled' = cancelled /\ spawned' \in BOOLEAN /\ stray' \in BOOLEAN
  BY DEF SupStep, ChildStep, SupTop, SupRunning, ChildStarts, ChildCannotStart,
     ChildSignalled, ChildReaped, SupAfter, SupGivesUp, SupRestarting,
     SupWaited, SupWaitCancelled, ChildSpawns, ChildExits, child, IInv, TypeOK
<1>8. TypeOK'
  BY <1>2, <1>6, <1>7 DEF IInv, TypeOK
<1>9. Owned'
  BY <1>2, <1>3, <1>5 DEF IInv, Owned, Live
<1>10. OneStopper'
  BY <1>2, <1>4 DEF IInv, OneStopper, InStop
<1>11. StateFollows'
  <2>1. sup'[r] \in {"spawn", "child", "signalled"} => state' = "running"
    BY DEF SupStep, ChildStep, SupTop, SupRunning, ChildStarts,
       ChildCannotStart, ChildSignalled, ChildReaped, SupAfter, SupGivesUp,
       SupRestarting, SupWaited, SupWaitCancelled, ChildSpawns, ChildExits,
       SupGo, IInv, TypeOK, StateFollows
  <2>2. \A s \in Runs : s # r => sup'[s] \in {"none", "done"}
    BY <1>2, <1>5 DEF Live
  <2> QED BY <1>2, <1>4, <2>1, <2>2 DEF StateFollows
<1>12. StoppedMeansGone'
  BY <1>2, <1>3 DEF StoppedMeansGone, Runs
<1>13. StopsAreOver'
  BY <1>1, <1>2, <1>5 DEF IInv, StopsAreOver, Over, Live, TypeOK
<1> QED BY <1>8, <1>9, <1>10, <1>11, <1>12, <1>13 DEF IInv

\* The steps of Start.  Only the one that spawns touches anything but pc.
LEMMA StartIInv ==
  ASSUME IInv, NEW c \in Callers,
         \/ CallStart(c) \/ StartAlready(c) \/ StartMustWait(c)
         \/ StartWoken(c) \/ StartSpawns(c)
  PROVE  IInv'
<1> USE MaxRunsAssumption
<1>1. CASE CallStart(c) \/ StartAlready(c) \/ StartMustWait(c) \/ StartWoken(c)
  <2>1. UNCHANGED <<state, handle, stopping, closed, newest, backoff, sup,
                    cancelled, spawned, stray>>
    BY <1>1 DEF CallStart, StartAlready, StartMustWait, StartWoken, handles,
       child
  <2>2. /\ pc' \in [Callers -> Place] /\ arg' \in [Callers -> 0..MaxRuns]
        /\ pc[c] \in {"idle", "start", "startWait"}
        /\ pc'[c] \in {"idle", "start", "startWait"}
        /\ \A d \in Callers : d # c => pc'[d] = pc[d] /\ arg'[d] = arg[d]
    BY <1>1 DEF CallStart, StartAlready, StartMustWait, StartWoken, IInv,
       TypeOK, Place, InStop
  <2>3. TypeOK'
    BY <2>1, <2>2 DEF IInv, TypeOK
  <2>4. Owned' /\ StoppedMeansGone'
    BY <2>1 DEF IInv, Owned, StoppedMeansGone, Live
  <2>5. OneStopper'
    BY <2>1, <2>2 DEF IInv, OneStopper, InStop, Live
  <2>6. StateFollows'
    BY <2>1, <2>2 DEF IInv, StateFollows, InStop
  <2>7. StopsAreOver'
    BY <2>1, <2>2 DEF IInv, StopsAreOver, Over, Live
  <2> QED BY <2>3, <2>4, <2>5, <2>6, <2>7 DEF IInv
<1>2. CASE StartSpawns(c)
  <2>1. /\ handle = 0 /\ stopping = 0 /\ pc[c] = "start"
        /\ newest + 1 \in Runs /\ newest' = newest + 1
        /\ handle' = newest + 1 /\ stopping' = 0
        /\ sup' = [sup EXCEPT ![newest + 1] = "top"]
        /\ pc' = [pc EXCEPT ![c] = "idle"]
        /\ backoff' = 0
        /\ UNCHANGED <<state, closed, cancelled, arg, spawned, stray>>
    BY <1>2 DEF StartSpawns, child, IInv, TypeOK, Runs
  <2>2. \A r \in Runs : ~Live(r)
    BY <2>1 DEF IInv, StoppedMeansGone
  <2>3. \A d \in Callers : ~InStop(d)
    BY <2>1 DEF IInv, OneStopper
  <2>4. \A d \in Callers : ~InStop(d)'
    BY <2>1, <2>3 DEF InStop, IInv, TypeOK
  <2>5. \A r \in Runs : r # newest + 1 => sup'[r] \in {"none", "done"}
    BY <2>1, <2>2 DEF Live, IInv, TypeOK
  <2>6. sup'[newest + 1] = "top"
    BY <2>1 DEF IInv, TypeOK
  <2>7. TypeOK'
    BY <2>1 DEF IInv, TypeOK, SupPlace, Place, Runs
  <2>8. Owned'
    BY <2>1, <2>5, <2>6 DEF Owned, Live
  <2>9. OneStopper'
    BY <2>4 DEF OneStopper, InStop
  <2>10. StateFollows'
    BY <2>4, <2>5, <2>6 DEF StateFollows, InStop
  <2>11. StoppedMeansGone'
    BY <2>1 DEF StoppedMeansGone, Runs
  <2>12. StopsAreOver'
    <3>1. \A r \in Runs : Over(r) => Over(r)'
      BY <2>1, <2>5 DEF Over, Live, IInv, TypeOK, Runs
    <3>2. \A d \in Callers : pc'[d] = "close" => pc[d] = "close"
      BY <2>1 DEF IInv, TypeOK
    <3> QED BY <2>1, <3>1, <3>2 DEF IInv, StopsAreOver, TypeOK
  <2> QED BY <2>7, <2>8, <2>9, <2>10, <2>11, <2>12 DEF IInv
<1> QED BY <1>1, <1>2

\* The steps of Stop on its way out or with nothing to stop: they let no
\* caller into the stretch where stopping is its own.
LEMMA StopAsideIInv ==
  ASSUME IInv, NEW c \in Callers,
         CallStop(c) \/ StopNothing(c) \/ StopWoken(c) \/ StopCloses(c)
  PROVE  IInv'
<1> USE MaxRunsAssumption
<1>1. /\ UNCHANGED <<state, handle, stopping, newest, backoff, sup, cancelled,
                     spawned, stray>>
      /\ pc' \in [Callers -> Place] /\ arg' \in [Callers -> 0..MaxRuns]
      /\ \A d \in Callers : d # c => pc'[d] = pc[d] /\ arg'[d] = arg[d]
      /\ ~InStop(c)
      /\ pc'[c] \in {"idle", "stop", "stopWait"}
  BY DEF CallStop, StopNothing, StopWoken, StopCloses, IInv, TypeOK, Place,
     InStop, handles, child
<1>2. \A r \in closed' : r \in closed \/ (pc[c] = "close" /\ r = arg[c])
  BY DEF CallStop, StopNothing, StopWoken, StopCloses, handles
<1>3. closed' \subseteq Runs
  BY <1>2 DEF IInv, TypeOK, StopsAreOver
<1>4. TypeOK'
  BY <1>1, <1>3 DEF IInv, TypeOK
<1>5. Owned' /\ StoppedMeansGone'
  BY <1>1 DEF IInv, Owned, StoppedMeansGone, Live
<1>6. OneStopper'
  BY <1>1 DEF IInv, OneStopper, InStop, Live
<1>7. StateFollows'
  BY <1>1 DEF IInv, StateFollows
<1>8. \A r : Over(r) => Over(r)'
  BY <1>1 DEF Over, Live
<1>9. StopsAreOver'
  BY <1>1, <1>2, <1>8 DEF IInv, StopsAreOver
<1> QED BY <1>4, <1>5, <1>6, <1>7, <1>9 DEF IInv

\* The steps of the Stop that took the handle.
LEMMA StopIInv ==
  ASSUME IInv, NEW c \in Callers,
         \/ StopTakes(c) \/ StopCancels(c) \/ StopJoins(c)
         \/ StopMarks(c) \/ StopClears(c)
  PROVE  IInv'
<1> USE MaxRunsAssumption
<1>1. CASE StopTakes(c)
  <2>1. /\ handle # 0 /\ handle = newest /\ stopping = 0
        /\ handle' = 0 /\ stopping' = newest
        /\ pc' = [pc EXCEPT ![c] = "join"] /\ arg' = [arg EXCEPT ![c] = newest]
        /\ UNCHANGED <<state, closed, newest, backoff, sup, cancelled, spawned,
                       stray>>
    BY <1>1 DEF StopTakes, child, IInv, Owned
  <2>2. \A d \in Callers : ~InStop(d)
    BY <2>1 DEF IInv, OneStopper
  <2>3. \A d \in Callers : InStop(d)' => d = c
    BY <2>1, <2>2 DEF InStop, IInv, TypeOK
  <2>4. pc'[c] = "join" /\ arg'[c] = newest
    BY <2>1 DEF IInv, TypeOK
  <2>5. TypeOK'
    BY <2>1 DEF IInv, TypeOK, Place
  <2>6. Owned' /\ StoppedMeansGone'
    BY <2>1 DEF IInv, Owned, StoppedMeansGone, Live
  <2>7. OneStopper'
    BY <2>1, <2>3, <2>4 DEF OneStopper, InStop
  <2>8. StateFollows'
    BY <2>1, <2>3, <2>4 DEF IInv, StateFollows, InStop
  <2>9. StopsAreOver'
    BY <2>1, <2>4 DEF IInv, StopsAreOver, Over, Live, TypeOK
  <2> QED BY <2>5, <2>6, <2>7, <2>8, <2>9 DEF IInv
<1>2. CASE StopCancels(c)
  <2>1. /\ UNCHANGED <<state, handle, stopping, closed, newest, backoff, sup,
                       spawned, stray, pc, arg>>
        /\ cancelled' \in [Runs -> BOOLEAN]
    BY <1>2 DEF StopCancels, handles, child, callers, IInv, TypeOK
  <2> QED BY <2>1 DEF IInv, TypeOK, Owned, OneStopper, InStop, StopsAreOver,
                      Over, StateFollows, StoppedMeansGone, Live
<1>3. CASE StopJoins(c) \/ StopMarks(c)
  <2>1. /\ UNCHANGED <<handle, stopping, closed, newest, backoff, sup,
                       cancelled, spawned, stray, arg>>
        /\ pc' \in [Callers -> Place]
        /\ \A d \in Callers : d # c => pc'[d] = pc[d]
        /\ pc'[c] \in {"mark", "clear"}
        /\ InStop(c)
    BY <1>3 DEF StopJoins, StopMarks, handles, child, IInv, TypeOK, Place,
       InStop
  <2>2. stopping # 0 /\ arg[c] = stopping
    BY <2>1 DEF IInv, OneStopper
  <2>3. \A r \in Runs : ~Live(r)
    <3>1. CASE StopJoins(c)
      BY <2>2, <3>1 DEF StopJoins, IInv, Owned, TypeOK, Live
    <3>2. CASE StopMarks(c)
      BY <3>2 DEF StopMarks, IInv, OneStopper
    <3> QED BY <1>3, <3>1, <3>2
  <2>4. state' \in States /\ (pc'[c] = "clear" => state' = "stopped")
    BY <1>3 DEF StopJoins, StopMarks, States, IInv, TypeOK
  <2>5. \A d \in Callers : InStop(d) => d = c
    BY <2>1 DEF IInv, OneStopper
  <2>6. TypeOK'
    BY <2>1, <2>4 DEF IInv, TypeOK
  <2>7. Owned' /\ StoppedMeansGone'
    BY <2>1, <2>2 DEF IInv, Owned, StoppedMeansGone, Live
  <2>8. OneStopper'
    BY <2>1, <2>2, <2>3, <2>5 DEF OneStopper, InStop, Live
  <2>9. StateFollows'
    BY <2>1, <2>3, <2>4, <2>5 DEF StateFollows, InStop, Live
  <2>10. StopsAreOver'
    BY <2>1 DEF IInv, StopsAreOver, Over, Live
  <2> QED BY <2>6, <2>7, <2>8, <2>9, <2>10 DEF IInv
<1>4. CASE StopClears(c)
  <2>1. /\ pc[c] = "clear" /\ stopping' = 0
        /\ pc' = [pc EXCEPT ![c] = "close"]
        /\ UNCHANGED <<state, handle, closed, newest, backoff, sup, cancelled,
                       spawned, stray, arg>>
    BY <1>4 DEF StopClears, child
  <2>2. /\ stopping = newest /\ stopping # 0 /\ arg[c] = stopping
        /\ handle = 0 /\ state = "stopped" /\ \A r \in Runs : ~Live(r)
    BY <2>1 DEF IInv, Owned, OneStopper, InStop, StateFollows
  <2>3. \A d \in Callers : ~InStop(d)'
    BY <2>1 DEF IInv, OneStopper, InStop, TypeOK
  <2>4. TypeOK'
    BY <2>1 DEF IInv, TypeOK, Place
  <2>5. Owned' /\ StoppedMeansGone'
    BY <2>1, <2>2 DEF Owned, StoppedMeansGone, Live
  <2>6. OneStopper'
    BY <2>3 DEF OneStopper, InStop
  <2>7. StateFollows'
    BY <2>1, <2>3 DEF IInv, StateFollows, InStop
  <2>8. StopsAreOver'
    BY <2>1, <2>2 DEF IInv, StopsAreOver, Over, Live, TypeOK, Runs
  <2> QED BY <2>4, <2>5, <2>6, <2>7, <2>8 DEF IInv
<1> QED BY <1>1, <1>2, <1>3, <1>4

LEMMA StutterIInv == ASSUME IInv, UNCHANGED vars PROVE IInv'
  BY DEF vars, IInv, TypeOK, Owned, OneStopper, InStop, StopsAreOver, Over,
     StateFollows, StoppedMeansGone, Live

-----------------------------------------------------------------------------

\* The inductive invariant: every step of every caller and of every run
\* keeps the ownership of the run at work.
THEOREM Inductive == Spec => []IInv
<1>1. IInv /\ [Next]_vars => IInv'
  <2> SUFFICES ASSUME IInv, [Next]_vars PROVE IInv'
    OBVIOUS
  <2>1. CASE UNCHANGED vars
    BY <2>1, StutterIInv
  <2>2. CASE \E c \in Callers : CallStart(c) \/ CallStop(c) \/ CallerStep(c)
    BY <2>2, StartIInv, StopAsideIInv, StopIInv DEF CallerStep
  <2>3. CASE \E r \in Runs : SupStep(r) \/ ChildStep(r)
    BY <2>3, SupStepIInv
  <2> QED BY <2>1, <2>2, <2>3 DEF Next
<1> QED BY InitIInv, <1>1, PTL DEF Spec

\* Every variable keeps its kind, for every set of callers and every number
\* of runs of supervise.go's Process.
THEOREM TypeCorrect == Spec => []TypeOK
  BY Inductive, PTL DEF IInv

\* Never two supervise goroutines at work, and so never two children: what
\* the stopping channel of Start and Stop is there for.
THEOREM OneChild == Spec => []AtMostOneChild
<1>1. IInv => AtMostOneChild
  BY DEF IInv, Owned, AtMostOneChild
<1> QED BY <1>1, Inductive, PTL

\* State() never says stopped of a child that is there.
THEOREM TruthfulState == Spec => []StateTellsTheTruth
<1>1. IInv => StateTellsTheTruth
  BY DEF IInv, StateFollows, StateTellsTheTruth, Alive
<1> QED BY <1>1, Inductive, PTL

\* With nothing held and nothing stopping, nothing runs and the state is
\* stopped.
THEOREM StoppedIsGone == Spec => []StoppedMeansGone
  BY Inductive, PTL DEF IInv

\* No caller returns from Stop while a run its Stop was about is at work:
\* neither the one that took the handle nor one that only waited for it.
THEOREM StopWaits == Spec => StopWaitsForTheEnd
<1> DEFINE Returns ==
      \A c \in Callers :
        pc[c] \in {"stop", "stopWait", "close"} /\ pc'[c] = "idle"
          => /\ pc[c] = "stop" => \A r \in Runs : ~Live(r)
             /\ \A r \in Runs : r <= arg'[c] => ~Live(r)
<1>1. IInv /\ [Next]_vars => [Returns]_vars
  <2> SUFFICES ASSUME IInv, Next, NEW c \in Callers,
                      pc[c] \in {"stop", "stopWait", "close"}, pc'[c] = "idle"
               PROVE  /\ pc[c] = "stop" => \A r \in Runs : ~Live(r)
                      /\ \A r \in Runs : r <= arg'[c] => ~Live(r)
    OBVIOUS
  <2>1. StopNothing(c) \/ StopWoken(c) \/ StopCloses(c)
    <3>1. PICK d \in Callers : CallStart(d) \/ CallStop(d) \/ CallerStep(d)
      BY DEF Next, SupStep, ChildStep, SupTop, SupRunning, ChildStarts,
         ChildCannotStart, ChildSignalled, ChildReaped, SupAfter, SupGivesUp,
         SupRestarting, SupWaited, SupWaitCancelled, ChildSpawns, ChildExits,
         callers
    <3>2. d = c
      BY <3>1 DEF CallStart, CallStop, CallerStep, StartAlready, StartMustWait,
         StartWoken, StartSpawns, StopNothing, StopWoken, StopTakes,
         StopCancels, StopJoins, StopMarks, StopClears, StopCloses, callers,
         IInv, TypeOK
    <3> QED BY <3>1, <3>2 DEF CallStart, CallStop, CallerStep, StartAlready,
          StartMustWait, StartWoken, StartSpawns, StopTakes, StopCancels,
          StopJoins, StopMarks, StopClears, callers, IInv, TypeOK
  <2>2. CASE StopNothing(c)
    BY <2>2 DEF StopNothing, IInv, StoppedMeansGone, TypeOK
  <2>3. CASE StopWoken(c)
    BY <2>3 DEF StopWoken, IInv, StopsAreOver, Over
  <2>4. CASE StopCloses(c)
    BY <2>4 DEF StopCloses, IInv, StopsAreOver, Over
  <2> QED BY <2>1, <2>2, <2>3, <2>4
<1> QED BY <1>1, Inductive, PTL DEF Spec, StopWaitsForTheEnd

-----------------------------------------------------------------------------
(* What the daemon relies on: every step is one HelperPromise allows, or     *)
(* none of its business.                                                     *)

LEMMA CallerPromise ==
  ASSUME IInv, NEW c \in Callers, CallStart(c) \/ CallStop(c) \/ CallerStep(c)
  PROVE  [Promise!Next]_(Promise!vars)
<1> DEFINE there == \E r \in Runs : Alive(r)
<1>1. sup' = sup
      \/ StartSpawns(c)
  BY DEF CallStart, CallStop, CallerStep, StartAlready, StartMustWait,
     StartWoken, StopNothing, StopWoken, StopTakes, StopCancels, StopJoins,
     StopMarks, StopClears, StopCloses
<1>2. CASE StartSpawns(c)
  <2>1. /\ newest + 1 \in Runs /\ handle' = newest + 1 /\ handle = 0
        /\ stopping = 0 /\ sup' = [sup EXCEPT ![newest + 1] = "top"]
    BY <1>2, MaxRunsAssumption DEF StartSpawns, Runs, IInv, TypeOK
  <2>2. ~Live(newest + 1)
    BY <2>1 DEF IInv, StoppedMeansGone
  <2>3. there' <=> there
    BY <2>1, <2>2 DEF IInv, TypeOK, Alive, Live
  <2>4. handle' # 0
    BY <2>1 DEF Runs
  <2> QED BY <2>1, <2>3, <2>4 DEF Promise!Next, Promise!Begin, phaseOf
<1>3. CASE StopTakes(c)
  <2>1. /\ handle # 0 /\ handle' = 0 /\ stopping' = handle /\ sup' = sup
    BY <1>3 DEF StopTakes
  <2>2. there' <=> there
    BY <2>1 DEF Alive
  <2> QED BY <2>1, <2>2 DEF Promise!Next, Promise!End, phaseOf
<1>4. CASE StopClears(c)
  <2>1. pc[c] = "clear" /\ handle' = handle /\ stopping' = 0 /\ sup' = sup
    BY <1>4 DEF StopClears
  <2>2. stopping # 0 /\ handle = 0 /\ \A r \in Runs : ~Live(r)
    BY <2>1 DEF IInv, Owned, OneStopper, InStop
  <2>3. ~there /\ ~there'
    BY <2>1, <2>2 DEF Alive, Live
  <2> QED BY <2>1, <2>2, <2>3 DEF Promise!Next, Promise!Gone, phaseOf
<1>5. CASE ~StartSpawns(c) /\ ~StopTakes(c) /\ ~StopClears(c)
  <2>1. UNCHANGED <<handle, stopping>>
    BY <1>5 DEF CallStart, CallStop, CallerStep, StartAlready, StartMustWait,
       StartWoken, StopNothing, StopWoken, StopCancels, StopJoins, StopMarks,
       StopCloses, handles
  <2>2. there' <=> there
    BY <1>1, <1>5 DEF Alive
  <2> QED BY <2>1, <2>2 DEF Promise!vars, phaseOf
<1> QED BY <1>2, <1>3, <1>4, <1>5

LEMMA RunPromise ==
  ASSUME IInv, NEW r \in Runs, SupStep(r) \/ ChildStep(r)
  PROVE  [Promise!Next]_(Promise!vars)
<1> DEFINE there == \E s \in Runs : Alive(s)
<1>1. /\ UNCHANGED <<handle, stopping>>
      /\ \A s \in Runs : s # r => sup'[s] = sup[s]
  BY DEF SupStep, ChildStep, SupTop, SupRunning, ChildStarts, ChildCannotStart,
     ChildSignalled, ChildReaped, SupAfter, SupGivesUp, SupRestarting,
     SupWaited, SupWaitCancelled, ChildSpawns, ChildExits, SupGo, handles,
     IInv, TypeOK
<1>2. Live(r)
  BY DEF SupStep, ChildStep, SupTop, SupRunning, ChildStarts, ChildCannotStart,
     ChildSignalled, ChildReaped, SupAfter, SupGivesUp, SupRestarting,
     SupWaited, SupWaitCancelled, ChildSpawns, ChildExits, SupGo, Live
<1>3. /\ phaseOf # "off" /\ phaseOf' = phaseOf
      /\ \A s \in Runs : s # r => ~Alive(s) /\ ~Alive(s)'
  <2>1. \A s \in Runs : s # r => ~Live(s)
    BY <1>2 DEF IInv, Owned
  <2>2. handle # 0 \/ stopping # 0
    BY <1>2 DEF IInv, StoppedMeansGone
  <2> QED BY <1>1, <2>1, <2>2 DEF phaseOf, Live, Alive
<1>4. (there <=> Alive(r)) /\ (there' <=> Alive(r)')
  BY <1>3
<1>5. CASE ~Alive(r) /\ Alive(r)'
  BY <1>3, <1>4, <1>5 DEF Promise!Next, Promise!ChildComes
<1>6. CASE Alive(r) /\ ~Alive(r)'
  BY <1>3, <1>4, <1>6 DEF Promise!Next, Promise!ChildGoes
<1>7. CASE Alive(r)' <=> Alive(r)
  BY <1>3, <1>4, <1>7 DEF Promise!vars
<1> QED BY <1>5, <1>6, <1>7

\* The seat manager stops a broker and counts on what supervise.go's Stop then
\* left: every behaviour of Process is one HelperPromise allows, for every set
\* of callers and any number of runs.  That a stop ends is left to the runs.
THEOREM PromiseSteps == Spec => Promise!Steps
<1>1. Init => Promise!Init
  BY DEF Init, Promise!Init, phaseOf, Alive
<1>2. IInv /\ [Next]_vars => [Promise!Next]_(Promise!vars)
  <2> SUFFICES ASSUME IInv, [Next]_vars PROVE [Promise!Next]_(Promise!vars)
    OBVIOUS
  <2>1. CASE UNCHANGED vars
    BY <2>1 DEF vars, Promise!vars, phaseOf, Alive
  <2>2. CASE Next
    BY <2>2, CallerPromise, RunPromise DEF Next
  <2> QED BY <2>1, <2>2
<1> QED BY <1>1, <1>2, Inductive, PTL DEF Spec, Promise!Steps

-----------------------------------------------------------------------------
(* The input broker and the observer of uhid devices (InputDevices), which  *)
(* run under this supervision: what a seat is given and what it keeps, for  *)
(* any seats, any number of devices and nodes, and however often the        *)
(* observer and the brokers end.                                            *)

PerDevice(f) == f = [d \in Devices |-> f[d]]
PerSeat(f) == f = [s \in Seats |-> f[s]]
Placed(d) == device[d].at \in {"making", "there"}
Whole(d) ==
  device[d] = [made |-> device[d].made, by |-> device[d].by, at |-> device[d].at,
               node |-> device[d].node, slot |-> device[d].slot,
               number |-> device[d].number]

\* A node has one device, from when it is asked for until it is gone.
KernelKnows ==
  /\ PerDevice(device)
  /\ \A d \in Devices :
       /\ Whole(d) /\ device[d].made \in Makers
       /\ device[d].at = "making" => device[d].by = "uhid"
       /\ device[d].at # "none" => device[d].node \in Nodes
  /\ \A d, e \in Devices :
       Placed(d) /\ Placed(e) /\ device[d].node = device[e].node => d = e

\* A device that says who made it goes on saying so, and a creation no other
\* came near of is the only one the observer can take its device for.
Says(d) ==
  /\ d \in Devices /\ There(d)
  /\ \/ device[d].by = "uinput"
     \/ /\ device[d].by = "uhid" /\ observer = "live"
        /\ d \in claimed /\ record[d] = device[d].made
Lonely(d) ==
  /\ d \in Devices /\ device[d].at # "none" /\ device[d].by = "uhid"
  /\ observer = "live" /\ looking = {d} /\ d \notin claimed
  /\ Unclaimed \subseteq {d}
  /\ \A e \in Devices : device[e].at = "making" => e = d
ObserverKnows ==
  /\ PerDevice(record) /\ claimed \subseteq Uhids
  /\ \A d \in sure : Says(d)
  /\ \A d \in alone : Lonely(d)

\* What a pass has found of them it takes for the seat's exactly if it is.
PassKnows(s) ==
  /\ \A d \in sighted[s] : d \in Devices /\ There(d) /\ d \notin alone
  /\ broker[s] \in {"off", "idle"} => sighted[s] = {}
  /\ broker[s] = "scanned" =>
       /\ sighted[s] \subseteq found[s]
       /\ \A d \in found[s] : d \in Devices /\ device[d].at # "none"
       /\ \A d, e \in found[s] : device[d].node = device[e].node => d = e
  /\ broker[s] = "attaching" =>
       /\ \A d \in sighted[s] \cap sure :
            (current[s][device[d].node] # None) <=> (device[d].made = s)
       /\ \A n \in todo[s] : current[s][n] # None

\* What is attached is known from the last pass or taken by this one, or Incus has
\* refused to take it out, unless a broker that goes by names has been started again.
SeatHolds(s) ==
  s \notin ended \cap Tagging =>
    /\ broker[s] # "off" => \A n \in attached[s] \ refused[s] :
         \/ known[s][n] # None
         \/ broker[s] = "attaching" /\ current[s][n] # None
    /\ broker[s] = "off" /\ s \notin ended => attached[s] = {}

SeatsShaped ==
  /\ PerSeat(broker) /\ PerSeat(found) /\ PerSeat(current) /\ PerSeat(known)
  /\ PerSeat(todo) /\ PerSeat(attached) /\ PerSeat(refused) /\ PerSeat(sighted)
  /\ \A s \in Seats : attached[s] \subseteq Nodes /\ todo[s] \subseteq Nodes
  /\ \A s \in Seats : broker[s] \in {"off", "idle", "scanned", "attaching"}

DevicesInv ==
  /\ KernelKnows /\ ObserverKnows /\ SeatsShaped
  /\ \A s \in Seats : PassKnows(s) /\ SeatHolds(s)

-----------------------------------------------------------------------------

LEMMA LowestIs ==
  ASSUME NEW T, T \subseteq Nat, T # {} PROVE Lowest(T) \in T
<1> DEFINE R == {p \in Nat \X Nat : p[1] < p[2]}
<1>1. IsWellFoundedOn(R, Nat)
  BY NatLessThanWellFounded, Zenon DEF OpToRel
<1>2. \A x, y \in Nat : <<y, x>> \in R <=> y < x
  OBVIOUS
<1> HIDE DEF R
<1>3. PICK x \in T : \A y \in T : ~ (<<y, x>> \in R)
  BY <1>1, WFMin
<1>4. ASSUME NEW y \in T PROVE x <= y
  <2>1. x \in Nat /\ y \in Nat /\ <<y, x>> \notin R
    BY <1>3
  <2>2. ~(y < x)
    BY <1>2, <2>1
  <2> QED BY <2>1, <2>2
<1> QED BY <1>4 DEF Lowest

LEMMA InitDevices == DeviceInit => DevicesInv
<1> SUFFICES ASSUME DeviceInit PROVE DevicesInv
  OBVIOUS
<1>1. /\ device = [d \in Devices |-> NoDevice]
      /\ record = [d \in Devices |-> "unknown"]
      /\ claimed = {} /\ sure = {} /\ alone = {} /\ looking = {}
  BY DEF DeviceInit
<1>2. /\ broker = [s \in Seats |-> "off"] /\ found = [s \in Seats |-> {}]
      /\ todo = [s \in Seats |-> {}] /\ attached = [s \in Seats |-> {}]
      /\ refused = attached
      /\ sighted = [s \in Seats |-> {}] /\ ended = {}
      /\ current = [s \in Seats |-> Nothing] /\ known = current
  BY DEF DeviceInit
<1>3. KernelKnows
  BY <1>1 DEF KernelKnows, PerDevice, Whole, Placed, NoDevice, Makers
<1>4. ObserverKnows
  BY <1>1 DEF ObserverKnows, PerDevice
<1>5. SeatsShaped /\ \A s \in Seats : PassKnows(s) /\ SeatHolds(s)
  BY <1>2 DEF SeatsShaped, PerSeat, PassKnows, SeatHolds
<1> QED BY <1>3, <1>4, <1>5 DEF DevicesInv

-----------------------------------------------------------------------------
(* The kernel.                                                              *)

\* What a step of the kernel leaves as it was, for who is there already.
Same(d) ==
  /\ device'[d].made = device[d].made /\ device'[d].by = device[d].by
  /\ device'[d].node = device[d].node

LEMMA KernelFrame ==
  ASSUME DevicesInv,
         UNCHANGED <<broker, found, current, known, todo, attached, refused, ended>>,
         \A d \in Devices : device[d].at # "none" => Same(d) /\ device'[d].at # "none",
         \A s \in Seats : sighted'[s] \subseteq sighted[s],
         \A s \in Seats : \A d \in sighted'[s] : device'[d].at = "there" /\ d \notin alone',
         PerSeat(sighted)',
         sure' \cap {d \in Devices : device[d].at = "there"} \subseteq sure
  PROVE  SeatsShaped' /\ \A s \in Seats : (PassKnows(s) /\ SeatHolds(s))'
<1>1. SeatsShaped'
  BY DEF DevicesInv, SeatsShaped, PerSeat, Nodes
<1>2. ASSUME NEW s \in Seats PROVE PassKnows(s)'
  <2>0. PassKnows(s)
    BY DEF DevicesInv
  <2>1. \A d \in sighted'[s] : d \in sighted[s] /\ d \in Devices /\ There(d) /\ Same(d)
    BY <2>0 DEF PassKnows, There
  <2>2. (\A d \in sighted[s] : d \in Devices /\ There(d) /\ d \notin alone)'
    BY <2>1 DEF There, Devices
  <2>3. (broker[s] \in {"off", "idle"} => sighted[s] = {})'
    BY <2>0 DEF PassKnows
  <2>4. ASSUME broker'[s] = "scanned"
        PROVE  /\ sighted'[s] \subseteq found'[s]
               /\ \A d \in found'[s] : d \in Devices /\ device'[d].at # "none"
               /\ \A d, e \in found'[s] : device'[d].node = device'[e].node => d = e
    <3>1. /\ sighted[s] \subseteq found[s]
          /\ \A d \in found[s] : d \in Devices /\ device[d].at # "none"
          /\ \A d, e \in found[s] : device[d].node = device[e].node => d = e
      BY <2>0, <2>4 DEF PassKnows
    <3>2. \A d \in found[s] : Same(d) /\ device'[d].at # "none"
      BY <3>1
    <3> QED BY <2>1, <3>1, <3>2 DEF Same
  <2>5. ASSUME broker'[s] = "attaching"
        PROVE  /\ \A d \in sighted'[s] \cap sure' :
                    (current'[s][device'[d].node] # None) <=> (device'[d].made = s)
               /\ \A n \in todo'[s] : current'[s][n] # None
    <3>1. /\ \A d \in sighted[s] \cap sure :
               (current[s][device[d].node] # None) <=> (device[d].made = s)
          /\ \A n \in todo[s] : current[s][n] # None
      BY <2>0, <2>5 DEF PassKnows
    <3>2. \A d \in sighted'[s] \cap sure' : d \in sighted[s] \cap sure /\ Same(d)
      BY <2>1 DEF There
    <3> QED BY <3>1, <3>2 DEF Same
  <2> QED BY <2>2, <2>3, <2>4, <2>5 DEF PassKnows, None, Devices
<1>3. ASSUME NEW s \in Seats PROVE SeatHolds(s)'
  BY <1>3 DEF DevicesInv, SeatHolds, None
<1> QED BY <1>1, <1>2, <1>3

\* A device is made under a number and at a node nobody has.
LEMMA NewcomerIs ==
  ASSUME KernelKnows,
         \E d \in Devices : device[d].at = "none", \E n \in Nodes : Free(n),
         NEW c \in Makers, NEW how, NEW where \in {"making", "there"}, NEW slot,
         where = "making" => how = "uhid",
         device' = [device EXCEPT ![NewDevice] =
           [made |-> c, by |-> how, at |-> where, slot |-> slot,
            node |-> Lowest({n \in Nodes : Free(n)}), number |-> None]]
  PROVE  /\ KernelKnows'
         /\ NewDevice \in Devices /\ device[NewDevice].at = "none"
         /\ device'[NewDevice].at = where /\ device'[NewDevice].by = how
         /\ \A d \in Devices : d # NewDevice => device'[d] = device[d]
<1>1. NewDevice \in {d \in Devices : device[d].at = "none"}
  <2>1. {d \in Devices : device[d].at = "none"} \subseteq Nat
    BY DEF Devices
  <2> QED BY <2>1, LowestIs DEF NewDevice
<1>2. Lowest({n \in Nodes : Free(n)}) \in {n \in Nodes : Free(n)}
  <2>1. {n \in Nodes : Free(n)} \subseteq Nat
    BY DEF Nodes
  <2>2. {n \in Nodes : Free(n)} # {}
    OBVIOUS
  <2> QED BY <2>1, <2>2, LowestIs
<1>3. PICK new \in Devices, n0 \in Nodes :
        /\ new = NewDevice /\ device[new].at = "none" /\ Free(n0)
        /\ device' = [device EXCEPT ![new] =
             [made |-> c, by |-> how, at |-> where, slot |-> slot, node |-> n0,
              number |-> None]]
  BY <1>1, <1>2
<1>4. /\ PerDevice(device)'
      /\ device'[new] = [made |-> c, by |-> how, at |-> where, slot |-> slot, node |-> n0,
                         number |-> None]
      /\ \A d \in Devices : d # new => device'[d] = device[d]
  BY <1>3 DEF KernelKnows, PerDevice, Devices
<1>5. /\ device'[new].made = c /\ device'[new].by = how /\ device'[new].at = where
      /\ device'[new].node = n0 /\ Whole(new)'
  <2>1. /\ device'[new].made = c /\ device'[new].by = how /\ device'[new].at = where
        /\ device'[new].node = n0 /\ device'[new].slot = slot
        /\ device'[new].number = None
    BY <1>4
  <2>2. Whole(new)'
    BY <1>4, <2>1, Zenon DEF Whole
  <2> QED BY <2>1, <2>2
<1>6. \A d \in Devices :
        /\ Whole(d)' /\ device'[d].made \in Makers
        /\ device'[d].at = "making" => device'[d].by = "uhid"
        /\ device'[d].at # "none" => device'[d].node \in Nodes
  <2> SUFFICES ASSUME NEW d \in Devices
               PROVE  /\ Whole(d)' /\ device'[d].made \in Makers
                      /\ device'[d].at = "making" => device'[d].by = "uhid"
                      /\ device'[d].at # "none" => device'[d].node \in Nodes
    OBVIOUS
  <2>1. CASE d = new
    <3>1. Whole(new)' /\ device'[new].made \in Makers /\ device'[new].node \in Nodes
      BY <1>5
    <3>2. device'[new].at = "making" => device'[new].by = "uhid"
      BY <1>5
    <3> QED BY <2>1, <3>1, <3>2, Zenon
  <2>2. CASE d # new
    BY <1>4, <2>2 DEF KernelKnows, Whole, Placed
  <2> QED BY <2>1, <2>2
<1>7. \A d \in Devices : d # new /\ Placed(d) => device[d].node # n0
  BY <1>3 DEF Free, Placed
<1>8. \A d, e \in Devices :
        Placed(d)' /\ Placed(e)' /\ device'[d].node = device'[e].node => d = e
  <2> SUFFICES ASSUME NEW d \in Devices, NEW e \in Devices,
                      Placed(d)', Placed(e)', device'[d].node = device'[e].node
               PROVE  d = e
    OBVIOUS
  <2>1. CASE d # new /\ e # new
    BY <1>4, <2>1 DEF KernelKnows, Placed
  <2>2. CASE d = new \/ e = new
    BY <1>4, <1>5, <1>7, <2>2 DEF Placed
  <2> QED BY <2>1, <2>2
<1>9. KernelKnows'
  BY <1>4, <1>6, <1>8 DEF KernelKnows, Devices, Makers, Nodes
<1> QED BY <1>1, <1>3, <1>4, <1>5, <1>9

LEMMA MakesUhid ==
  ASSUME DevicesInv, NEW c \in Makers, MakeUhid(c)
  PROVE  DevicesInv'
<1>0. KernelKnows /\ ObserverKnows
  BY DEF DevicesInv
<1>a. PICK new : new = NewDevice
  OBVIOUS
<1>1. /\ UNCHANGED <<observer, claimed, record, broker, found, current, known, todo, sighted,
                     attached, refused, sure, ended>>
      /\ looking' = IF observer \in {"attached", "live"} THEN looking \cup {new} ELSE looking
      /\ alone' = IF observer = "live" /\ Clear THEN {new} ELSE {}
  BY <1>a DEF MakeUhid, pass, inSeats
<1>2. /\ KernelKnows'
      /\ new \in Devices /\ device[new].at = "none"
      /\ device'[new].at = "making" /\ device'[new].by = "uhid"
      /\ \A d \in Devices : d # new => device'[d] = device[d]
  BY <1>0, <1>a, NewcomerIs DEF MakeUhid
<1>3. Uhids' = Uhids
  BY <1>2 DEF Uhids, There, Devices
<1>4. \A d \in sure : Says(d)'
  BY <1>0, <1>1, <1>2 DEF ObserverKnows, Says, There, Devices
<1>5. \A d \in alone' : Lonely(d)'
  <2> SUFFICES ASSUME observer = "live", Clear, alone' = {new} PROVE Lonely(new)'
    BY <1>1
  <2>1. looking' = {new} /\ observer' = "live"
    BY <1>1 DEF Clear
  <2>2. new \notin claimed'
    BY <1>0, <1>1, <1>2 DEF ObserverKnows, Uhids, There
  <2>3. \A e \in Devices : device[e].at # "making"
    BY <1>0 DEF Clear, Open, There, KernelKnows
  <2>4. (Unclaimed \subseteq {new})'
    BY <1>1, <1>3 DEF Clear, Unclaimed
  <2>5. (\A e \in Devices : device[e].at = "making" => e = new)'
    BY <1>2, <2>3 DEF Devices
  <2>6. new \in Devices' /\ device'[new].at # "none"
    BY <1>2 DEF Devices
  <2> QED BY <1>2, <2>1, <2>2, <2>4, <2>5, <2>6, Zenon DEF Lonely
<1>6. ObserverKnows'
  BY <1>0, <1>1, <1>3, <1>4, <1>5 DEF ObserverKnows, PerDevice, Devices
<1>7. \A d \in Devices : device[d].at # "none" => Same(d) /\ device'[d].at # "none"
  BY <1>2 DEF Same
<1>8. \A s \in Seats : \A d \in sighted'[s] : device'[d].at = "there" /\ d \notin alone'
  BY <1>1, <1>2 DEF DevicesInv, PassKnows, There
<1>9. SeatsShaped' /\ \A s \in Seats : (PassKnows(s) /\ SeatHolds(s))'
  BY <1>1, <1>7, <1>8, KernelFrame DEF DevicesInv, SeatsShaped, PerSeat
<1> QED BY <1>2, <1>6, <1>9 DEF DevicesInv

LEMMA MakesUinput ==
  ASSUME DevicesInv, NEW c \in Makers, MakeUinput(c)
  PROVE  DevicesInv'
<1>0. KernelKnows /\ ObserverKnows
  BY DEF DevicesInv
<1>a. PICK new : new = NewDevice
  OBVIOUS
<1>1. /\ UNCHANGED <<observer, claimed, looking, record, broker, found, current, known, todo,
                     sighted, attached, refused, alone, ended>>
      /\ sure' = sure \cup {new}
  BY <1>a DEF MakeUinput, observing, pass, inSeats
<1>2. /\ KernelKnows'
      /\ new \in Devices /\ device[new].at = "none"
      /\ device'[new].at = "there" /\ device'[new].by = "uinput"
      /\ \A d \in Devices : d # new => device'[d] = device[d]
  BY <1>0, <1>a, NewcomerIs DEF MakeUinput
<1>3. Uhids' = Uhids
  BY <1>2 DEF Uhids, There, Devices
<1>4. \A d \in sure' : Says(d)'
  BY <1>0, <1>1, <1>2 DEF ObserverKnows, Says, There, Devices
<1>5. \A d \in alone' : Lonely(d)'
  <2> SUFFICES ASSUME NEW d \in alone PROVE Lonely(d)'
    BY <1>1
  <2>1. Lonely(d) /\ d # new
    BY <1>0, <1>2 DEF ObserverKnows, Lonely
  <2>2. Unclaimed' = Unclaimed
    BY <1>1, <1>3 DEF Unclaimed
  <2> QED BY <1>1, <1>2, <2>1, <2>2 DEF Lonely, Devices
<1>6. ObserverKnows'
  BY <1>0, <1>1, <1>3, <1>4, <1>5 DEF ObserverKnows, PerDevice, Devices
<1>7. \A d \in Devices : device[d].at # "none" => Same(d) /\ device'[d].at # "none"
  BY <1>2 DEF Same
<1>8. \A s \in Seats : \A d \in sighted'[s] : device'[d].at = "there" /\ d \notin alone'
  BY <1>1, <1>2 DEF DevicesInv, PassKnows, There
<1>9. SeatsShaped' /\ \A s \in Seats : (PassKnows(s) /\ SeatHolds(s))'
  BY <1>1, <1>2, <1>7, <1>8, KernelFrame DEF DevicesInv, SeatsShaped, PerSeat
<1> QED BY <1>2, <1>6, <1>9 DEF DevicesInv

\* A device that appears is one that was being made.
LEMMA IsNumbered ==
  ASSUME DevicesInv, NEW x \in Devices, Numbered(x)
  PROVE  DevicesInv'
<1>0. KernelKnows /\ ObserverKnows
  BY DEF DevicesInv
<1>1. /\ UNCHANGED <<observer, claimed, looking, record, broker, found, current, known, todo,
                     sighted, attached, refused, alone, sure, ended>>
      /\ device[x].at = "making"
      /\ \E k : device' = [device EXCEPT ![x].at = "there", ![x].number = k]
  BY DEF Numbered, observing, pass, inSeats, certain
<1>2. /\ PerDevice(device)' /\ Whole(x)' /\ Same(x) /\ device'[x].at = "there"
      /\ \A d \in Devices : d # x => device'[d] = device[d]
  <2>1. PICK k : device' = [device EXCEPT ![x].at = "there", ![x].number = k]
    BY <1>1
  <2>2. device'[x] = [made |-> device[x].made, by |-> device[x].by, at |-> "there",
                      node |-> device[x].node, slot |-> device[x].slot, number |-> k]
    <3>1. PICK f : f = [device EXCEPT ![x].at = "there"]
      OBVIOUS
    <3>2. f[x] = [made |-> device[x].made, by |-> device[x].by, at |-> "there",
                  node |-> device[x].node, slot |-> device[x].slot,
                  number |-> device[x].number]
      BY <1>0, <3>1 DEF KernelKnows, PerDevice, Whole, Devices
    <3>3. device' = [f EXCEPT ![x].number = k]
      BY <2>1, <3>1
    <3>4. x \in DOMAIN f
      BY <1>0, <3>1 DEF KernelKnows, PerDevice, Devices
    <3> QED BY <3>2, <3>3, <3>4
  <2>3. PerDevice(device)' /\ \A d \in Devices : d # x => device'[d] = device[d]
    BY <1>0, <2>1 DEF KernelKnows, PerDevice, Devices
  <2> QED BY <2>2, <2>3 DEF Whole, Same
<1>3. \A d \in Devices : Same(d) /\ (Placed(d)' <=> Placed(d))
  BY <1>1, <1>2 DEF Same, Placed
<1>4. KernelKnows'
  <2>1. \A d \in Devices : Whole(d)'
    BY <1>0, <1>2 DEF KernelKnows, Whole
  <2>2. \A d \in Devices : device'[d].at = "making" => device'[d].by = "uhid"
    BY <1>0, <1>2 DEF KernelKnows, Same
  <2>3. \A d, e \in Devices :
          Placed(d)' /\ Placed(e)' /\ device'[d].node = device'[e].node => d = e
    BY <1>0, <1>3 DEF KernelKnows, Same
  <2>4. \A d \in Devices : device'[d].at # "none" => device[d].at # "none"
    BY <1>1, <1>2 DEF Placed
  <2>5. \A d \in Devices :
          /\ device'[d].made \in Makers
          /\ device'[d].at # "none" => device'[d].node \in Nodes
    BY <1>0, <1>3, <2>4 DEF KernelKnows, Same
  <2> QED BY <1>2, <2>1, <2>2, <2>3, <2>5
          DEF KernelKnows, Devices, Nodes, Makers
<1>5. Uhids' = Uhids \cup {x}
  BY <1>0, <1>1, <1>2 DEF Uhids, There, Devices, KernelKnows, Same
<1>6. \A d \in sure : Says(d)'
  BY <1>0, <1>1, <1>2 DEF ObserverKnows, Says, There, Devices
<1>7. ASSUME NEW d \in alone PROVE Lonely(d)'
  <2>1. Lonely(d)
    BY <1>0 DEF ObserverKnows
  <2>2. x = d
    BY <1>1, <2>1 DEF Lonely
  <2>3. (Unclaimed \subseteq {d})'
    BY <1>1, <1>5, <2>1, <2>2 DEF Unclaimed, Lonely
  <2>4. (\A e \in Devices : device[e].at = "making" => e = d)'
    BY <1>2, <2>1 DEF Lonely, Devices
  <2>5. d \in Devices' /\ device'[d].at # "none" /\ device'[d].by = "uhid"
    BY <1>2, <2>1, <2>2 DEF Lonely, Same, Devices
  <2> QED BY <1>1, <2>1, <2>3, <2>4, <2>5 DEF Lonely
<1>8. ObserverKnows'
  BY <1>0, <1>1, <1>5, <1>6, <1>7 DEF ObserverKnows, PerDevice, Devices
<1>9. \A d \in Devices : device[d].at # "none" => Same(d) /\ device'[d].at # "none"
  BY <1>2, <1>3
<1>10. \A s \in Seats : \A d \in sighted'[s] : device'[d].at = "there" /\ d \notin alone'
  <2>1. \A s \in Seats : \A d \in sighted[s] :
          d \in Devices /\ device[d].at = "there" /\ d \notin alone
    BY DEF DevicesInv, PassKnows, There
  <2> QED BY <1>1, <1>2, <2>1
<1>11. SeatsShaped' /\ \A s \in Seats : (PassKnows(s) /\ SeatHolds(s))'
  BY <1>1, <1>9, <1>10, KernelFrame DEF DevicesInv, SeatsShaped, PerSeat
<1> QED BY <1>4, <1>8, <1>11 DEF DevicesInv

\* One that goes takes its claim and its record with it.
LEMMA IsUnmade ==
  ASSUME DevicesInv, NEW x \in Devices, Unmake(x)
  PROVE  DevicesInv'
<1>0. KernelKnows /\ ObserverKnows
  BY DEF DevicesInv
<1>1. /\ UNCHANGED <<observer, looking, broker, found, current, known, todo, attached, refused,
                     alone, ended>>
      /\ Placed(x) /\ device' = [device EXCEPT ![x].at = "gone"]
      /\ claimed' = claimed \ {x} /\ record' = [record EXCEPT ![x] = "unknown"]
      /\ sure' = sure \ {x} /\ sighted' = [s \in Seats |-> sighted[s] \ {x}]
  BY DEF Unmake, pass, inSeats, Placed
<1>2. /\ PerDevice(device)' /\ Whole(x)' /\ Same(x) /\ device'[x].at = "gone"
      /\ \A d \in Devices : d # x => device'[d] = device[d]
  <2>1. device'[x] = [made |-> device[x].made, by |-> device[x].by, at |-> "gone",
                      node |-> device[x].node, slot |-> device[x].slot,
                      number |-> device[x].number]
    BY <1>0, <1>1 DEF KernelKnows, PerDevice, Whole, Devices
  <2>2. PerDevice(device)' /\ \A d \in Devices : d # x => device'[d] = device[d]
    BY <1>0, <1>1 DEF KernelKnows, PerDevice, Devices
  <2> QED BY <2>1, <2>2 DEF Whole, Same
<1>3. \A d \in Devices : Same(d) /\ (Placed(d)' => Placed(d))
  BY <1>2 DEF Same, Placed
<1>4. KernelKnows'
  <2>1. \A d \in Devices : Whole(d)'
    BY <1>0, <1>2 DEF KernelKnows, Whole
  <2>2. \A d \in Devices : device'[d].at = "making" => device'[d].by = "uhid"
    BY <1>0, <1>2 DEF KernelKnows, Same
  <2>3. \A d, e \in Devices :
          Placed(d)' /\ Placed(e)' /\ device'[d].node = device'[e].node => d = e
    BY <1>0, <1>3 DEF KernelKnows, Same
  <2>4. \A d \in Devices : device'[d].at # "none" => device[d].at # "none"
    BY <1>1, <1>2 DEF Placed
  <2>5. \A d \in Devices :
          /\ device'[d].made \in Makers
          /\ device'[d].at # "none" => device'[d].node \in Nodes
    BY <1>0, <1>3, <2>4 DEF KernelKnows, Same
  <2> QED BY <1>2, <2>1, <2>2, <2>3, <2>5
          DEF KernelKnows, Devices, Nodes, Makers
<1>5. Uhids' = Uhids \ {x}
  BY <1>2 DEF Uhids, There, Devices, Same
<1>6. PerDevice(record)' /\ \A d \in Devices : d # x => record'[d] = record[d]
  BY <1>0, <1>1 DEF ObserverKnows, PerDevice, Devices
<1>7. ASSUME NEW d \in sure \ {x} PROVE Says(d)'
  BY <1>0, <1>1, <1>2, <1>6 DEF ObserverKnows, Says, There, Devices
<1>8. ASSUME NEW d \in alone PROVE Lonely(d)'
  <2>1. Lonely(d)
    BY <1>0 DEF ObserverKnows
  <2>2. (Unclaimed \subseteq {d})'
    BY <1>1, <1>5, <2>1 DEF Unclaimed, Lonely
  <2>3. (\A e \in Devices : device[e].at = "making" => e = d)'
    BY <1>2, <2>1 DEF Lonely, Devices
  <2>4. d \in Devices' /\ device'[d].at # "none" /\ device'[d].by = "uhid"
    BY <1>2, <1>3, <2>1 DEF Lonely, Same, Devices
  <2> QED BY <1>1, <2>1, <2>2, <2>3, <2>4 DEF Lonely
<1>9. ObserverKnows'
  BY <1>0, <1>1, <1>5, <1>6, <1>7, <1>8 DEF ObserverKnows
<1>10. \A d \in Devices : device[d].at # "none" => Same(d) /\ device'[d].at # "none"
  BY <1>2, <1>3
<1>11. \A s \in Seats : \A d \in sighted'[s] : device'[d].at = "there" /\ d \notin alone'
  BY <1>1, <1>2 DEF DevicesInv, PassKnows, There
<1>12. SeatsShaped' /\ \A s \in Seats : (PassKnows(s) /\ SeatHolds(s))'
  BY <1>1, <1>10, <1>11, KernelFrame DEF PerSeat
<1> QED BY <1>4, <1>9, <1>12 DEF DevicesInv

-----------------------------------------------------------------------------
(* The observer.                                                            *)

LEMMA ObserverFrame ==
  ASSUME DevicesInv, Quiet, ObserverKnows',
         alone' \subseteq alone, sure' \subseteq sure \cup alone,
         \A s \in Seats : s \in ended' <=> s \in ended
  PROVE  DevicesInv'
<1>1. UNCHANGED <<device, broker, found, current, known, todo, attached, refused, sighted>>
  BY DEF Quiet, pass, inSeats
<1>2. KernelKnows' /\ SeatsShaped'
  BY <1>1 DEF DevicesInv, KernelKnows, SeatsShaped, PerDevice, PerSeat, Whole, Placed,
     Devices, Nodes, Makers
<1>3. ASSUME NEW s \in Seats PROVE (PassKnows(s) /\ SeatHolds(s))'
  <2>1. PassKnows(s) /\ SeatHolds(s)
    BY DEF DevicesInv
  <2>2. sighted[s] \cap sure' \subseteq sure
    BY <2>1 DEF PassKnows
  <2>3. PassKnows(s)'
    BY <1>1, <2>1, <2>2 DEF PassKnows, There, Devices, None
  <2>4. SeatHolds(s)'
    BY <1>1, <2>1 DEF SeatHolds, None
  <2> QED BY <2>3, <2>4
<1> QED BY <1>2, <1>3 DEF DevicesInv

\* No claim is anybody's but that of a creation that was alone, and then there
\* is no other device to take.
LEMMA ObserverGoesOn ==
  ASSUME DevicesInv, Observes PROVE DevicesInv'
<1>0. ObserverKnows /\ Quiet /\ ended' = ended /\ UNCHANGED device
  BY DEF DevicesInv, Observes, ObserverStarts, ProbeAttached, Announce,
     Claim, GiveUp, Quiet
<1>1. Uhids' = Uhids /\ \A d : There(d)' = There(d)
  BY <1>0 DEF Uhids, There, Devices
<1>2. CASE ObserverStarts \/ ProbeAttached \/ Announce
  <2>1. /\ observer # "live" /\ UNCHANGED <<alone, sure>>
        /\ claimed' \subseteq claimed \cup Uhids
        /\ record' = record \/ record' = [d \in Devices |-> "unknown"]
    BY <1>2 DEF ObserverStarts, ProbeAttached, Announce, certain
  <2>2. alone = {} /\ \A d \in sure : device[d].by = "uinput" /\ Says(d)
    BY <1>0, <2>1 DEF ObserverKnows, Lonely, Says
  <2>3. \A d \in sure' : Says(d)'
    BY <1>0, <1>1, <2>1, <2>2 DEF Says, Devices
  <2>4. PerDevice(record)'
    BY <1>0, <2>1 DEF ObserverKnows, PerDevice, Devices
  <2>5. ObserverKnows'
    BY <1>0, <1>1, <2>1, <2>2, <2>3, <2>4 DEF ObserverKnows
  <2> QED BY <1>0, <2>1, <2>5, ObserverFrame
<1>3. ASSUME NEW x \in Devices, Claim(x) PROVE DevicesInv'
  <2>1. PICK hid \in Unclaimed :
          /\ claimed' = claimed \cup {hid}
          /\ record' = [record EXCEPT ![hid] = device[x].made]
    BY <1>3 DEF Claim
  <2>2. /\ observer = "live" /\ observer' = observer /\ x \in looking
        /\ looking' = looking \ {x}
        /\ sure' = sure \cup (alone \cap {x}) /\ alone' = alone \ {x}
    BY <1>3 DEF Claim
  <2>3. /\ hid \in Uhids /\ hid \notin claimed /\ hid \in Devices
        /\ There(hid) /\ device[hid].by = "uhid"
    BY <2>1 DEF Unclaimed, Uhids
  <2>4. /\ PerDevice(record)' /\ record'[hid] = device[x].made
        /\ \A d \in Devices : d # hid => record'[d] = record[d]
    BY <1>0, <2>1, <2>3 DEF ObserverKnows, PerDevice, Devices
  <2>5. ASSUME NEW d \in alone PROVE d = x /\ hid = x
    BY <1>0, <2>1, <2>2 DEF ObserverKnows, Lonely
  <2>6. ASSUME NEW d \in sure' PROVE Says(d)'
    <3>1. CASE d \in sure
      <4>1. Says(d)
        BY <1>0, <3>1 DEF ObserverKnows
      <4>2. CASE device[d].by = "uinput"
        BY <1>0, <1>1, <4>1, <4>2 DEF Says, Devices
      <4>3. CASE device[d].by # "uinput"
        <5>1. d # hid
          BY <2>3, <4>1, <4>3 DEF Says
        <5> QED BY <1>0, <1>1, <2>1, <2>2, <2>4, <4>1, <4>3, <5>1 DEF Says, Devices
      <4> QED BY <4>2, <4>3
    <3>2. CASE d \in alone
      BY <1>0, <1>1, <2>1, <2>2, <2>3, <2>4, <2>5, <3>2 DEF Says, Devices
    <3> QED BY <2>2, <3>1, <3>2
  <2>7. alone' = {}
    BY <2>2, <2>5
  <2>8. ObserverKnows'
    BY <1>0, <1>1, <2>1, <2>3, <2>4, <2>6, <2>7 DEF ObserverKnows
  <2> QED BY <1>0, <2>2, <2>8, ObserverFrame
<1>4. ASSUME NEW x \in Devices, GiveUp(x) PROVE DevicesInv'
  <2>1. /\ UNCHANGED <<observer, claimed, record, sure>> /\ x \in looking
        /\ looking' = looking \ {x} /\ alone' = alone \ {x}
    BY <1>4 DEF GiveUp
  <2>2. alone' = {}
    BY <1>0, <2>1 DEF ObserverKnows, Lonely
  <2>3. \A d \in sure' : Says(d)'
    BY <1>0, <1>1, <2>1 DEF ObserverKnows, Says, Devices
  <2>4. ObserverKnows'
    BY <1>0, <1>1, <2>1, <2>2, <2>3 DEF ObserverKnows, PerDevice, Devices
  <2> QED BY <1>0, <2>1, <2>4, ObserverFrame
<1> QED BY <1>2, <1>3, <1>4 DEF Observes

LEMMA ObserverGoes ==
  ASSUME DevicesInv, ObserverEnds PROVE DevicesInv'
<1>1. /\ ObserverKnows /\ Quiet /\ ended' = ended \cup {Host}
      /\ UNCHANGED <<device, claimed, record>>
      /\ alone' = {} /\ sure' = {d \in sure : device[d].by = "uinput"}
  BY DEF DevicesInv, ObserverEnds, Quiet
<1>2. Uhids' = Uhids /\ \A d : There(d)' = There(d)
  BY <1>1 DEF Uhids, There, Devices
<1>3. \A d \in sure' : Says(d)'
  BY <1>1, <1>2 DEF ObserverKnows, Says, Devices
<1>4. ObserverKnows'
  BY <1>1, <1>2, <1>3 DEF ObserverKnows, PerDevice, Devices
<1>5. \A s \in Seats : s \in ended' <=> s \in ended
  BY <1>1, DevicesMakers, DevicesBounds
<1> QED BY <1>1, <1>4, <1>5, ObserverFrame

\* prune takes no record of a device but those it makes unsure.
LEMMA ObserverForgets ==
  ASSUME DevicesInv, PruneForgets PROVE DevicesInv'
<1>1. /\ ObserverKnows /\ Quiet /\ UNCHANGED <<device, observer, ended>>
      /\ claimed' = claimed \ losing /\ alone' = {} /\ sure' = sure \ losing
      /\ record' = [d \in Devices |-> IF d \in losing THEN "unknown" ELSE record[d]]
  BY DEF DevicesInv, PruneForgets, Quiet
<1>2. Uhids' = Uhids /\ \A d : There(d)' = There(d)
  BY <1>1 DEF Uhids, There, Devices
<1>3. \A d \in sure' : Says(d)'
  BY <1>1, <1>2 DEF ObserverKnows, Says, Devices
<1>4. ObserverKnows'
  BY <1>1, <1>2, <1>3 DEF ObserverKnows, PerDevice, Devices
<1> QED BY <1>1, <1>4, ObserverFrame

-----------------------------------------------------------------------------
(* A broker, which changes nothing of another seat's.                       *)

Untouched(o) ==
  /\ broker'[o] = broker[o] /\ found'[o] = found[o] /\ current'[o] = current[o]
  /\ known'[o] = known[o] /\ todo'[o] = todo[o] /\ attached'[o] = attached[o]
  /\ refused'[o] = refused[o]
  /\ sighted'[o] = sighted[o] /\ (o \in ended' <=> o \in ended)

LEMMA BrokerFrame ==
  ASSUME DevicesInv, World, SeatsShaped', NEW s \in Seats, PassKnows(s)', SeatHolds(s)',
         \A o \in Seats : o # s => Untouched(o)
  PROVE  DevicesInv'
<1>1. UNCHANGED <<device, observer, claimed, looking, record, alone, sure>>
  BY DEF World, observing, certain
<1>2. KernelKnows' /\ ObserverKnows'
  BY <1>1 DEF DevicesInv, KernelKnows, ObserverKnows, PerDevice, Whole, Placed, Says, Lonely,
     Devices, Nodes, Makers, Uhids, Unclaimed, There
<1>3. ASSUME NEW o \in Seats PROVE (PassKnows(o) /\ SeatHolds(o))'
  <2>1. CASE o = s
    BY <2>1
  <2>2. CASE o # s
    <3>1. PassKnows(o) /\ SeatHolds(o) /\ Untouched(o)
      BY <2>2 DEF DevicesInv
    <3>2. PassKnows(o)'
      BY <1>1, <3>1 DEF PassKnows, Untouched, There, Devices, None
    <3>3. SeatHolds(o)'
      BY <1>1, <3>1 DEF SeatHolds, Untouched, None
    <3> QED BY <3>2, <3>3
  <2> QED BY <2>1, <2>2
<1> QED BY <1>2, <1>3 DEF DevicesInv

\* A call that takes nodes out of a seat does so, or is a refused one.
LEMMA TakenOut ==
  ASSUME SeatsShaped, NEW s \in Seats, NEW nodes, Detach(s, nodes)
  PROVE  /\ PerSeat(attached)' /\ PerSeat(refused)'
         /\ attached'[s] \subseteq attached[s]
         /\ attached'[s] \ refused'[s] = (attached[s] \ refused[s]) \ nodes
         /\ \A n \in attached[s] \ nodes : n \in attached'[s]
         /\ \A o \in Seats : o # s => attached'[o] = attached[o] /\ refused'[o] = refused[o]
<1>1. PICK no \in SUBSET nodes :
        /\ attached' = [attached EXCEPT ![s] = @ \ (nodes \ no)]
        /\ refused' = [refused EXCEPT ![s] = (@ \ nodes) \cup (no \cap attached[s])]
  BY DEF Detach, Refused
<1>2. /\ attached'[s] = attached[s] \ (nodes \ no)
      /\ refused'[s] = (refused[s] \ nodes) \cup (no \cap attached[s])
      /\ \A o \in Seats : o # s => attached'[o] = attached[o] /\ refused'[o] = refused[o]
  BY <1>1 DEF SeatsShaped, PerSeat
<1>3. PerSeat(attached)' /\ PerSeat(refused)'
  BY <1>1 DEF SeatsShaped, PerSeat
<1> QED BY <1>2, <1>3

LEMMA BrokerComes ==
  ASSUME DevicesInv, NEW s \in Seats, BrokerStarts(s) PROVE DevicesInv'
<1>1. /\ World /\ UNCHANGED <<found, sighted, current, known, todo, ended>>
      /\ broker[s] = "off" /\ broker' = [broker EXCEPT ![s] = "idle"]
      /\ Detach(s, Orphans(s))
  BY DEF BrokerStarts
<1>a. /\ PerSeat(attached)' /\ PerSeat(refused)' /\ attached'[s] \subseteq attached[s]
      /\ attached'[s] \ refused'[s] = (attached[s] \ refused[s]) \ Orphans(s)
      /\ \A o \in Seats : o # s => attached'[o] = attached[o] /\ refused'[o] = refused[o]
  BY <1>1, TakenOut DEF DevicesInv
<1>2. /\ SeatsShaped' /\ broker'[s] = "idle" /\ \A o \in Seats : o # s => Untouched(o)
  BY <1>1, <1>a DEF DevicesInv, SeatsShaped, PerSeat, Untouched, Nodes
<1>3. PassKnows(s) /\ SeatHolds(s)
  BY DEF DevicesInv
<1>4. PassKnows(s)'
  BY <1>1, <1>2, <1>3 DEF PassKnows
<1>5. SeatHolds(s)'
  <2> SUFFICES ASSUME s \notin ended \cap Tagging PROVE attached'[s] \ refused'[s] = {}
    BY <1>1, <1>2 DEF SeatHolds
  <2>1. CASE s \notin ended
    BY <1>1, <1>a, <1>3, <2>1 DEF SeatHolds
  <2>2. CASE s \notin Tagging
    <3>1. Orphans(s) = attached[s]
      BY <2>2 DEF Orphans, Names
    <3> QED BY <1>a, <3>1
  <2> QED BY <2>1, <2>2
<1> QED BY <1>1, <1>2, <1>4, <1>5, BrokerFrame

LEMMA BrokerScans ==
  ASSUME DevicesInv, NEW s \in Seats, Scan(s) PROVE DevicesInv'
<1>1. /\ World /\ UNCHANGED <<current, known, todo, attached, refused, ended>>
      /\ broker[s] = "idle" /\ broker' = [broker EXCEPT ![s] = "scanned"]
      /\ found' = [found EXCEPT ![s] = {d \in Devices : There(d)}]
      /\ sighted' = [sighted EXCEPT ![s] = {d \in sure : There(d)}]
  BY DEF Scan, inSeats
<1>2. /\ SeatsShaped' /\ broker'[s] = "scanned"
      /\ found'[s] = {d \in Devices : There(d)}
      /\ sighted'[s] = {d \in sure : There(d)}
      /\ \A o \in Seats : o # s => Untouched(o)
  BY <1>1 DEF DevicesInv, SeatsShaped, PerSeat, Untouched, Nodes
<1>3. UNCHANGED <<device, alone>>
  BY <1>1 DEF World, certain
<1>4. KernelKnows /\ ObserverKnows /\ SeatHolds(s)
  BY DEF DevicesInv
<1>5. \A d \in sure : d \in Devices /\ d \notin alone
  BY <1>4 DEF ObserverKnows, Says, Lonely
<1>6. PassKnows(s)'
  <2>1. \A d \in sighted'[s] : d \in Devices' /\ There(d)' /\ d \notin alone'
    BY <1>2, <1>3, <1>5 DEF There, Devices
  <2>2. sighted'[s] \subseteq found'[s]
    BY <1>2, <1>5
  <2>3. \A d \in found'[s] : d \in Devices' /\ device'[d].at # "none"
    BY <1>2, <1>3 DEF There, Devices
  <2>4. \A d, e \in found'[s] : device'[d].node = device'[e].node => d = e
    BY <1>2, <1>3, <1>4 DEF There, KernelKnows, Placed
  <2> QED BY <1>2, <2>1, <2>2, <2>3, <2>4 DEF PassKnows
<1>7. SeatHolds(s)'
  BY <1>1, <1>2, <1>4 DEF SeatHolds, None
<1> QED BY <1>1, <1>2, <1>6, <1>7, BrokerFrame

\* attribute: the creator, then what was observed, of what is at the node.
LEMMA SaysWhose ==
  ASSUME DevicesInv, NEW d \in sure, NEW s \in Seats
  PROVE  Mine(d, s) <=> device[d].made = s
<1>1. /\ Says(d) /\ device[d].made \in Makers /\ device[d].made # "unknown"
      /\ s # "unknown"
  BY DevicesMakers, DevicesBounds DEF DevicesInv, ObserverKnows, KernelKnows, Says, Makers
<1>2. CASE device[d].by = "uinput"
  <2>1. Creator(d) = device[d].made
    BY <1>1, <1>2 DEF Creator, Says
  <2> QED BY <1>1, <2>1, Zenon DEF Mine
<1>3. CASE device[d].by # "uinput"
  <2>1. /\ Creator(d) = "unknown" /\ record[d] = device[d].made
        /\ device[d].by = "uhid"
    BY <1>1, <1>3 DEF Creator, Says
  <2>2. \A e \in Devices : There(e) /\ device[e].node = device[d].node => e = d
    BY <1>1 DEF DevicesInv, KernelKnows, Placed, There, Says
  <2>3. At(device[d].node) = d
    BY <1>1, <2>2 DEF At, Says
  <2>4. At(device[d].node) # None
    BY <1>1, <2>3 DEF Says, Devices, None
  <2>5. Observed(device[d].node) = device[d].made
    BY <2>1, <2>3, <2>4 DEF Observed
  <2> QED BY <1>1, <2>1, <2>5, Zenon DEF Mine
<1> QED BY <1>2, <1>3

LEMMA BrokerDecides ==
  ASSUME DevicesInv, NEW s \in Seats, Attribute(s) PROVE DevicesInv'
<1>1. PICK mine \in SUBSET found[s] :
        /\ \A d \in found[s] : d \in mine <=> Mine(d, s)
        /\ current' = [current EXCEPT ![s] = [n \in Nodes |->
             IF \E d \in mine : device[d].node = n
             THEN CHOOSE d \in mine : device[d].node = n ELSE None]]
        /\ todo' = [todo EXCEPT ![s] = {device[d].node : d \in mine}]
  BY DEF Attribute
<1>2. /\ World /\ UNCHANGED <<sighted, known, attached, refused, ended>>
      /\ broker[s] = "scanned" /\ broker' = [broker EXCEPT ![s] = "attaching"]
      /\ found' = [found EXCEPT ![s] = {}]
  BY DEF Attribute, inSeats
<1>3. KernelKnows /\ ObserverKnows /\ SeatsShaped /\ PassKnows(s) /\ SeatHolds(s)
  BY DEF DevicesInv
<1>4. \A d \in mine : d \in Devices /\ device[d].node \in Nodes
  BY <1>2, <1>3 DEF PassKnows, KernelKnows
<1>5. /\ SeatsShaped' /\ broker'[s] = "attaching"
      /\ todo'[s] = {device[d].node : d \in mine}
      /\ \A o \in Seats : o # s => Untouched(o)
  <2>1. PerSeat(broker)' /\ PerSeat(found)' /\ PerSeat(current)' /\ PerSeat(todo)'
    BY <1>1, <1>2, <1>3 DEF SeatsShaped, PerSeat
  <2>2. broker'[s] = "attaching" /\ todo'[s] = {device[d].node : d \in mine}
    BY <1>1, <1>2, <1>3 DEF SeatsShaped, PerSeat
  <2>3. \A o \in Seats : o # s => Untouched(o)
    BY <1>1, <1>2, <1>3 DEF SeatsShaped, PerSeat, Untouched
  <2>4. \A o \in Seats : attached'[o] \subseteq Nodes' /\ todo'[o] \subseteq Nodes'
    BY <1>2, <1>3, <1>4, <2>2, <2>3 DEF SeatsShaped, Untouched, Nodes
  <2>5. \A o \in Seats : broker'[o] \in {"off", "idle", "scanned", "attaching"}
    BY <1>3, <2>2, <2>3 DEF SeatsShaped, Untouched
  <2> QED BY <1>2, <1>3, <2>1, <2>2, <2>3, <2>4, <2>5 DEF SeatsShaped, PerSeat
<1>6. \A n \in Nodes : current'[s][n] # None <=> \E d \in mine : device[d].node = n
  <2>1. current'[s] = [n \in Nodes |->
             IF \E d \in mine : device[d].node = n
             THEN CHOOSE d \in mine : device[d].node = n ELSE None]
    BY <1>1, <1>3 DEF SeatsShaped, PerSeat
  <2>2. None \notin Devices
    BY DEF None, Devices
  <2> SUFFICES ASSUME NEW n \in Nodes
               PROVE  current'[s][n] # None <=> \E d \in mine : device[d].node = n
    OBVIOUS
  <2>3. CASE \E d \in mine : device[d].node = n
    <3>1. current'[s][n] = CHOOSE d \in mine : device[d].node = n
      BY <2>1, <2>3
    <3>2. current'[s][n] \in mine
      BY <2>3, <3>1
    <3> QED BY <1>4, <2>2, <2>3, <3>2
  <2>4. CASE ~ \E d \in mine : device[d].node = n
    BY <2>1, <2>4
  <2> QED BY <2>3, <2>4
<1>7. UNCHANGED <<device, alone, sure>>
  BY <1>2 DEF World, certain
<1>8. PassKnows(s)'
  <2>1. \A d \in sighted'[s] : d \in Devices' /\ There(d)' /\ d \notin alone'
    BY <1>2, <1>3, <1>7 DEF PassKnows, There, Devices
  <2>2. ASSUME NEW d \in sighted[s] \cap sure
        PROVE  (current'[s][device[d].node] # None) <=> (device[d].made = s)
    <3>1. d \in found[s] /\ \A e \in found[s] : device[e].node = device[d].node => e = d
      BY <1>2, <1>3 DEF PassKnows
    <3>2. device[d].node \in Nodes
      BY <1>2, <1>3, <3>1 DEF PassKnows, KernelKnows
    <3>3. (current'[s][device[d].node] # None) <=> d \in mine
      BY <1>6, <3>1, <3>2
    <3>4. d \in mine <=> device[d].made = s
      BY <1>1, <3>1, SaysWhose
    <3> QED BY <3>3, <3>4
  <2>3. \A d \in sighted'[s] \cap sure' :
          (current'[s][device'[d].node] # None') <=> (device'[d].made = s)
    BY <1>2, <1>7, <2>2 DEF None
  <2>4. \A n \in todo'[s] : current'[s][n] # None'
    BY <1>4, <1>5, <1>6 DEF None
  <2> QED BY <1>5, <2>1, <2>3, <2>4 DEF PassKnows
<1>9. SeatHolds(s)'
  BY <1>2, <1>3 DEF SeatHolds, None
<1> QED BY <1>2, <1>5, <1>8, <1>9, BrokerFrame

LEMMA BrokerAttaches ==
  ASSUME DevicesInv, NEW s \in Seats, NEW n \in Nodes, Attach(s, n)
  PROVE  DevicesInv'
<1>1. /\ World /\ UNCHANGED <<broker, found, sighted, current, known, ended>>
      /\ broker[s] = "attaching" /\ n \in todo[s]
      /\ todo' = [todo EXCEPT ![s] = @ \ {n}]
      /\ \/ UNCHANGED <<attached, refused>>
         \/ \E no \in SUBSET {n} :
              /\ attached' = [attached EXCEPT ![s] = @ \cup ({n} \ no)]
              /\ refused' = [refused EXCEPT ![s] = (@ \ {n}) \cup (no \ attached[s])]
  BY DEF Attach, Refused
<1>2. KernelKnows /\ SeatsShaped /\ PassKnows(s) /\ SeatHolds(s)
  BY DEF DevicesInv
<1>3. /\ SeatsShaped' /\ todo'[s] = todo[s] \ {n}
      /\ attached'[s] \ refused'[s] \subseteq (attached[s] \ refused[s]) \cup {n}
      /\ \A o \in Seats : o # s => Untouched(o)
  <2>1. /\ PerSeat(todo)' /\ PerSeat(attached)' /\ PerSeat(refused)'
        /\ todo'[s] = todo[s] \ {n} /\ attached'[s] \subseteq attached[s] \cup {n}
        /\ attached'[s] \ refused'[s] \subseteq (attached[s] \ refused[s]) \cup {n}
        /\ \A o \in Seats : o # s => Untouched(o)
    <3>1. CASE UNCHANGED <<attached, refused>>
      BY <1>1, <1>2, <3>1 DEF SeatsShaped, PerSeat, Untouched
    <3>2. ASSUME NEW no \in SUBSET {n},
                 attached' = [attached EXCEPT ![s] = @ \cup ({n} \ no)],
                 refused' = [refused EXCEPT ![s] = (@ \ {n}) \cup (no \ attached[s])]
          PROVE  /\ PerSeat(attached)' /\ PerSeat(refused)'
                 /\ attached'[s] \subseteq attached[s] \cup {n}
                 /\ attached'[s] \ refused'[s] \subseteq (attached[s] \ refused[s]) \cup {n}
                 /\ \A o \in Seats : o # s =>
                      attached'[o] = attached[o] /\ refused'[o] = refused[o]
      BY <1>2, <3>2 DEF SeatsShaped, PerSeat
    <3> QED BY <1>1, <1>2, <3>1, <3>2 DEF SeatsShaped, PerSeat, Untouched
  <2>2. \A o \in Seats : attached'[o] \subseteq Nodes' /\ todo'[o] \subseteq Nodes'
    BY <1>2, <2>1 DEF SeatsShaped, Untouched, Nodes
  <2> QED BY <1>1, <1>2, <2>1, <2>2 DEF SeatsShaped, PerSeat
<1>4. UNCHANGED <<device, alone, sure>>
  BY <1>1 DEF World, certain
<1>5. PassKnows(s)'
  BY <1>1, <1>2, <1>3, <1>4 DEF PassKnows, There, Devices, None
<1>6. current[s][n] # None
  BY <1>1, <1>2 DEF PassKnows
<1>7. SeatHolds(s)'
  BY <1>1, <1>2, <1>3, <1>6 DEF SeatHolds, None
<1> QED BY <1>1, <1>3, <1>5, <1>7, BrokerFrame

\* What is left of the pass before goes, so that what stays is what this one
\* has taken for the seat's.
LEMMA BrokerFinishes ==
  ASSUME DevicesInv, NEW s \in Seats, PassEnds(s) PROVE DevicesInv'
<1>1. /\ World /\ UNCHANGED <<found, todo, ended>>
      /\ broker[s] = "attaching" /\ broker' = [broker EXCEPT ![s] = "idle"]
      /\ Detach(s, Left(s))
      /\ known' = [known EXCEPT ![s] = current[s]]
      /\ current' = [current EXCEPT ![s] = Nothing]
      /\ sighted' = [sighted EXCEPT ![s] = {}]
  BY DEF PassEnds
<1>2. SeatsShaped /\ PassKnows(s) /\ SeatHolds(s)
  BY DEF DevicesInv
<1>a. /\ PerSeat(attached)' /\ PerSeat(refused)' /\ attached'[s] \subseteq attached[s]
      /\ attached'[s] \ refused'[s] = (attached[s] \ refused[s]) \ Left(s)
      /\ \A o \in Seats : o # s => attached'[o] = attached[o] /\ refused'[o] = refused[o]
  BY <1>1, <1>2, TakenOut
<1>3. /\ SeatsShaped' /\ broker'[s] = "idle" /\ known'[s] = current[s] /\ sighted'[s] = {}
      /\ attached[s] \subseteq Nodes
      /\ \A o \in Seats : o # s => Untouched(o)
  BY <1>1, <1>a, <1>2 DEF SeatsShaped, PerSeat, Untouched, Nodes
<1>4. PassKnows(s)'
  BY <1>3 DEF PassKnows
<1>5. SeatHolds(s)'
  BY <1>1, <1>a, <1>2, <1>3 DEF SeatHolds, Left, None, Nodes
<1> QED BY <1>1, <1>3, <1>4, <1>5, BrokerFrame

LEMMA BrokerGoes ==
  ASSUME DevicesInv, NEW s \in Seats, BrokerEnds(s) PROVE DevicesInv'
<1>1. /\ World /\ UNCHANGED <<attached, refused>>
      /\ ended' = ended \cup {s} /\ broker' = [broker EXCEPT ![s] = "off"]
      /\ found' = [found EXCEPT ![s] = {}] /\ todo' = [todo EXCEPT ![s] = {}]
      /\ sighted' = [sighted EXCEPT ![s] = {}]
      /\ current' = [current EXCEPT ![s] = Nothing]
      /\ known' = [known EXCEPT ![s] = Nothing]
  BY DEF BrokerEnds, inSeats
<1>2. SeatsShaped
  BY DEF DevicesInv
<1>3. /\ SeatsShaped' /\ broker'[s] = "off" /\ sighted'[s] = {} /\ s \in ended'
      /\ \A o \in Seats : o # s => Untouched(o)
  BY <1>1, <1>2 DEF SeatsShaped, PerSeat, Untouched, Nodes
<1>4. PassKnows(s)'
  BY <1>3 DEF PassKnows
<1>5. SeatHolds(s)'
  BY <1>3 DEF SeatHolds
<1> QED BY <1>1, <1>3, <1>4, <1>5, BrokerFrame

LEMMA DevicesStutter ==
  ASSUME DevicesInv, UNCHANGED deviceVars PROVE DevicesInv'
<1>1. /\ Quiet /\ UNCHANGED <<observer, claimed, looking, record, alone, sure, ended>>
  BY DEF deviceVars, Quiet, observing, certain
<1>2. UNCHANGED device
  BY <1>1 DEF Quiet
<1>3. ObserverKnows'
  BY <1>1, <1>2 DEF DevicesInv, ObserverKnows, PerDevice, Says, Lonely, Devices,
     Uhids, Unclaimed, There
<1> QED BY <1>1, <1>3, ObserverFrame

LEMMA NextDevices ==
  ASSUME DevicesInv, [DeviceNext]_deviceVars PROVE DevicesInv'
<1>1. CASE Kernel
  BY <1>1, MakesUhid, MakesUinput, IsNumbered, IsUnmade DEF Kernel
<1>2. CASE Observes \/ PruneForgets \/ ObserverEnds
  BY <1>2, ObserverGoesOn, ObserverForgets, ObserverGoes
<1>3. ASSUME NEW s \in Watched, BrokerSteps(s) \/ BrokerEnds(s) PROVE DevicesInv'
  <2>1. s \in Seats
    BY DevicesMakers, DevicesBounds
  <2> QED BY <1>3, <2>1, BrokerComes, BrokerScans, BrokerDecides, BrokerAttaches,
             BrokerFinishes, BrokerGoes DEF BrokerSteps
<1>4. CASE UNCHANGED deviceVars
  BY <1>4, DevicesStutter
<1> QED BY <1>1, <1>2, <1>3, <1>4 DEF DeviceNext

-----------------------------------------------------------------------------

\* The observer and the brokers agree with what is there, however often they end.
THEOREM DevicesInductive == DeviceSpec => []DevicesInv
<1>1. DeviceInit => DevicesInv
  BY InitDevices
<1>2. DevicesInv /\ [DeviceNext]_deviceVars => DevicesInv'
  BY NextDevices
<1> QED BY <1>1, <1>2, PTL DEF DeviceSpec

\* A step of one seat's broker, or what no broker does.
LEMMA WhoseStep ==
  ASSUME DevicesInv, [DeviceNext]_deviceVars, NEW s \in Watched
  PROVE  \/ UNCHANGED <<broker[s], attached[s]>>
         \/ BrokerStarts(s) \/ Scan(s) \/ Attribute(s) \/ PassEnds(s)
         \/ BrokerEnds(s) \/ \E n \in Nodes : Attach(s, n)
<1>0. SeatsShaped /\ s \in Seats
  BY DevicesMakers, DevicesBounds DEF DevicesInv
<1>1. CASE Kernel \/ Observes \/ PruneForgets \/ ObserverEnds \/ UNCHANGED deviceVars
  BY <1>1 DEF Kernel, MakeUhid, MakeUinput, Numbered, Unmake,
     Observes, ObserverStarts, ProbeAttached, Announce, Claim,
     GiveUp, PruneForgets, ObserverEnds, Quiet, pass, inSeats,
     deviceVars
<1>2. ASSUME NEW o \in Watched, o # s, BrokerSteps(o) \/ BrokerEnds(o)
      PROVE  UNCHANGED <<broker[s], attached[s]>>
  BY <1>0, <1>2 DEF BrokerSteps, BrokerStarts, Scan, Attribute,
     PassEnds, Attach, Detach, BrokerEnds, inSeats, SeatsShaped, PerSeat
<1> QED BY <1>1, <1>2 DEF DeviceNext, BrokerSteps

LEMMA PassKeepsItsOwn ==
  ASSUME DevicesInv, NEW s \in Watched, PassEnds(s),
         NEW d \in sighted[s] \cap sure
  PROVE  /\ s \notin ended \cap Tagging /\ device[d].node \in attached'[s] \ refused'[s]
              => device[d].made = s
         /\ device[d].made = s /\ device[d].node \in attached[s]
              => device[d].node \in attached'[s]
<1>1. /\ SeatsShaped /\ s \in Seats /\ PassKnows(s) /\ SeatHolds(s)
      /\ broker[s] = "attaching"
  BY DevicesMakers, DevicesBounds DEF DevicesInv, PassEnds
<1>2. /\ attached[s] \subseteq Nodes
      /\ attached'[s] \ refused'[s] = (attached[s] \ refused[s]) \ Left(s)
      /\ \A n \in attached[s] \ Left(s) : n \in attached'[s]
  BY <1>1, TakenOut DEF PassEnds, SeatsShaped
<1>3. (current[s][device[d].node] # None) <=> (device[d].made = s)
  BY <1>1 DEF PassKnows
<1>4. \A n \in Nodes :
        n \in Left(s) <=> known[s][n] # None /\ current[s][n] = None
  BY DEF Left
<1>5. ASSUME s \notin ended \cap Tagging, device[d].node \in attached'[s] \ refused'[s]
      PROVE  device[d].made = s
  <2>1. current[s][device[d].node] # None
    BY <1>1, <1>2, <1>4, <1>5 DEF SeatHolds
  <2> QED BY <1>3, <2>1
<1>6. ASSUME device[d].made = s, device[d].node \in attached[s]
      PROVE  device[d].node \in attached'[s]
  BY <1>2, <1>3, <1>4, <1>6
<1> QED BY <1>5, <1>6

\* attribute, over whole passes: when a pass ends, nothing is left in the seat
\* that somebody else made and that said so, by its descriptor or in the record,
\* when the pass began.
THEOREM GivesOnlyItsOwn == DeviceSpec => OnlyItsOwn
<1> DEFINE Own == \A s \in Watched \ (ended \cap Tagging) :
      broker[s] = "attaching" /\ broker'[s] = "idle" =>
        \A d \in sighted[s] \cap sure :
          device[d].node \in attached'[s] \ refused'[s] => device[d].made = s
<1>1. ASSUME DevicesInv, [DeviceNext]_deviceVars PROVE Own
  <2> SUFFICES ASSUME NEW s \in Watched \ (ended \cap Tagging),
                      broker[s] = "attaching", broker'[s] = "idle",
                      NEW d \in sighted[s] \cap sure,
                      device[d].node \in attached'[s] \ refused'[s]
               PROVE  device[d].made = s
    OBVIOUS
  <2>1. PerSeat(broker) /\ s \in Seats
    BY <1>1, DevicesMakers, DevicesBounds DEF DevicesInv, SeatsShaped
  <2>2. PassEnds(s)
    BY <1>1, <2>1, WhoseStep DEF BrokerStarts, Scan, Attribute,
       BrokerEnds, Attach, PerSeat
  <2> QED BY <1>1, <2>2, PassKeepsItsOwn
<1>2. DevicesInv /\ [DeviceNext]_deviceVars => [Own]_deviceVars
  BY <1>1
<1>3. DeviceSpec => [][Own]_deviceVars
  BY <1>2, DevicesInductive, PTL DEF DeviceSpec
<1> QED BY <1>3 DEF OnlyItsOwn

\* detach: no pass takes from a seat a device of its own that it has found,
\* whatever is made and unmade beside it.
THEOREM KeepsItsOwn == DeviceSpec => KeptWhileThere
<1> DEFINE Kept == \A s \in Watched : \A d \in sighted[s] \cap sure :
      device[d].made = s /\ device[d].node \in attached[s]
      => device[d].node \in attached'[s]
<1>1. ASSUME DevicesInv, [DeviceNext]_deviceVars PROVE Kept
  <2> SUFFICES ASSUME NEW s \in Watched, NEW d \in sighted[s] \cap sure,
                      device[d].made = s, device[d].node \in attached[s]
               PROVE  device[d].node \in attached'[s]
    OBVIOUS
  <2>1. PerSeat(attached) /\ s \in Seats /\ PassKnows(s)
    BY <1>1, DevicesMakers, DevicesBounds DEF DevicesInv, SeatsShaped
  <2>2. CASE PassEnds(s)
    BY <1>1, <2>2, PassKeepsItsOwn
  <2>3. CASE BrokerStarts(s)
    BY <2>1, <2>3 DEF BrokerStarts, PassKnows
  <2>4. CASE \E n \in Nodes : Attach(s, n)
    BY <2>1, <2>4 DEF Attach, PerSeat
  <2>5. CASE Scan(s) \/ Attribute(s) \/ BrokerEnds(s)
    BY <2>5 DEF Scan, Attribute, BrokerEnds, inSeats
  <2>6. CASE UNCHANGED attached[s]
    BY <2>6
  <2> QED BY <1>1, <2>2, <2>3, <2>4, <2>5, <2>6, WhoseStep
<1>2. DevicesInv /\ [DeviceNext]_deviceVars => [Kept]_deviceVars
  BY <1>1
<1>3. DeviceSpec => [][Kept]_deviceVars
  BY <1>2, DevicesInductive, PTL DEF DeviceSpec
<1> QED BY <1>3 DEF KeptWhileThere
=============================================================================
