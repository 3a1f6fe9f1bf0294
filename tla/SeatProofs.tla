----------------------------- MODULE SeatProofs -----------------------------
(***************************************************************************)
(* A seat: its lifecycle (SeatLifecycle) and the list of its games         *)
(* (GameList).                                                             *)
(*                                                                         *)
(* No broker polls into a shutdown, for any number of requests, moves from *)
(* outside and events.  Three parties start the broker or stop it: the     *)
(* operation, the sweep and the event loop.  The loop only ever stops it.  *)
(* The sweep may start it, but no sweep is under way while an operation    *)
(* works (KeptOut), because the operation waited for the last one and busy *)
(* refuses the next (Claimed).  So what the operation stopped stays        *)
(* stopped until it brings the broker back itself (Down).                  *)
(*                                                                         *)
(* The list is about answers that are older than what is done on them.  A  *)
(* run of refreshApps keeps what it read and when, and between its last    *)
(* look and the reload nobody is there but who came after it (ListInv).    *)
(***************************************************************************)
EXTENDS SeatLifecycle, GameList, TLAPS

\* busy names an operation exactly while its goroutine has the seat.
Claimed == (busy = "") <=> (op = "none")

\* No sweep is under way while an operation works.
KeptOut == Working => sweep = "none"

\* Where the operation is after it has stopped the broker and before it thinks
\* of bringing it back.
BrokerStopped == {"status", "halt", "halting", "down", "run", "configure",
                  "reboot"}

\* A process that is off has no child; who waits for the end of a run waits
\* while it ends; and the operation does not go on before it has ended.
Down ==
  /\ phase = "off" => ~child /\ waiters = {}
  /\ waiters # {} => phase = "ending"
  /\ op \in BrokerStopped /\ "op" \notin waiters => phase = "off"

\* What a cancelled sweep heard is still to be looked at, with the cancel there
\* to be seen.
Heard ==
  /\ container \in {"", "Stopped", "Running"}
  /\ found = "cancelled" => sweep = "decide" /\ told

IInv == Claimed /\ KeptOut /\ Down /\ Heard

USE DEF Operations, BrokerStopped

-----------------------------------------------------------------------------

LEMMA InitIInv == Init => IInv
  BY DEF Init, Broker!Init, IInv, Claimed, KeptOut, Down, Heard,
     Working

\* The world's own moves.
LEMMA WorldKeeps ==
  ASSUME IInv,
         OutsideStops \/ OutsideStarts \/ OutsideDeletes \/
           SessionTurns \/ DaemonRestarts \/ BrokerGone \/ BrokerMoves
           \/ PointerLooks \/ PointerDone
  PROVE  IInv'
<1>1. CASE OutsideStops
  BY <1>1 DEF OutsideStops, Outside, Emit, seat, broker, doing, sweeper, rest,
     IInv, Claimed, KeptOut, Down, Heard, Working
<1>2. CASE OutsideStarts
  BY <1>2 DEF OutsideStarts, Outside, Emit, seat, broker, doing, sweeper,
     rest, IInv, Claimed, KeptOut, Down, Heard, Working
<1>3. CASE OutsideDeletes
  BY <1>3 DEF OutsideDeletes, Outside, Emit, seat, broker, doing, sweeper,
     rest, IInv, Claimed, KeptOut, Down, Heard, Working
<1>4. CASE SessionTurns
  BY <1>4 DEF SessionTurns, Outside, seat, broker, doing, sweeper, rest, IInv,
     Claimed, KeptOut, Down, Heard, Working
<1>5. CASE DaemonRestarts
  BY <1>5 DEF DaemonRestarts, Idle, NoEvent, seat, broker, doing, sweeper,
     rest, IInv, Claimed, KeptOut, Down, Heard, Working
<1>6. CASE BrokerGone
  BY <1>6 DEF BrokerGone, Broker!Gone, seat, broker, doing, sweeper, rest,
     IInv, Claimed, KeptOut, Down, Heard, Working
<1>7. CASE BrokerMoves
  BY <1>7 DEF BrokerMoves, Broker!ChildComes, Broker!ChildGoes, seat, broker,
     doing, sweeper, rest, IInv, Claimed, KeptOut, Down, Heard, Working
<1>8. CASE PointerLooks
  BY <1>8 DEF PointerLooks, seat, broker, doing, sweeper, rest, IInv, Claimed,
     KeptOut, Down, Heard, Working
<1>9. CASE PointerDone
  BY <1>9 DEF PointerDone, seat, broker, doing, sweeper, rest, IInv, Claimed,
     KeptOut, Down, Heard, Working
<1> QED BY <1>1, <1>2, <1>3, <1>4, <1>5, <1>6, <1>7, <1>8, <1>9

\* The operation's own steps.
LEMMA OpKeeps ==
  ASSUME IInv,
         Quiesced \/ BeginStart \/ BeginStop \/ BeginBuild \/
           BeginUpdate \/ Prepare \/ TakeBrokerDown \/ StopLooks \/
           AskSession \/ HaltContainer \/ SayStopped \/ StartContainer
           \/ AlreadyRunning \/ Configure \/ StartLooks \/
           RestartSession \/ SessionIsUp \/ BringBroker \/ SayRunning
           \/ Fails \/ Ended \/ EndedBadly \/ SayError
  PROVE  IInv'
<1>1. CASE Quiesced
  BY <1>1 DEF Quiesced, seat, broker, doing, sweeper, rest, IInv, Claimed,
     KeptOut, Down, Heard, Working
<1>2. CASE BeginStart
  BY <1>2 DEF BeginStart, OpStep, seat, broker, doing, sweeper, rest, IInv,
     Claimed, KeptOut, Down, Heard, Working
<1>3. CASE BeginStop
  BY <1>3 DEF BeginStop, OpStep, seat, broker, doing, sweeper, rest, IInv,
     Claimed, KeptOut, Down, Heard, Working
<1>4. CASE BeginBuild
  BY <1>4 DEF BeginBuild, OpStep, seat, broker, doing, sweeper, rest, IInv,
     Claimed, KeptOut, Down, Heard, Working
<1>5. CASE BeginUpdate
  BY <1>5 DEF BeginUpdate, OpStep, seat, broker, doing, sweeper, rest, IInv,
     Claimed, KeptOut, Down, Heard, Working
<1>6. CASE Prepare
  BY <1>6 DEF Prepare, OpStep, seat, broker, doing, sweeper, rest, IInv,
     Claimed, KeptOut, Down, Heard, Working
<1>7. CASE TakeBrokerDown
  BY <1>7 DEF TakeBrokerDown, OpStep, StopBroker, AfterOff, seat, broker,
     doing, sweeper, rest, IInv, Claimed, KeptOut, Down, Heard, Working
<1>8. CASE StopLooks
  BY <1>8 DEF StopLooks, OpStep, seat, broker, doing, sweeper, rest, IInv,
     Claimed, KeptOut, Down, Heard, Working
<1>9. CASE AskSession
  BY <1>9 DEF AskSession, OpStep, seat, broker, doing, sweeper, rest, IInv,
     Claimed, KeptOut, Down, Heard, Working
<1>10. CASE HaltContainer
  BY <1>10 DEF HaltContainer, OpStep, Emit, seat, broker, doing, sweeper,
     rest, IInv, Claimed, KeptOut, Down, Heard, Working
<1>11. CASE SayStopped
  BY <1>11 DEF SayStopped, OpStep, seat, broker, doing, sweeper, rest, IInv,
     Claimed, KeptOut, Down, Heard, Working
<1>12. CASE StartContainer
  BY <1>12 DEF StartContainer, OpStep, Emit, seat, broker, doing, sweeper,
     rest, IInv, Claimed, KeptOut, Down, Heard, Working
<1>13. CASE AlreadyRunning
  BY <1>13 DEF AlreadyRunning, OpStep, seat, broker, doing, sweeper, rest,
     IInv, Claimed, KeptOut, Down, Heard, Working
<1>14. CASE Configure
  BY <1>14 DEF Configure, OpStep, seat, broker, doing, sweeper, rest, IInv,
     Claimed, KeptOut, Down, Heard, Working
<1>15. CASE StartLooks
  BY <1>15 DEF StartLooks, OpStep, seat, broker, doing, sweeper, rest, IInv,
     Claimed, KeptOut, Down, Heard, Working
<1>16. CASE RestartSession
  BY <1>16 DEF RestartSession, OpStep, seat, broker, doing, sweeper, rest,
     IInv, Claimed, KeptOut, Down, Heard, Working
<1>17. CASE SessionIsUp
  BY <1>17 DEF SessionIsUp, OpStep, seat, broker, doing, sweeper, rest, IInv,
     Claimed, KeptOut, Down, Heard, Working
<1>18. CASE BringBroker
  BY <1>18 DEF BringBroker, OpStep, StartBroker, Broker!Begin, seat, broker,
     doing, sweeper, rest, IInv, Claimed, KeptOut, Down, Heard, Working
<1>19. CASE SayRunning
  BY <1>19 DEF SayRunning, OpStep, seat, broker, doing, sweeper, rest, IInv,
     Claimed, KeptOut, Down, Heard, Working
<1>20. CASE Fails
  BY <1>20 DEF Fails, OpStep, seat, broker, doing, sweeper, rest, IInv,
     Claimed, KeptOut, Down, Heard, Working
<1>21. CASE Ended
  BY <1>21 DEF Ended, seat, broker, doing, sweeper, rest, IInv, Claimed,
     KeptOut, Down, Heard, Working
<1>22. CASE EndedBadly
  BY <1>22 DEF EndedBadly, seat, broker, doing, sweeper, rest, IInv, Claimed,
     KeptOut, Down, Heard, Working
<1>23. CASE SayError
  BY <1>23 DEF SayError, seat, broker, doing, sweeper, rest, IInv, Claimed,
     KeptOut, Down, Heard, Working
<1> QED BY <1>1, <1>2, <1>3, <1>4, <1>5, <1>6, <1>7, <1>8, <1>9, <1>10, <1>11,
           <1>12, <1>13, <1>14, <1>15, <1>16, <1>17, <1>18, <1>19, <1>20,
           <1>21, <1>22, <1>23

\* The sweep's steps.
LEMMA SweepKeeps ==
  ASSUME IInv,
         TickSweep \/ Reconcile \/ SweepStatus \/ SweepDown \/
           SweepSaysDown \/ SweepReads \/ SweepDecides \/
           SweepBringsBroker \/ SweepWrites
  PROVE  IInv'
<1>1. CASE TickSweep
  BY <1>1 DEF TickSweep, SweepBegins, Refused, seat, broker, doing, sweeper,
     rest, IInv, Claimed, KeptOut, Down, Heard, Working
<1>2. CASE Reconcile
  BY <1>2 DEF Reconcile, SweepBegins, Refused, seat, broker, doing, sweeper,
     rest, IInv, Claimed, KeptOut, Down, Heard, Working
<1>3. CASE SweepStatus
  BY <1>3 DEF SweepStatus, SweepStep, seat, broker, doing, sweeper, rest,
     IInv, Claimed, KeptOut, Down, Heard, Working
<1>4. CASE SweepDown
  BY <1>4 DEF SweepDown, SweepStep, StopBroker, seat, broker, doing, sweeper,
     rest, IInv, Claimed, KeptOut, Down, Heard, Working
<1>5. CASE SweepSaysDown
  BY <1>5 DEF SweepSaysDown, SweepStep, seat, broker, doing, sweeper, rest,
     IInv, Claimed, KeptOut, Down, Heard, Working
<1>6. CASE SweepReads
  BY <1>6 DEF SweepReads, SweepStep, seat, broker, doing, sweeper, rest, IInv,
     Claimed, KeptOut, Down, Heard, Working
<1>7. CASE SweepDecides
  BY <1>7 DEF SweepDecides, SweepStep, seat, broker, doing, sweeper, rest,
     IInv, Claimed, KeptOut, Down, Heard, Working
<1>8. CASE SweepBringsBroker
  BY <1>8 DEF SweepBringsBroker, SweepStep, StartBroker, Broker!Begin, seat,
     broker, doing, sweeper, rest, IInv, Claimed, KeptOut, Down, Heard,
     Working
<1>9. CASE SweepWrites
  BY <1>9 DEF SweepWrites, SweepStep, seat, broker, doing, sweeper, rest,
     IInv, Claimed, KeptOut, Down, Heard, Working
<1> QED BY <1>1, <1>2, <1>3, <1>4, <1>5, <1>6, <1>7, <1>8, <1>9

\* The event loop's steps.
LEMMA LoopKeeps ==
  ASSUME IInv,
         Take \/ OnDown \/ LoopSays
  PROVE  IInv'
<1>1. CASE Take
  BY <1>1 DEF Take, LoopStep, Idle, NoEvent, seat, broker, doing, sweeper,
     rest, IInv, Claimed, KeptOut, Down, Heard, Working
<1>2. CASE OnDown
  BY <1>2 DEF OnDown, LoopStep, StopBroker, seat, broker, doing, sweeper,
     rest, IInv, Claimed, KeptOut, Down, Heard, Working
<1>3. CASE LoopSays
  BY <1>3 DEF LoopSays, LoopStep, Says, Idle, NoEvent, seat, broker, doing,
     sweeper, rest, IInv, Claimed, KeptOut, Down, Heard, Working
<1> QED BY <1>1, <1>2, <1>3

\* An operation is claimed.
LEMMA ClaimIInv == ASSUME IInv, NEW j \in Operations, Claim(j) PROVE IInv'
  BY DEF Claim, seat, broker, IInv, Claimed, KeptOut, Down, Heard, Working

LEMMA StutterIInv == ASSUME IInv, UNCHANGED lifeVars PROVE IInv'
  BY DEF lifeVars, seat, broker, doing, sweeper, rest, IInv,
     Claimed, KeptOut, Down, Heard, Working

LEMMA NextIInv == IInv /\ [Next]_lifeVars => IInv'
<1> SUFFICES ASSUME IInv, [Next]_lifeVars PROVE IInv'
  OBVIOUS
<1>1. CASE World \/ BrokerGone \/ BrokerMoves \/ PointerLooks \/ PointerDone
  BY <1>1, WorldKeeps DEF World
<1>2. CASE \E j \in Operations : Claim(j)
  BY <1>2, ClaimIInv
<1>3. CASE OpSteps
  BY <1>3, OpKeeps DEF OpSteps, OpWorks
<1>4. CASE TickSweep \/ Reconcile \/ SweepSteps
  BY <1>4, SweepKeeps DEF SweepSteps
<1>5. CASE LoopSteps
  BY <1>5, LoopKeeps DEF LoopSteps
<1>6. CASE UNCHANGED lifeVars
  BY <1>6, StutterIInv
<1> QED BY <1>1, <1>2, <1>3, <1>4, <1>5, <1>6 DEF Next

-----------------------------------------------------------------------------

\* The inductive invariant holds of every behaviour.
THEOREM Inductive == Spec => []IInv
  BY InitIInv, NextIInv, PTL DEF Spec

\* Stop and restartContainer take the container down with no broker process
\* left, however the sweeps, the event loop and the broker's own exits fall.
THEOREM BrokerFirst == Spec => []NoBrokerIntoShutdown
<1>1. IInv => NoBrokerIntoShutdown
  BY DEF IInv, Down, NoBrokerIntoShutdown
<1> QED BY <1>1, Inductive, PTL

\* The look at the context in refreshSession misses no cancel that reached the
\* reads.
THEOREM CancelSeen == Spec => []CancelledReadsDecideNothing
<1>1. IInv => CancelledReadsDecideNothing
  BY DEF IInv, Heard, CancelledReadsDecideNothing
<1> QED BY <1>1, Inductive, PTL

-----------------------------------------------------------------------------
(* Sweep and operation take turns: every step is one of SeatTurns' or none of *)
(* its business.                                                             *)

TurnVars == <<busy, op, sweep>>

Waiting == {"none", "quiesce", "ended", "failed"}

\* An operation that goes on, or that ends, while the seat stays its own.
LEMMA OpTurns ==
  ASSUME Claimed, op \notin Waiting, op' # "none", op' # "quiesce",
         UNCHANGED <<busy, sweep>>
  PROVE  [Turns!Next]_(Turns!vars)
<1>1. CASE op' \in Waiting
  BY <1>1 DEF Turns!Next, Turns!Done, Working, Waiting
<1>2. CASE op' \notin Waiting
  BY <1>2 DEF Turns!vars, Working, Waiting
<1> QED BY <1>1, <1>2

\* What concerns neither of the two.
LEMMA NoTurn ==
  ASSUME UNCHANGED TurnVars
  PROVE  [Turns!Next]_(Turns!vars)
  BY DEF TurnVars, Turns!vars, Working

\* A reading goes on or ends, and a new one finds the seat free.
LEMMA SweepTurns ==
  ASSUME UNCHANGED <<busy, op>>,
         sweep = "none" /\ sweep' # "none" => busy = ""
  PROVE  [Turns!Next]_(Turns!vars)
<1>1. CASE sweep = "none" /\ sweep' # "none"
  BY <1>1 DEF Turns!Next, Turns!Enter, Working
<1>2. CASE sweep # "none" /\ sweep' = "none"
  BY <1>2 DEF Turns!Next, Turns!Leave, Working
<1>3. CASE (sweep = "none") <=> (sweep' = "none")
  BY <1>3 DEF Turns!vars, Working
<1> QED BY <1>1, <1>2, <1>3

LEMMA TurnStep == IInv /\ [Next]_lifeVars => [Turns!Next]_(Turns!vars)
<1> SUFFICES ASSUME IInv, [Next]_lifeVars PROVE [Turns!Next]_(Turns!vars)
  OBVIOUS
<1>1. CASE World \/ BrokerGone \/ BrokerMoves \/ PointerLooks \/ PointerDone
  <2>1. CASE DaemonRestarts
    BY <2>1 DEF DaemonRestarts, Turns!Next, Turns!Restart, Working
  <2>2. CASE ~DaemonRestarts
    <3>1. UNCHANGED TurnVars
      BY <1>1, <2>2 DEF World, OutsideStops, OutsideStarts, OutsideDeletes,
         SessionTurns, Outside, BrokerGone, BrokerMoves, PointerLooks,
         PointerDone, doing, sweeper, TurnVars
    <3> QED BY <3>1, NoTurn
  <2> QED BY <2>1, <2>2
<1>2. ASSUME NEW j \in Operations, Claim(j) PROVE [Turns!Next]_(Turns!vars)
  BY <1>2 DEF Claim, Turns!Next, Turns!Claim, Working
<1>3. CASE Quiesced
  BY <1>3 DEF Quiesced, sweeper, IInv, Claimed, Turns!Next, Turns!Work, Working
<1>4. CASE OpWorks
  <2>1. /\ op \notin Waiting /\ op' # "none" /\ op' # "quiesce"
        /\ UNCHANGED <<busy, sweep>>
    BY <1>4 DEF OpWorks, BeginStart, BeginStop, BeginBuild, BeginUpdate,
       Prepare, TakeBrokerDown, StopLooks, AskSession, HaltContainer,
       SayStopped, StartContainer, AlreadyRunning, Configure, StartLooks,
       RestartSession, SessionIsUp, BringBroker, SayRunning, Fails, OpStep,
       AfterOff, sweeper, Waiting
  <2> QED BY <2>1, OpTurns DEF IInv
<1>5. CASE Ended \/ EndedBadly
  BY <1>5 DEF Ended, EndedBadly, sweeper, IInv, Claimed, Turns!Next,
     Turns!GiveUp, Working
<1>6. CASE SayError \/ LoopSteps \/ UNCHANGED lifeVars
  <2>1. UNCHANGED TurnVars
    BY <1>6 DEF SayError, LoopSteps, Take, OnDown, LoopSays, LoopStep,
       lifeVars, doing, sweeper, TurnVars
  <2> QED BY <2>1, NoTurn
<1>7. CASE TickSweep \/ Reconcile \/ SweepSteps
  <2>1. /\ UNCHANGED <<busy, op>>
        /\ sweep = "none" /\ sweep' # "none" => busy = ""
    BY <1>7 DEF TickSweep, Reconcile, SweepBegins, Refused, SweepSteps,
       SweepStatus, SweepDown, SweepSaysDown, SweepReads, SweepDecides,
       SweepBringsBroker, SweepWrites, SweepStep, doing, sweeper
  <2> QED BY <2>1, SweepTurns
<1> QED BY <1>1, <1>2, <1>3, <1>4, <1>5, <1>6, <1>7 DEF Next, OpSteps

\* quiesce and beginSweep give the seat to the sweep and to the operation by
\* turns: what SeatLanes promises of its lanes (SeatTurns) is kept by the steps
\* that use them here, for any number of requests and moves from outside.
THEOREM TurnsKept == Spec => KeepsTheTurns
<1>1. Init => Turns!Init
  BY DEF Init, Turns!Init, Working
<1> QED BY <1>1, TurnStep, Inductive, PTL DEF Spec, KeepsTheTurns, Turns!Spec
-----------------------------------------------------------------------------
(* The list of games of a seat (GameList), whose refresh runs beside the    *)
(* operations above: what it promises to whoever streams and to whoever      *)
(* edits the list himself, for any games, any number of visits and any       *)
(* failures.                                                                 *)

\* Between its look at the ports and the reload somebody is there only if he
\* came after the look.
LookedJustNow == apps = "reload" /\ client => cameLate

\* Every list is made of games.
FoundGames ==
  /\ games \subseteq Games /\ list \subseteq Games
  /\ memory.games \subseteq Games

\* Between the read of apps.json and its write only the entry somebody adds
\* by hand can have come to it, unless the read met it half written.
ReadJustNow ==
  apps = "write" /\ base # {Torn} =>
    /\ file # {Torn} => file \subseteq base \cup {Hand}
    /\ file = {Torn} => rewrite \subseteq base \cup {Hand}

ListInv == LookedJustNow /\ FoundGames /\ ReadJustNow

\* What the list offers was found.
LEMMA OfferedIsFound == \A gs : Offer(gs) \subseteq gs
  BY DEF Offer, Dedupe

LEMMA ScansFindGames ==
  ASSUME games \subseteq Games
  PROVE  \A src : Of(src) \subseteq Games
  BY DEF Of

\* The entry somebody added is not one of ours.
LEMMA HandIsNotOurs ==
  ASSUME NEW gs, gs \subseteq Games
  PROVE  \A e \in Fresh(gs) : e.name # Hand.name
<1>1. ASSUME NEW g \in gs PROVE Entry(g).name = g.name /\ g.name # "my own"
  BY <1>1, GameListAssumption DEF Entry
<1>2. ASSUME NEW e \in Fixed PROVE e.name # "my own"
  <2>1. CASE e = [name |-> "Desktop", by |-> "polyseat"]
    <3>1. e.name = "Desktop"
      BY <2>1
    <3> QED BY <3>1
  <2>2. CASE e = [name |-> "Steam Big Picture", by |-> "polyseat"]
    <3>1. e.name = "Steam Big Picture"
      BY <2>2
    <3> QED BY <3>1
  <2> QED BY <1>2, <2>1, <2>2 DEF Fixed
<1>3. Hand.name = "my own"
  BY DEF Hand
<1> QED BY <1>1, <1>2, <1>3 DEF Fresh

\* mergeApps keeps it, in a file that has something of ours in it.
LEMMA MergeKeepsHand ==
  ASSUME NEW gs, gs \subseteq Games,
         NEW old, Marked(old), Hand \in old
  PROVE  Hand \in Merge(gs, old)
<1>1. \A o \in Fresh(gs) : o.name # Hand.name
  BY HandIsNotOurs
<1>2. Hand.by = "hand"
  BY DEF Hand
<1> QED BY <1>1, <1>2 DEF Merge

LEMMA InitList == ListInit => ListInv
<1> SUFFICES ASSUME ListInit PROVE ListInv
  OBVIOUS
<1>1. /\ games \subseteq Games /\ list = {} /\ memory.games = {}
      /\ apps = "off" /\ ~client
  BY GameListAssumption DEF ListInit
<1> QED BY <1>1 DEF ListInv, LookedJustNow, FoundGames, ReadJustNow

-----------------------------------------------------------------------------
(* One lemma for each of the three parts.                                  *)

LEMMA StillLooked == ListInv /\ [ListNext]_(listVars) => LookedJustNow'
<1> SUFFICES ASSUME ListInv, [ListNext]_(listVars) PROVE LookedJustNow'
  OBVIOUS
<1> USE DEF ListInv, LookedJustNow
<1>1. CASE Connect
  BY <1>1 DEF Connect, run
<1>2. CASE Leave
  BY <1>2 DEF Leave
<1>3. CASE \/ PlayerChangesGames \/ HandEdits \/ SunshineHasWritten \/ IntervalPasses
           \/ OpClaims \/ OpBegins
  BY <1>3 DEF PlayerChangesGames, HandEdits, SunshineHasWritten, IntervalPasses,
     OpClaims, OpBegins, run
<1>4. CASE Sweep \/ SessionEnded
  BY <1>4 DEF Sweep, SweepFindsBusy, SweepFindsIdle,
     SessionEnded, Judged, RefreshAppsSoon
<1>5. CASE \/ ScanLaunchers \/ ScanSteam \/ LutrisState
           \/ LutrisGames \/ ScanOthers \/ WriteEntries
  BY <1>5 DEF ScanLaunchers, ScanSteam, LutrisState,
     LutrisGames, ScanOthers, WriteEntries, GoesOn,
     Then, Ends
<1>6. CASE ReadAppsFile \/ WriteAppsFile
  BY <1>6 DEF ReadAppsFile, WriteAppsFile, GoesOn, Then,
     Ends
<1>7. CASE CheckNobodyStreams
  BY <1>7 DEF CheckNobodyStreams, SaysIdle, GoesOn, Then,
     Ends
<1>8. CASE Reload
  BY <1>8 DEF Reload, Ends
<1>9. CASE Installs
  BY <1>9 DEF Installs
<1>10. CASE UNCHANGED listVars
  BY <1>10 DEF listVars, run
<1> QED
  BY <1>1, <1>2, <1>3, <1>4, <1>5, <1>6, <1>7, <1>8, <1>9, <1>10
     DEF ListNext, RefreshApps, Operation

LEMMA StillGames == ListInv /\ [ListNext]_(listVars) => FoundGames'
<1> SUFFICES ASSUME ListInv, [ListNext]_(listVars) PROVE FoundGames'
  OBVIOUS
<1> USE DEF ListInv, FoundGames
<1>1. CASE PlayerChangesGames \/ Installs
  BY <1>1 DEF PlayerChangesGames, Installs, OneMoreOrLess,
     run
<1>2. CASE \/ Connect \/ Leave \/ HandEdits \/ SunshineHasWritten
           \/ IntervalPasses \/ OpClaims \/ OpBegins
  BY <1>2 DEF Connect, Leave, HandEdits, SunshineHasWritten, IntervalPasses,
     OpClaims, OpBegins, run, content
<1>3. CASE Sweep \/ SessionEnded
  BY <1>3 DEF Sweep, SweepFindsBusy, SweepFindsIdle,
     SessionEnded, content
<1>4. CASE ScanLaunchers \/ ReadAppsFile
  BY <1>4 DEF ScanLaunchers, ReadAppsFile, GoesOn, Then,
     Ends, content
<1>5. CASE ScanSteam
  BY <1>5, ScansFindGames DEF ScanSteam, SteamGames, content
<1>6. CASE LutrisState
  BY <1>6 DEF LutrisState, content
<1>7. CASE LutrisGames
  BY <1>7, ScansFindGames DEF LutrisGames, content
<1>8. CASE ScanOthers
  <2> DEFINE scanned == list \cup FaugusGames \cup HeroicGames
                           \cup AppImageGames
             all == scanned \cup Shortcuts(scanned)
  <2>1. scanned \subseteq Games
    BY ScansFindGames DEF FaugusGames, HeroicGames, AppImageGames
  <2>2. all \subseteq Games
    BY <2>1, ScansFindGames DEF Shortcuts
  <2>3. PICK gs \in SUBSET all : list' = Offer(gs)
    <3>1. list \subseteq all
      OBVIOUS
    <3>2. CASE list' = Offer(all)
      BY <3>2
    <3>3. CASE \E silent \in {g.source : g \in all \ list} :
                 list' = Offer({g \in all : g.source # silent})
      <4>1. PICK silent : list' = Offer({g \in all : g.source # silent})
        BY <3>3
      <4> HIDE DEF all
      <4> QED BY <4>1
    <3>4. CASE list' = Offer(list)
      BY <3>1, <3>4
    <3> HIDE DEF all, scanned
    <3> QED BY <1>8, <3>2, <3>3, <3>4 DEF ScanOthers, all, scanned
  <2>4. list' \subseteq Games
    BY <2>2, <2>3, OfferedIsFound
  <2> QED BY <1>8, <2>4 DEF ScanOthers, content
<1>9. CASE WriteEntries \/ WriteAppsFile
  BY <1>9 DEF WriteEntries, WriteAppsFile, GoesOn, Then,
     Ends
<1>10. CASE CheckNobodyStreams
  BY <1>10 DEF CheckNobodyStreams, GoesOn, Then, Ends,
     content
<1>11. CASE Reload
  BY <1>11 DEF Reload, Ends
<1>12. CASE UNCHANGED listVars
  BY <1>12 DEF listVars, run, content
<1> QED
  BY <1>1, <1>2, <1>3, <1>4, <1>5, <1>6, <1>7, <1>8, <1>9, <1>10, <1>11, <1>12
     DEF ListNext, RefreshApps, Operation

LEMMA StillRead == ListInv /\ [ListNext]_(listVars) => ReadJustNow'
<1> SUFFICES ASSUME ListInv, [ListNext]_(listVars) PROVE ReadJustNow'
  OBVIOUS
<1> USE DEF ListInv, ReadJustNow
<1>1. CASE HandEdits \/ SunshineHasWritten
  BY <1>1 DEF HandEdits, SunshineHasWritten, run
<1>2. CASE \/ Connect \/ Leave \/ PlayerChangesGames
           \/ IntervalPasses \/ OpClaims \/ OpBegins
  BY <1>2 DEF Connect, Leave, PlayerChangesGames,
     IntervalPasses, OpClaims, OpBegins, run, content
<1>3. CASE Sweep \/ SessionEnded
  BY <1>3 DEF Sweep, SweepFindsBusy, SweepFindsIdle,
     SessionEnded, Judged, RefreshAppsSoon, content
<1>4. CASE \/ ScanLaunchers \/ ScanSteam \/ LutrisState
           \/ LutrisGames \/ ScanOthers \/ WriteEntries
  BY <1>4 DEF ScanLaunchers, ScanSteam, LutrisState,
     LutrisGames, ScanOthers, WriteEntries, GoesOn,
     Then, Ends
<1>5. CASE ReadAppsFile
  BY <1>5 DEF ReadAppsFile, GoesOn, Then, Ends, content
<1>6. CASE WriteAppsFile
  BY <1>6 DEF WriteAppsFile, GoesOn, Then, Ends
<1>7. CASE CheckNobodyStreams \/ Reload
  BY <1>7 DEF CheckNobodyStreams, Reload, GoesOn, Then,
     Ends
<1>8. CASE Installs
  BY <1>8 DEF Installs
<1>9. CASE UNCHANGED listVars
  BY <1>9 DEF listVars, run, content
<1> QED
  BY <1>1, <1>2, <1>3, <1>4, <1>5, <1>6, <1>7, <1>8, <1>9
     DEF ListNext, RefreshApps, Operation

\* What a run of refreshApps knows at each of its steps.
THEOREM ListInductive ==
  ListSpec => []ListInv
<1>1. ListInv /\ [ListNext]_(listVars) => ListInv'
  BY StillLooked, StillGames, StillRead DEF ListInv
<1> QED BY InitList, <1>1, PTL DEF ListSpec

-----------------------------------------------------------------------------

\* Nobody who was there at the last look before a reload loses his stream to it.
THEOREM NobodyIsReloadedAway ==
  ListSpec => ReloadsOnFreshNews
<1> DEFINE Fresher == client /\ ~client' /\ apps' # apps => cameLate
<1>1. ListInv /\ [ListNext]_(listVars) => Fresher
  <2> SUFFICES ASSUME ListInv, [ListNext]_(listVars), client, ~client',
                      apps' # apps
               PROVE  cameLate
    OBVIOUS
  <2>1. Reload \/ Leave
    BY DEF ListNext, Connect, PlayerChangesGames, HandEdits, SunshineHasWritten,
       Sweep, SweepFindsBusy, SweepFindsIdle,
       IntervalPasses, SessionEnded, RefreshApps,
       ScanLaunchers, ScanSteam, LutrisState, LutrisGames,
       ScanOthers, WriteEntries, ReadAppsFile,
       WriteAppsFile, CheckNobodyStreams, OpClaims,
       Operation, OpBegins, Installs, listVars
  <2>2. ~Leave
    BY DEF Leave, run
  <2> QED BY <2>1, <2>2 DEF Reload, ListInv, LookedJustNow
<1> QED BY <1>1, ListInductive, PTL DEF ListSpec, ReloadsOnFreshNews

\* A list that says something of ours keeps what it was read with.
THEOREM HandAddedIsKept ==
  ListSpec => HandAddedStays
<1> DEFINE Drops == /\ Hand \in file /\ Hand \notin file'
                    /\ file' # {Torn} /\ Marked(file)
<1>1. ListInv /\ [ListNext]_(listVars) => (Drops => MayDrop)
  <2> SUFFICES ASSUME ListInv, [ListNext]_(listVars), Drops, base # {Torn}
               PROVE  Marked(base) /\ Hand \notin base
    BY DEF MayDrop
  <2>1. file # {Torn}
    <3>1. Hand.by = "hand" /\ Torn.by = "torn"
      BY DEF Hand, Torn
    <3>2. Hand # Torn
      BY <3>1
    <3> QED BY <3>2
  <2>2. WriteAppsFile
    <3>1. ~(HandEdits \/ SunshineHasWritten)
      BY <2>1 DEF HandEdits, SunshineHasWritten
    <3>2. file' # file
      OBVIOUS
    <3> QED
      BY <3>1, <3>2 DEF ListNext, Connect, Leave, PlayerChangesGames,
         Sweep, SweepFindsBusy, SweepFindsIdle, IntervalPasses, SessionEnded,
         RefreshApps, ScanLaunchers, ScanSteam, LutrisState, LutrisGames,
         ScanOthers, WriteEntries, ReadAppsFile, Reload, CheckNobodyStreams,
         OpClaims, Operation, OpBegins, Installs, listVars, content
  <2>3. file' = Merge(list, base) /\ apps = "write"
    BY <2>2 DEF WriteAppsFile
  <2>4. Marked(base)
    <3>1. Hand.by = "hand"
      BY DEF Hand
    <3>2. file \subseteq base \cup {Hand}
      BY <2>1, <2>3 DEF ListInv, ReadJustNow
    <3> QED BY <3>1, <3>2 DEF Marked
  <2>5. Hand \notin base
    BY <2>3, <2>4, MergeKeepsHand DEF ListInv, FoundGames
  <2> QED BY <2>4, <2>5
<1> QED BY <1>1, ListInductive, PTL DEF ListSpec, HandAddedStays
=============================================================================
