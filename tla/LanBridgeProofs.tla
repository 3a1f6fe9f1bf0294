-------------------------- MODULE LanBridgeProofs --------------------------
(***************************************************************************)
(* Between two runs of the script the machine is on the network and comes  *)
(* up again as it is, for any seats, requests and numbers of runs, refused *)
(* calls and interruptions.                                                *)
(*                                                                         *)
(* What the script has reached is told by the step it is at (Progress):    *)
(* the way there builds the bridge from nothing, so its steps say it       *)
(* whatever there was before; the way back says it as long as none of its  *)
(* own calls was refused, which is what half and trouble together note.  A *)
(* flag that says half is taken back only by a run that came all the way   *)
(* without trouble, and such a run has reached one of the two whole        *)
(* arrangements by itself.                                                 *)
(*                                                                         *)
(* A run fails for a cause: once the seats are stopped nobody has the      *)
(* interface unless there was trouble (Freed), and a run is on its way     *)
(* back only when there was (RolledBackForCause).                          *)
(***************************************************************************)
EXTENDS LanBridge, TLAPS

\* The two arrangements a run may leave behind.
OnPlain ==
  /\ link = "plain" /\ ~portCon /\ ~bridgeCon
  /\ IF plain = "saved" THEN plainAuto ELSE invents

OnBridge == link = "bridge" /\ portCon /\ bridgeCon

Whole == OnPlain \/ OnBridge

\* No call of this run's way back was refused.
Clean == ~half \/ ~trouble

Resting == pc \in {"idle", "begin"} /\ ~half => Whole

StoppingSeats ==
  pc = "stop" /\ ~half =>
    /\ mode = "install" => OnPlain
    /\ mode \in {"onto", "undo"} => OnBridge

Building ==
  /\ pc \in {"addBridge", "addPort", "release", "switchOff", "upBridge", "upPort", "verify"}
       => mode = "install"
  /\ pc \in {"addPort", "release", "switchOff", "upBridge", "upPort", "verify"} => bridgeCon
  /\ pc \in {"release", "switchOff", "upBridge", "upPort", "verify"} => portCon
  /\ pc = "verify" => OnBridge

WayBack ==
  /\ pc \in {"deletePort", "deleteBridge", "restore", "raise"} => mode \in {"undo", "rollback"}
  /\ pc \in {"deleteBridge", "restore", "raise"} /\ Clean => ~portCon
  /\ pc \in {"restore", "raise"} /\ Clean => ~bridgeCon
  /\ pc = "raise" /\ Clean => plain = "saved" /\ plainAuto

Repointing ==
  pc = "repoint" =>
    /\ mode \in {"install", "onto", "undo"}
    /\ mode = "install" => OnBridge
    /\ mode = "onto" /\ ~half => OnBridge
    /\ mode = "undo" /\ Clean => OnPlain

StopsInMode == pc = "stop" => mode # "rollback"

\* A step of the script is taken for a run the Runner knows of.
AtWork == pc # "idle" => runner = "script"

Flags == half \in BOOLEAN /\ trouble \in BOOLEAN /\ plainAuto \in BOOLEAN
         /\ bridgeCon \in BOOLEAN /\ portCon \in BOOLEAN /\ invents \in BOOLEAN

Modes == mode \in {"install", "onto", "undo", "rollback"}

IInv == Resting /\ StoppingSeats /\ Building /\ WayBack /\ Repointing /\ StopsInMode /\ Flags /\ Modes

USE DEF net, Whole, OnPlain, OnBridge, Clean

\* What leaves the network and the script where they are can only make a run
\* troubled.
LEMMA Elsewhere ==
  ASSUME IInv, UNCHANGED <<net, mode, pc, half>>, trouble' \in BOOLEAN, trouble => trouble'
  PROVE  IInv'
  BY DEF IInv, Resting, StoppingSeats, Building, WayBack, Repointing, StopsInMode, Flags, Modes

\* A run that ends where both arrangements were whole, or that says it is not
\* over, leaves no more than Resting asks.
LEMMA Ending ==
  ASSUME Ends, Flags', ~half' => Whole'
  PROVE  IInv'
  BY DEF Ends, IInv, Resting, StoppingSeats, Building, WayBack, Repointing, StopsInMode, Modes

LEMMA Beginning ==
  ASSUME IInv, InstallBegins \/ UndoBegins
  PROVE  IInv'
<1>1. Flags'
  BY DEF InstallBegins, UndoBegins, notes, IInv, Flags
<1>2. pc = "begin" /\ UNCHANGED <<net, half, trouble>>
  BY DEF InstallBegins, UndoBegins, notes
<1>3. CASE Ends
  BY <1>1, <1>2, <1>3, Ending DEF IInv, Resting
<1>4. CASE pc' = "stop"
  <2>1. ~half => Whole
    BY <1>2 DEF IInv, Resting
  <2>2. ~half /\ mode' = "install" => OnPlain'
    BY <1>2, <1>4, <2>1 DEF InstallBegins, UndoBegins, Ends, StopsFirst, GoesOn
  <2>3. ~half /\ mode' \in {"onto", "undo"} => OnBridge'
    BY <1>2, <1>4, <2>1 DEF InstallBegins, UndoBegins, Ends, StopsFirst, GoesOn
  <2>4. Modes' /\ mode' # "rollback"
    BY <1>4 DEF InstallBegins, UndoBegins, Ends, StopsFirst, GoesOn, IInv, Modes
  <2> QED
    BY <1>1, <1>2, <1>4, <2>2, <2>3, <2>4
       DEF IInv, Resting, StoppingSeats, Building, WayBack, Repointing, StopsInMode
<1> QED
  BY <1>3, <1>4 DEF InstallBegins, UndoBegins, StopsFirst, GoesOn

LEMMA Stopping ==
  ASSUME IInv, (\E s \in Seats : StopSeat(s)) \/ SeatsStopped
  PROVE  IInv'
<1>1. CASE \E s \in Seats : StopSeat(s)
  <2>1. PICK s \in Seats : StopSeat(s)
    BY <1>1
  <2>2. pc = "stop" /\ UNCHANGED <<net, half>> /\ trouble' \in {trouble, TRUE}
    BY <2>1 DEF StopSeat
  <2>3. Flags'
    BY <2>2 DEF IInv, Flags
  <2>4. CASE UNCHANGED <<mode, pc>>
    BY <2>2, <2>4, Elsewhere DEF IInv, Flags
  <2>5. CASE Ends
    BY <2>2, <2>3, <2>5, Ending DEF IInv, StoppingSeats, StopsInMode, Modes
  <2> QED
    BY <2>1, <2>4, <2>5 DEF StopSeat, GoesOn
<1>2. CASE SeatsStopped
  <2>1. pc = "stop" /\ UNCHANGED <<net, half, trouble, mode>>
    BY <1>2 DEF SeatsStopped, notes
  <2>2. pc' = CASE mode = "install" -> "addBridge"
                [] mode = "undo"    -> "deletePort"
                [] OTHER            -> "repoint"
    BY <1>2 DEF SeatsStopped, GoesOn
  <2> QED
    BY <2>1, <2>2 DEF IInv, Resting, StoppingSeats, Building, WayBack, Repointing, StopsInMode, Flags, Modes
<1> QED
  BY <1>1, <1>2

\* A step of the way there that is refused begins the way back, of which
\* nothing is known yet.
LEMMA RollingBack ==
  ASSUME IInv, RollsBack, UNCHANGED <<net, half>>, trouble' \in BOOLEAN
  PROVE  IInv'
  BY DEF RollsBack, GoesOn, IInv, Resting, StoppingSeats, Building, WayBack, Repointing,
         StopsInMode, Flags, Modes

LEMMA GoingThere ==
  ASSUME IInv,
         AddBridge \/ AddPort \/ ReleaseUplink \/ SwitchOff \/ UpBridge \/ UpPort \/ PortIsBusy
           \/ Verify
  PROVE  IInv'
<1> USE DEF IInv, Resting, StoppingSeats, Building, WayBack, Repointing, StopsInMode, Flags, Modes
<1>1. CASE AddBridge
  <2>1. CASE RollsBack /\ trouble' = TRUE /\ UNCHANGED net
    BY <1>1, <2>1, RollingBack DEF AddBridge, Step
  <2> QED
    BY <1>1, <2>1 DEF AddBridge, Step, GoesOn
<1>2. CASE AddPort
  <2>1. CASE RollsBack /\ trouble' = TRUE /\ UNCHANGED net
    BY <1>2, <2>1, RollingBack DEF AddPort, Step
  <2> QED
    BY <1>2, <2>1 DEF AddPort, Step, GoesOn
<1>3. CASE ReleaseUplink
  BY <1>3 DEF ReleaseUplink, GoesOn
<1>4. CASE SwitchOff
  <2>1. CASE RollsBack /\ trouble' = TRUE /\ UNCHANGED net
    BY <1>4, <2>1, RollingBack DEF SwitchOff, Step
  <2> QED
    BY <1>4, <2>1 DEF SwitchOff, Step, GoesOn
<1>5. CASE UpBridge
  <2>1. CASE RollsBack /\ trouble' = TRUE /\ UNCHANGED net
    BY <1>5, <2>1, RollingBack DEF UpBridge, Step
  <2> QED
    BY <1>5, <2>1 DEF UpBridge, Step, GoesOn
<1>6. CASE UpPort
  <2>1. CASE RollsBack /\ trouble' = TRUE /\ UNCHANGED net
    BY <1>6, <2>1, RollingBack DEF UpPort, Step
  <2> QED
    BY <1>6, <2>1 DEF UpPort, Step, GoesOn
<1>7. CASE PortIsBusy
  BY <1>7, RollingBack DEF PortIsBusy, notes
<1>8. CASE Verify
  <2>1. CASE RollsBack /\ trouble' = TRUE /\ UNCHANGED net
    BY <1>8, <2>1, RollingBack DEF Verify, Step
  <2> QED
    BY <1>8, <2>1 DEF Verify, Step, GoesOn
<1> QED
  BY <1>1, <1>2, <1>3, <1>4, <1>5, <1>6, <1>7, <1>8

\* A call of the way back that is refused leaves a run of which nothing is said.
LEMMA LosingTheWay ==
  ASSUME IInv, pc' \in {"deleteBridge", "restore", "raise"}, mode' = mode,
         mode \in {"undo", "rollback"}, half' = TRUE, trouble' = TRUE, UNCHANGED net
  PROVE  IInv'
  BY DEF IInv, Resting, StoppingSeats, Building, WayBack, Repointing, StopsInMode, Flags, Modes

LEMMA GoingBack ==
  ASSUME IInv, DeletePort \/ DeleteBridge \/ RestoreUplink
  PROVE  IInv'
<1>1. CASE pc' \in {"deleteBridge", "restore", "raise"} /\ half' = TRUE /\ trouble' = TRUE
             /\ UNCHANGED net
  <2>1. mode' = mode /\ mode \in {"undo", "rollback"}
    BY DEF DeletePort, DeleteBridge, RestoreUplink, Deletes, IInv, WayBack
  <2> QED
    BY <1>1, <2>1, LosingTheWay
<1>2. CASE /\ pc = "deletePort" /\ pc' = "deleteBridge" /\ UNCHANGED <<mode, half, trouble>>
           /\ portCon' = FALSE /\ UNCHANGED <<plain, plainAuto, bridgeCon, invents>>
  BY <1>2 DEF IInv, Resting, StoppingSeats, Building, WayBack, Repointing, StopsInMode, Flags, Modes
<1>3. CASE /\ pc = "deleteBridge" /\ pc' = "restore" /\ UNCHANGED <<mode, half, trouble>>
           /\ bridgeCon' = FALSE /\ UNCHANGED <<plain, plainAuto, portCon, invents>>
  BY <1>3 DEF IInv, Resting, StoppingSeats, Building, WayBack, Repointing, StopsInMode, Flags, Modes
<1>4. CASE /\ pc = "restore" /\ pc' = "raise" /\ UNCHANGED <<mode, half, trouble>>
           /\ plain' = "saved" /\ plainAuto' = TRUE /\ UNCHANGED <<link, bridgeCon, portCon, invents>>
  BY <1>4 DEF IInv, Resting, StoppingSeats, Building, WayBack, Repointing, StopsInMode, Flags, Modes
<1> QED
  BY <1>1, <1>2, <1>3, <1>4 DEF DeletePort, DeleteBridge, RestoreUplink, Deletes, GoesOn

LEMMA Raising ==
  ASSUME IInv, RaiseUplink
  PROVE  IInv'
<1>1. Flags' /\ pc = "raise"
  BY DEF RaiseUplink, IInv, Flags
<1>2. CASE Ends
  <2>1. ~half' => OnPlain'
    BY <1>1, <1>2 DEF RaiseUplink, IInv, WayBack
  <2> QED
    BY <1>1, <1>2, <2>1, Ending
<1>3. CASE mode = "undo" /\ GoesOn("repoint") /\ SameRun /\ link' = "plain"
                /\ UNCHANGED <<half, trouble>>
  BY <1>1, <1>3 DEF RaiseUplink, GoesOn, SameRun, IInv, Resting, StoppingSeats, Building, WayBack,
                    Repointing, StopsInMode, Modes
<1> QED
  BY <1>2, <1>3 DEF RaiseUplink

LEMMA Moving ==
  ASSUME IInv, (\E s \in Seats : Repoint(s)) \/ Finishes
  PROVE  IInv'
<1>1. CASE \E s \in Seats : Repoint(s)
  <2>1. PICK s \in Seats : Repoint(s)
    BY <1>1
  <2>2. UNCHANGED net /\ pc = "repoint"
    BY <2>1 DEF Repoint
  <2>3. CASE Ends /\ half' /\ trouble' = TRUE
    BY <2>2, <2>3, Ending DEF IInv, Flags, Repoint
  <2>4. CASE UNCHANGED <<mode, pc, half, trouble>>
    BY <2>2, <2>4, Elsewhere DEF IInv, Flags
  <2> QED
    BY <2>1, <2>3, <2>4 DEF Repoint, GoesOn
<1>2. CASE Finishes
  <2>1. Flags' /\ pc = "repoint" /\ Ends /\ UNCHANGED <<net, trouble>>
        /\ half' = (half /\ (trouble \/ mode = "onto"))
    BY <1>2 DEF Finishes, IInv, Flags
  <2>2. ~half' => Whole'
    BY <2>1 DEF IInv, Repointing, Flags
  <2> QED
    BY <2>1, <2>2, Ending
<1> QED
  BY <1>1, <1>2

LEMMA Interrupted ==
  ASSUME IInv, ScriptIsKilled \/ DaemonRestarts \/ Reboots
  PROVE  IInv'
<1>1. CASE ScriptIsKilled
  BY <1>1, Ending DEF ScriptIsKilled, IInv, Flags
<1>2. CASE DaemonRestarts \/ Reboots
  <2>1. pc' = "idle" /\ mode' = "install" /\ half' = (half \/ pc # "idle") /\ trouble' = trouble
    BY <1>2 DEF DaemonRestarts, Reboots, DaemonIsGone
  <2>2. ~half' => Whole
    BY <2>1 DEF IInv, Resting, Flags
  <2>3. ~half' => Whole'
    BY <1>2, <2>2 DEF DaemonRestarts, Reboots, Boot, IInv, Flags
  <2>4. Flags'
    BY <1>2, <2>1 DEF DaemonRestarts, Reboots, IInv, Flags
  <2> QED
    BY <2>1, <2>3, <2>4 DEF IInv, Resting, StoppingSeats, Building, WayBack, Repointing,
                            StopsInMode, Modes
<1> QED
  BY <1>1, <1>2

LEMMA Daemons ==
  ASSUME IInv,
         \/ Runner
         \/ \E q \in Requests : ListSeats(q) \/ StartRun(q) \/ StartRefused(q)
         \/ \E s \in Seats : \/ ContainerStarts(s) \/ StartIsOver(s)
                         \/ PressStart(s) \/ PressStop(s) \/ SetIsolated(s),
         AtWork
  PROVE  IInv'
<1>1. CASE \E q \in Requests : StartRun(q)
  <2>1. /\ pc = "idle" /\ pc' = "begin" /\ mode' \in {"install", "undo"} /\ trouble' = FALSE
        /\ UNCHANGED <<net, half>>
    BY <1>1 DEF StartRun, AtWork
  <2>2. ~half => Whole
    BY <2>1 DEF IInv, Resting
  <2> QED
    BY <2>1, <2>2 DEF IInv, Resting, StoppingSeats, Building, WayBack, Repointing, StopsInMode,
                      Flags, Modes
<1>2. CASE Runner \/ \E q \in Requests : ListSeats(q) \/ StartRefused(q)
  <2>1. UNCHANGED <<net, mode, pc, half, trouble>>
    BY <1>2 DEF Runner, RunIsOver, ResumeSeat, ListSeats, StartRefused, script, notes
  <2> QED
    BY <2>1, Elsewhere DEF IInv, Flags
<1>3. CASE \E s \in Seats : \/ ContainerStarts(s) \/ StartIsOver(s)
                              \/ PressStart(s) \/ PressStop(s) \/ SetIsolated(s)
  <2>1. UNCHANGED <<net, mode, pc, half>>
    BY <1>3 DEF ContainerStarts, StartIsOver, PressStart, PressStop, SetIsolated, script, notes
  <2>2. trouble \in BOOLEAN
    BY DEF IInv, Flags
  <2>3. CASE trouble' = trouble
    BY <2>1, <2>2, <2>3, Elsewhere
  <2>4. ASSUME NEW s \in Seats, ContainerStarts(s) PROVE IInv'
    BY <2>1, <2>2, <2>4, Elsewhere DEF ContainerStarts
  <2>5. ASSUME NEW s \in Seats, SetIsolated(s) PROVE IInv'
    BY <2>1, <2>2, <2>5, Elsewhere DEF SetIsolated
  <2> QED
    BY <1>3, <2>3, <2>4, <2>5 DEF StartIsOver, PressStart, PressStop, notes
<1> QED
  BY <1>1, <1>2, <1>3

LEMMA RunnerKnows ==
  ASSUME AtWork, [Next]_vars
  PROVE  AtWork'
<1> USE DEF AtWork, daemon, script
<1>1. CASE Script
  <2>1. CASE InstallBegins \/ UndoBegins \/ SeatsStopped
    BY <2>1 DEF InstallBegins, UndoBegins, SeatsStopped, StopsFirst, GoesOn, Ends
  <2>2. CASE AddBridge \/ AddPort \/ ReleaseUplink \/ SwitchOff
    BY <2>2 DEF AddBridge, AddPort, ReleaseUplink, SwitchOff, Step, RollsBack, GoesOn
  <2>3. CASE UpBridge \/ UpPort \/ PortIsBusy \/ Verify
    BY <2>3 DEF UpBridge, UpPort, PortIsBusy, Verify, Step, RollsBack, GoesOn
  <2>4. CASE DeletePort \/ DeleteBridge \/ RestoreUplink
    BY <2>4 DEF DeletePort, DeleteBridge, RestoreUplink, Deletes, GoesOn
  <2>5. CASE RaiseUplink \/ Finishes
    BY <2>5 DEF RaiseUplink, Finishes, GoesOn, Ends
  <2>6. CASE \E s \in Seats : StopSeat(s) \/ Repoint(s)
    BY <2>6 DEF StopSeat, Repoint, GoesOn, Ends
  <2> QED
    BY <1>1, <2>1, <2>2, <2>3, <2>4, <2>5, <2>6 DEF Script
<1>2. CASE Runner
  BY <1>2 DEF Runner, RunIsOver, ResumeSeat
<1>3. CASE \E q \in Requests : ListSeats(q) \/ StartRun(q) \/ StartRefused(q)
  BY <1>3 DEF ListSeats, StartRun, StartRefused
<1>4. CASE \E s \in Seats : \/ ContainerStarts(s) \/ StartIsOver(s)
                              \/ PressStart(s) \/ PressStop(s) \/ SetIsolated(s)
  BY <1>4 DEF ContainerStarts, StartIsOver, PressStart, PressStop, SetIsolated
<1>5. CASE ScriptIsKilled \/ DaemonRestarts \/ Reboots
  BY <1>5 DEF ScriptIsKilled, DaemonRestarts, Reboots, DaemonIsGone, Ends
<1>6. CASE UNCHANGED vars
  BY <1>6 DEF vars
<1> QED
  BY <1>1, <1>2, <1>3, <1>4, <1>5, <1>6 DEF Next

\* The invariant the theorems rest on.
THEOREM Inductive == Spec => [](IInv /\ AtWork)
<1>1. Init => IInv /\ AtWork
  BY DEF Init, IInv, Resting, StoppingSeats, Building, WayBack, Repointing, StopsInMode, Flags,
         Modes, AtWork
<1>2. IInv /\ AtWork /\ [Next]_vars => (IInv /\ AtWork)'
  <2> SUFFICES ASSUME IInv, AtWork, [Next]_vars PROVE IInv'
    BY RunnerKnows
  <2>1. CASE Script
    BY <2>1, Beginning, Stopping, GoingThere, GoingBack, Raising, Moving DEF Script
  <2>2. CASE UNCHANGED vars
    BY <2>2, Elsewhere DEF vars, script, notes, IInv, Flags
  <2> QED
    BY <2>1, <2>2, Daemons, Interrupted DEF Next
<1> QED
  BY <1>1, <1>2, PTL DEF Spec

\* Between two runs the machine is on the network, and comes up again as it is:
\* StaysOnTheNetwork (lan-bridge.sh:37-45 and 513-528).
THEOREM OnTheNetwork == Spec => []StaysOnTheNetwork
<1>1. IInv => StaysOnTheNetwork
  BY DEF IInv, Resting, StaysOnTheNetwork, Boot
<1> QED
  BY <1>1, Inductive, PTL

-----------------------------------------------------------------------------
(* Why a run fails                                                          *)

HostTyped ==
  /\ seat \in [Seats -> {"down", "starting", "up"}]
  /\ nic \in [Seats -> {"dev", "port", "apart"}]

\* Of a run nothing has troubled: nobody but those it has yet to stop holds the
\* interface, and once they are stopped nobody does.
Stopped ==
  mode = "install" /\ pc = "stop" /\ ~trouble =>
    \A s \in Seats : seat[s] = "up" /\ nic[s] = "dev" => s \in moving \ visited

Freed ==
  pc \in {"addBridge", "addPort", "release", "switchOff", "upBridge", "upPort"} /\ ~trouble
    => ~Held

RolledBackForCause == mode = "rollback" => trouble

HInv == HostTyped /\ Stopped /\ Freed /\ RolledBackForCause

LEMMA EndsFree ==
  ASSUME Ends, HostTyped'
  PROVE  HInv'
  BY DEF Ends, HInv, Stopped, Freed, RolledBackForCause

\* A step of the script that leaves the seats alone.
LEMMA ScriptFree ==
  ASSUME IInv, HInv, Script
  PROVE  HInv'
<1> USE DEF HInv
<1>1. CASE InstallBegins \/ UndoBegins
  <2>1. HostTyped'
    BY <1>1 DEF InstallBegins, UndoBegins, host, HostTyped
  <2>2. CASE Ends
    BY <2>1, <2>2, EndsFree
  <2>3. CASE mode' = "install" /\ StopsFirst("dev") /\ UNCHANGED <<seat, nic>>
    BY <2>1, <2>3 DEF StopsFirst, GoesOn, SeatsOn, Stopped, Freed, RolledBackForCause
  <2>4. CASE mode' \in {"onto", "undo"} /\ pc' = "stop"
    BY <2>1, <2>4 DEF Stopped, Freed, RolledBackForCause
  <2> QED
    BY <1>1, <2>2, <2>3, <2>4 DEF InstallBegins, UndoBegins, StopsFirst, GoesOn, host
<1>2. CASE SeatsStopped
  <2>1. /\ UNCHANGED <<seat, nic, mode, trouble>> /\ pc = "stop" /\ visited = moving
        /\ pc' = CASE mode = "install" -> "addBridge"
                   [] mode = "undo"    -> "deletePort"
                   [] OTHER            -> "repoint"
    BY <1>2 DEF SeatsStopped, GoesOn, host, notes
  <2> QED
    BY <2>1 DEF HostTyped, Stopped, Freed, RolledBackForCause, Held
<1>3. ASSUME NEW s \in Seats, StopSeat(s) PROVE HInv'
  <2>1. HostTyped'
    BY <1>3 DEF StopSeat, HostTyped
  <2>2. CASE Ends
    BY <2>1, <2>2, EndsFree
  <2>3. CASE /\ pc = "stop" /\ pc' = "stop" /\ UNCHANGED <<mode, moving, nic, trouble>>
             /\ seat' = [seat EXCEPT ![s] = IF @ = "up" THEN "down" ELSE @]
             /\ visited' = visited \cup {s}
    BY <2>1, <2>3 DEF HostTyped, Stopped, Freed, RolledBackForCause
  <2> QED
    BY <1>3, <2>2, <2>3 DEF StopSeat, GoesOn
<1>4. CASE AddBridge \/ AddPort \/ ReleaseUplink \/ SwitchOff \/ UpBridge \/ UpPort
             \/ PortIsBusy \/ Verify
  <2>1. UNCHANGED <<seat, nic>> /\ mode = "install"
    BY <1>4 DEF AddBridge, AddPort, ReleaseUplink, SwitchOff, UpBridge, UpPort, PortIsBusy,
       Verify, Step, host, IInv, Building
  <2>2. \/ /\ trouble' = trouble /\ mode' = mode
           /\ pc' \in {"addPort", "release", "switchOff", "upBridge", "upPort", "verify",
                       "repoint"}
           /\ pc \in {"addBridge", "addPort", "release", "switchOff", "upBridge", "upPort",
                      "verify"}
           /\ pc = "verify" => pc' = "repoint"
        \/ trouble' = TRUE /\ pc' \in {"switchOff", "deletePort"}
        \/ PortIsBusy
    BY <1>4 DEF AddBridge, AddPort, ReleaseUplink, SwitchOff, UpBridge, UpPort, Verify, Step,
       GoesOn, RollsBack
  <2>3. CASE PortIsBusy
    BY <2>1, <2>3 DEF PortIsBusy, RollsBack, GoesOn, notes, HostTyped, Stopped, Freed,
       RolledBackForCause
  <2>4. HostTyped'
    BY <2>1 DEF HostTyped
  <2>5. CASE trouble' = TRUE /\ pc' \in {"switchOff", "deletePort"}
    BY <2>4, <2>5 DEF Stopped, Freed, RolledBackForCause
  <2> QED
    BY <2>1, <2>2, <2>3, <2>4, <2>5 DEF Stopped, Freed, RolledBackForCause, Held
<1>5. CASE DeletePort \/ DeleteBridge \/ RestoreUplink \/ RaiseUplink \/ Finishes
  <2>1. UNCHANGED <<seat, nic>>
    BY <1>5 DEF DeletePort, DeleteBridge, RestoreUplink, RaiseUplink, Finishes, Deletes, host
  <2>2. CASE Ends
    BY <2>1, <2>2, EndsFree DEF HostTyped
  <2>3. CASE /\ pc' \in {"deleteBridge", "restore", "raise", "repoint"}
             /\ mode' = mode /\ (trouble' = trouble \/ trouble' = TRUE)
    BY <2>1, <2>3 DEF HostTyped, Stopped, Freed, RolledBackForCause
  <2> QED
    BY <1>5, <2>2, <2>3 DEF DeletePort, DeleteBridge, RestoreUplink, RaiseUplink, Finishes,
       Deletes, GoesOn, SameRun
<1>6. ASSUME NEW s \in Seats, Repoint(s) PROVE HInv'
  <2>1. HostTyped'
    BY <1>6 DEF Repoint, HostTyped
  <2>2. CASE Ends
    BY <2>1, <2>2, EndsFree
  <2>3. CASE pc' = "repoint" /\ UNCHANGED <<mode, trouble>>
    BY <2>1, <2>3 DEF Stopped, Freed, RolledBackForCause
  <2> QED
    BY <1>6, <2>2, <2>3 DEF Repoint, GoesOn
<1> QED
  BY <1>1, <1>2, <1>3, <1>4, <1>5, <1>6 DEF Script

\* The interface does one of three things.
Linked == link \in {"plain", "bridge", "none"}

LEMMA LinkTyped ==
  ASSUME Linked, [Next]_vars
  PROVE  Linked'
<1> USE DEF Linked
<1>1. CASE Script
  <2>1. CASE InstallBegins \/ UndoBegins \/ SeatsStopped \/ PortIsBusy \/ Finishes
    BY <2>1 DEF InstallBegins, UndoBegins, SeatsStopped, PortIsBusy, Finishes
  <2>2. CASE AddBridge \/ AddPort \/ SwitchOff \/ UpBridge \/ UpPort \/ Verify
    BY <2>2 DEF AddBridge, AddPort, SwitchOff, UpBridge, UpPort, Verify, Step
  <2>3. CASE ReleaseUplink \/ RaiseUplink
    BY <2>3 DEF ReleaseUplink, RaiseUplink
  <2>4. CASE DeletePort \/ DeleteBridge \/ RestoreUplink
    BY <2>4 DEF DeletePort, DeleteBridge, RestoreUplink, Deletes, OffTheBridge
  <2>5. CASE \E s \in Seats : StopSeat(s) \/ Repoint(s)
    BY <2>5 DEF StopSeat, Repoint
  <2> QED
    BY <1>1, <2>1, <2>2, <2>3, <2>4, <2>5 DEF Script
<1>2. CASE Reboots
  BY <1>2 DEF Reboots, Boot
<1>3. CASE \/ Runner \/ ScriptIsKilled \/ DaemonRestarts \/ UNCHANGED vars
           \/ \E r \in Requests : ListSeats(r) \/ StartRun(r) \/ StartRefused(r)
           \/ \E s \in Seats :
                ContainerStarts(s) \/ StartIsOver(s) \/ PressStart(s) \/ PressStop(s) \/ SetIsolated(s)
  BY <1>3 DEF Runner, RunIsOver, ResumeSeat, ListSeats, StartRun, StartRefused, vars,
     ContainerStarts, StartIsOver, PressStart, PressStop, SetIsolated, ScriptIsKilled, DaemonRestarts
<1> QED
  BY <1>1, <1>2, <1>3 DEF Next

LEMMA SeatsFree ==
  ASSUME IInv, HInv, Linked, NEW s \in Seats,
         ContainerStarts(s) \/ StartIsOver(s) \/ PressStart(s) \/ PressStop(s) \/ SetIsolated(s) \/ ResumeSeat(s)
  PROVE  HInv'
<1> USE DEF HInv
<1>1. UNCHANGED <<mode, pc, moving, visited>>
  BY DEF ContainerStarts, StartIsOver, PressStart, PressStop, SetIsolated, ResumeSeat, script
<1>2. HostTyped'
  <2>1. CASE SetIsolated(s)
    BY <2>1 DEF SetIsolated, HostTyped, Linked
  <2>2. CASE ~SetIsolated(s)
    BY <2>2 DEF ContainerStarts, StartIsOver, PressStart, PressStop, ResumeSeat, Starting, HostTyped
  <2> QED
    BY <2>1, <2>2
<1>3. CASE ContainerStarts(s)
  <2>1. trouble' = (trouble \/ pc # "idle")
    BY <1>3 DEF ContainerStarts
  <2> QED
    BY <1>1, <1>2, <2>1 DEF Stopped, Freed, RolledBackForCause
<1>4. CASE StartIsOver(s) \/ PressStart(s) \/ PressStop(s) \/ ResumeSeat(s)
  <2>1. UNCHANGED <<nic, trouble>> /\ \A r \in Seats : seat'[r] = "up" => seat[r] = "up"
    BY <1>4 DEF StartIsOver, PressStart, PressStop, ResumeSeat, Starting, HostTyped, notes
  <2> QED
    BY <1>1, <1>2, <2>1 DEF Stopped, Freed, RolledBackForCause, Held
<1>5. CASE SetIsolated(s)
  <2>1. /\ seat' = seat /\ \A r \in Seats : r # s => nic'[r] = nic[r]
        /\ trouble' = (trouble \/ (pc # "idle" /\ seat[s] = "up" /\ nic'[s] # nic[s]))
    BY <1>5 DEF SetIsolated, HostTyped, Linked
  <2> QED
    BY <1>1, <1>2, <2>1 DEF Stopped, Freed, RolledBackForCause, Held
<1> QED
  BY <1>3, <1>4, <1>5

LEMMA RestFree ==
  ASSUME HInv, AtWork,
         \/ RunIsOver \/ ScriptIsKilled \/ DaemonRestarts \/ Reboots \/ UNCHANGED vars
         \/ \E q \in Requests : ListSeats(q) \/ StartRun(q) \/ StartRefused(q)
  PROVE  HInv'
<1> USE DEF HInv
<1>1. CASE \/ RunIsOver \/ UNCHANGED vars
           \/ \E q \in Requests : ListSeats(q) \/ StartRefused(q)
  <2>1. UNCHANGED <<seat, nic, mode, pc, moving, visited, trouble>>
    BY <1>1 DEF RunIsOver, ListSeats, StartRefused, vars, host, script, notes
  <2> QED
    BY <2>1 DEF HostTyped, Stopped, Freed, RolledBackForCause, Held
<1>2. CASE \E q \in Requests : StartRun(q)
  BY <1>2 DEF StartRun, host, HostTyped, Stopped, Freed, RolledBackForCause
<1>3. CASE ScriptIsKilled
  BY <1>3, EndsFree DEF ScriptIsKilled, host, HostTyped
<1>4. CASE DaemonRestarts \/ Reboots
  <2>1. HostTyped'
    BY <1>4 DEF DaemonRestarts, Reboots, DaemonIsGone, HostTyped
  <2>2. pc' = "idle" /\ mode' = "install"
    BY <1>4 DEF DaemonRestarts, Reboots, DaemonIsGone
  <2> QED
    BY <2>1, <2>2 DEF Stopped, Freed, RolledBackForCause
<1> QED
  BY <1>1, <1>2, <1>3, <1>4

\* A run that ends, ends for a cause.
LEMMA EndsForCause ==
  ASSUME IInv, HInv, AtWork, Next, pc # "idle", pc' = "idle", ~NothingToDo, ~Done
  PROVE  trouble' \/ half'
<1> USE DEF IInv, HInv
<1>1. CASE InstallBegins \/ UndoBegins
  <2>1. pc = "begin" /\ UNCHANGED half
    BY <1>1 DEF InstallBegins, UndoBegins, notes
  <2>2. ~half => Whole
    BY <2>1 DEF Resting
  <2>3. CASE InstallBegins
    <3>1. mode = "install" /\ link # "bridge" /\ (link = "none" \/ bridgeCon)
      BY <2>1, <2>3 DEF InstallBegins, StopsFirst, GoesOn, NothingToDo
    <3> QED
      BY <2>1, <2>2, <3>1
  <2>4. CASE UndoBegins
    <3>1. link = "none" \/ (bridgeCon /\ ~portCon)
      BY <2>1, <2>4 DEF UndoBegins, StopsFirst, GoesOn, NothingToDo
    <3> QED
      BY <2>1, <2>2, <3>1
  <2> QED
    BY <1>1, <2>3, <2>4
<1>2. CASE RaiseUplink
  <2>1. pc = "raise" /\ mode \in {"undo", "rollback"}
    BY <1>2 DEF RaiseUplink, WayBack
  <2>2. half' \/ (mode # "undo" /\ trouble' = trouble)
    BY <1>2 DEF RaiseUplink, GoesOn
  <2> QED
    BY <2>1, <2>2 DEF RolledBackForCause
<1>3. CASE AddBridge \/ AddPort \/ ReleaseUplink \/ SwitchOff \/ UpBridge \/ UpPort
             \/ PortIsBusy \/ Verify
  BY <1>3 DEF AddBridge, AddPort, ReleaseUplink, SwitchOff, UpBridge, UpPort, PortIsBusy,
     Verify, Step, GoesOn, RollsBack
<1>4. CASE DeletePort \/ DeleteBridge \/ RestoreUplink \/ SeatsStopped
  BY <1>4 DEF DeletePort, DeleteBridge, RestoreUplink, Deletes, SeatsStopped, GoesOn
<1>5. CASE Finishes
  BY <1>5 DEF Finishes, Done
<1>6. CASE \E s \in Seats : StopSeat(s) \/ Repoint(s)
  BY <1>6 DEF StopSeat, Repoint, GoesOn
<1>7. CASE ScriptIsKilled \/ DaemonRestarts \/ Reboots
  BY <1>7 DEF ScriptIsKilled, DaemonRestarts, Reboots, DaemonIsGone
<1>8. CASE \/ Runner
           \/ \E r \in Requests : ListSeats(r) \/ StartRun(r) \/ StartRefused(r)
           \/ \E s \in Seats :
                ContainerStarts(s) \/ StartIsOver(s) \/ PressStart(s) \/ PressStop(s) \/ SetIsolated(s)
  BY <1>8 DEF Runner, RunIsOver, ResumeSeat, ListSeats, StartRun, StartRefused,
     ContainerStarts, StartIsOver, PressStart, PressStop, SetIsolated, script
<1> QED
  BY <1>1, <1>2, <1>3, <1>4, <1>5, <1>6, <1>7, <1>8 DEF Next, Script

\* Why a run of host/lan-bridge.sh fails: OnlyTroubleFailsARun.  Nobody holds the
\* interface when it is made a port, however the buttons of the seats are pressed
\* meanwhile, unless the run has noted a seat that came up or was moved onto it.
THEOREM FailsForCause == Spec => OnlyTroubleFailsARun
<1>1. Init => Linked /\ HInv
  BY DEF Init, Linked, HInv, HostTyped, Stopped, Freed, RolledBackForCause
<1>2. IInv /\ AtWork /\ Linked /\ HInv /\ [Next]_vars => (Linked /\ HInv)'
  BY LinkTyped, ScriptFree, SeatsFree, RestFree DEF Next, Runner
<1>3. Spec => [](Linked /\ HInv)
  BY <1>1, <1>2, Inductive, PTL DEF Spec
<1>4. IInv /\ AtWork /\ HInv /\ [Next]_vars
        => [pc # "idle" /\ pc' = "idle" /\ ~NothingToDo /\ ~Done => trouble' \/ half']_vars
  BY EndsForCause
<1> QED
  BY <1>3, <1>4, Inductive, PTL DEF Spec, OnlyTroubleFailsARun
=============================================================================
