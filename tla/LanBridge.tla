----------------------------- MODULE LanBridge -----------------------------
(***************************************************************************)
(* The uplink of the host is made a port of a bridge and taken back again: *)
(* host/lan-bridge.sh with its checks, its rollback and its --undo, the    *)
(* Runner of internal/lanbridge that starts it, and the part of            *)
(* internal/api/host.go that lists the running seats before and starts     *)
(* them again after, because the script only stops them.                   *)
(*                                                                         *)
(* NetworkManager and Incus are external: a profile either exists and      *)
(* comes up at boot or it does not, and the kernel refuses to make an      *)
(* interface a port while a seat holds a macvlan on it.                    *)
(***************************************************************************)
EXTENDS Naturals, FiniteSets

CONSTANTS
  Seats,        \* the names of the seats
  Requests,     \* requests to the interface that may be under way at once
  MaxRuns,      \* bound: runs of the script
  MaxFaults,    \* bound: calls of nmcli or incus that are refused
  MaxClicks,    \* bound: buttons pressed on a seat's own card
  MaxCuts,      \* bound: runs killed, daemons gone, reboots
  MaxTogether   \* bound: of those three together

ASSUME BridgeAssumption ==
  /\ MaxRuns \in Nat /\ MaxFaults \in Nat /\ MaxClicks \in Nat /\ MaxCuts \in Nat
  /\ MaxTogether \in Nat

VARIABLES
  link,       \* what the interface does now: "plain", "bridge" (a port of br0), "none"
  plain,      \* the profile of its own: "generated" (in /run), "saved", "none"
  plainAuto,  \* connection.autoconnect of that profile
  bridgeCon,  \* the profile polyseat-bridge, and with it br0, exists
  portCon,    \* the profile polyseat-uplink exists
  invents,    \* NetworkManager invents a profile when there is no saved one
  seat,       \* of each seat: "down", "starting" or "up"
  nic,        \* its eth1: a macvlan on the interface ("dev"), a port of br0
              \* ("port"), a macvlan on br0 ("apart")
  busy,       \* those a Start has still got, from its claim to its session being up
  isolated,   \* the seats whose record says Isolated
  asking,     \* requests that have listed the running seats and not started
  names,      \* what each of them listed
  runner,     \* the Runner: "idle", "script", "resume"
  resuming,   \* the seats it has still to start again
  mode,       \* "install", "onto" (br0 is there already), "undo", "rollback"
  pc,         \* the next step of the script
  moving,     \* SEATS of the script
  visited,    \* those the present loop has been at
  half,       \* a run was killed between two steps, or its way back or a repoint refused,
              \* and none has built or removed the bridge without trouble since
  trouble,    \* something was refused, a seat came up, or one that was up was given
              \* another interface, during this run
  excused,    \* seats this run need not bring back
  runs, faults, clicks, cuts

net == <<link, plain, plainAuto, bridgeCon, portCon, invents>>
host == <<seat, nic, busy, isolated>>
daemon == <<asking, names, runner, resuming>>
script == <<mode, pc, moving, visited>>
notes == <<half, trouble, excused>>
bounds == <<runs, faults, clicks, cuts>>
vars == <<net, host, daemon, script, notes, bounds>>

Steps == {"begin", "stop", "addBridge", "addPort", "release", "switchOff", "upBridge",
          "upPort", "verify", "deletePort", "deleteBridge", "restore", "raise", "repoint"}

BridgeTypeOK ==
  /\ link \in {"plain", "bridge", "none"} /\ plain \in {"generated", "saved", "none"}
  /\ plainAuto \in BOOLEAN /\ bridgeCon \in BOOLEAN /\ portCon \in BOOLEAN /\ invents \in BOOLEAN
  /\ seat \in [Seats -> {"down", "starting", "up"}]
  /\ nic \in [Seats -> {"dev", "port", "apart"}] /\ isolated \subseteq Seats
  /\ busy \subseteq Seats
  /\ asking \subseteq Requests /\ names \in [Requests -> SUBSET Seats]
  /\ runner \in {"idle", "script", "resume"} /\ resuming \subseteq Seats
  /\ mode \in {"install", "onto", "undo", "rollback"} /\ pc \in Steps \cup {"idle"}
  /\ moving \subseteq Seats /\ visited \subseteq Seats
  /\ half \in BOOLEAN /\ trouble \in BOOLEAN /\ excused \subseteq Seats
  /\ runs \in 0..MaxRuns /\ faults \in 0..MaxFaults
  /\ clicks \in 0..MaxClicks /\ cuts \in 0..MaxCuts

Init ==
  /\ link = "plain" /\ plain \in {"generated", "saved"} /\ plainAuto = TRUE
  /\ bridgeCon = FALSE /\ portCon = FALSE /\ invents = TRUE
  /\ seat \in [Seats -> {"down", "up"}] /\ nic = [s \in Seats |-> "dev"]
  /\ isolated \in SUBSET Seats /\ busy = {}
  /\ asking = {} /\ names = [q \in Requests |-> {}] /\ runner = "idle" /\ resuming = {}
  /\ mode = "install" /\ pc = "idle" /\ moving = {} /\ visited = {}
  /\ half = FALSE /\ trouble = FALSE /\ excused = {}
  /\ runs = 0 /\ faults = 0 /\ clicks = 0 /\ cuts = 0

-----------------------------------------------------------------------------
(* What stands outside the script.                                         *)

\* What NetworkManager brings up at a boot. The port has priority 100, a saved
\* profile 0 and an invented one -999.
Boot ==
  IF portCon THEN IF bridgeCon THEN "bridge" ELSE "none"
  ELSE IF plain = "saved" THEN IF plainAuto THEN "plain" ELSE "none"
  ELSE IF invents THEN "plain" ELSE "none"

\* Incus starts a container only when the parent of its interface can carry it.
Fits(s) == IF nic[s] = "dev" THEN link # "bridge" ELSE bridgeCon

\* EBUSY: a macvlan on the interface, in whatever network namespace it lives.
Held == \E s \in Seats : seat[s] = "up" /\ nic[s] = "dev"

Few == faults + clicks + cuts < MaxTogether
Refused == faults < MaxFaults /\ Few /\ faults' = faults + 1
NoFault == UNCHANGED faults
MayClick == clicks < MaxClicks /\ Few

-----------------------------------------------------------------------------
(* The daemon: a request, the Runner, and the seats' own buttons.          *)

\* bridgeUplink: the running seats are read before anything starts.
ListSeats(q) ==
  /\ q \notin asking /\ runs < MaxRuns
  /\ asking' = asking \cup {q}
  /\ names' = [names EXCEPT ![q] = {s \in Seats : seat[s] # "down"}]
  /\ UNCHANGED <<net, host, runner, resuming, script, notes, bounds>>

\* Start: one run at a time, with the list the request came with.
StartRun(q) ==
  /\ q \in asking /\ runner = "idle" /\ runs < MaxRuns
  /\ asking' = asking \ {q} /\ names' = [names EXCEPT ![q] = {}]
  /\ runner' = "script" /\ resuming' = names[q]
  /\ mode' \in {"install", "undo"} /\ pc' = "begin"
  /\ runs' = runs + 1
  /\ trouble' = FALSE
  /\ excused' = IF half THEN Seats
                ELSE {s \in Seats : ~Fits(s) \/ (seat[s] = "starting" /\ s \notin names[q])}
  /\ UNCHANGED <<net, host, moving, visited, half, faults, clicks, cuts>>

StartRefused(q) ==
  /\ q \in asking /\ (runner # "idle" \/ runs = MaxRuns)
  /\ asking' = asking \ {q} /\ names' = [names EXCEPT ![q] = {}]
  /\ UNCHANGED <<net, host, runner, resuming, script, notes, bounds>>

\* Manager.Start as far as it matters here: it claims the seat and returns, unless
\* an operation has the seat (ErrBusy). One that is up is adopted at once.
Starting(s) ==
  /\ seat' = [seat EXCEPT ![s] = IF @ = "down" /\ s \notin busy THEN "starting" ELSE @]
  /\ busy' = IF seat[s] = "down" THEN busy \cup {s} ELSE busy

\* The Start before has the seat, whose container the script stopped under it.
RefusedAsBusy(s) == seat[s] = "down" /\ s \in busy

\* resumeSeats, one seat after the other, after a failed run as well.
ResumeSeat(s) ==
  /\ runner = "resume" /\ s \in resuming
  /\ Starting(s) /\ resuming' = resuming \ {s}
  /\ excused' = IF RefusedAsBusy(s) THEN excused \cup {s} ELSE excused
  /\ UNCHANGED <<net, nic, isolated, asking, names, runner, script, half, trouble, bounds>>

RunIsOver ==
  /\ runner = "resume" /\ resuming = {}
  /\ runner' = "idle"
  /\ UNCHANGED <<net, host, asking, names, resuming, script, notes, bounds>>

\* The operation a Start has begun reaches the container.
ContainerStarts(s) ==
  /\ seat[s] = "starting"
  /\ \/ /\ NoFault
        /\ seat' = [seat EXCEPT ![s] = IF Fits(s) THEN "up" ELSE "down"]
        /\ busy' = IF Fits(s) THEN busy ELSE busy \ {s}
        /\ UNCHANGED excused
     \/ /\ Refused
        /\ seat' = [seat EXCEPT ![s] = "down"] /\ busy' = busy \ {s}
        /\ excused' = excused \cup {s}
  /\ trouble' = (trouble \/ pc # "idle")
  /\ UNCHANGED <<net, nic, isolated, daemon, script, half, runs, clicks, cuts>>

\* startSession waits for the container, its addresses and the session, up to
\* minutes, and gives up when the container has gone meanwhile.
StartIsOver(s) ==
  /\ s \in busy /\ seat[s] # "starting" /\ busy' = busy \ {s}
  /\ UNCHANGED <<net, seat, nic, isolated, daemon, script, notes, bounds>>

PressStart(s) ==
  /\ MayClick /\ clicks' = clicks + 1 /\ seat[s] = "down"
  /\ Starting(s)
  /\ UNCHANGED <<net, nic, isolated, daemon, script, notes, runs, faults, cuts>>

\* Stop, and for a seat a Start has got Cancel, which ends that where it is.
PressStop(s) ==
  /\ MayClick /\ clicks' = clicks + 1 /\ seat[s] # "down"
  /\ seat' = [seat EXCEPT ![s] = IF @ = "up" /\ s \in busy THEN "up" ELSE "down"]
  /\ busy' = busy \ {s}
  /\ excused' = excused \cup {s}
  /\ UNCHANGED <<net, nic, isolated, daemon, script, half, trouble, runs, faults, cuts>>

\* The checkbox: the record is saved, then applyNetwork gives the seat the
\* interface lanDevice describes for the uplink there is at that moment.
SetIsolated(s) ==
  /\ MayClick /\ clicks' = clicks + 1
  /\ isolated' = IF s \in isolated THEN isolated \ {s} ELSE isolated \cup {s}
  /\ nic' = CASE link = "plain"  -> [nic EXCEPT ![s] = "dev"]
              [] link = "bridge" -> [nic EXCEPT ![s] = IF s \in isolated' THEN "apart" ELSE "port"]
              [] link = "none"   -> nic
  /\ excused' = IF pc # "idle" THEN excused \cup {s} ELSE excused
  /\ trouble' = (trouble \/ (pc # "idle" /\ seat[s] = "up" /\ nic'[s] # nic[s]))
  /\ UNCHANGED <<net, seat, busy, daemon, script, half, runs, faults, cuts>>

-----------------------------------------------------------------------------
(* The script.                                                             *)

\* As a bug might have it: who is to be started is read when the script is done.
EndsAndListsNow ==
  /\ pc' = "idle" /\ mode' = "install" /\ moving' = {} /\ visited' = {}
  /\ runner' = "resume" /\ resuming' = {s \in Seats : seat[s] # "down"}
  /\ UNCHANGED <<asking, names>>

\* Its end, however it comes: the Runner goes on with the seats.
Ends ==
  /\ pc' = "idle" /\ mode' = "install" /\ moving' = {} /\ visited' = {}
  /\ runner' = "resume" /\ UNCHANGED <<asking, names, resuming>>

GoesOn(step) == pc' = step /\ UNCHANGED daemon
SameRun == UNCHANGED <<mode, moving, visited>>

\* As a bug might have it: asked of the kernel, where no seat's macvlan shows.
SeatsOnOfTheKernel(kind) == {s \in Seats : nic[s] = kind /\ kind = "port" /\ seat[s] = "up"}

\* seats_on: asked of Incus, since no macvlan of a seat shows on the host.
SeatsOn(kind) == {s \in Seats : nic[s] = kind}

StopsFirst(kind) == moving' = SeatsOn(kind) /\ visited' = {} /\ GoesOn("stop")

\* install: br0 may be the uplink already, or somebody else's, or half made.
InstallBegins ==
  /\ pc = "begin" /\ mode = "install"
  /\ \/ /\ link = "bridge" /\ SeatsOn("apart") # {}
        /\ mode' = "onto" /\ StopsFirst("apart")
     \/ /\ \/ link = "bridge" /\ SeatsOn("apart") = {}
           \/ link = "none"
           \/ link = "plain" /\ bridgeCon
        /\ Ends
     \/ /\ link = "plain" /\ ~bridgeCon
        /\ StopsFirst("dev") /\ UNCHANGED mode
  /\ UNCHANGED <<net, host, notes, bounds>>

\* --undo: nothing without an uplink, without the bridge, or without its port.
UndoBegins ==
  /\ pc = "begin" /\ mode = "undo"
  /\ IF link # "none" /\ bridgeCon /\ portCon
     THEN StopsFirst("port") /\ UNCHANGED mode
     ELSE Ends
  /\ UNCHANGED <<net, host, notes, bounds>>

\* stop_seats: those that run, one by one; one that will not stop ends the run.
StopSeat(s) ==
  /\ pc = "stop" /\ s \in moving \ visited
  /\ \/ /\ NoFault
        /\ seat' = [seat EXCEPT ![s] = IF @ = "up" THEN "down" ELSE @]
        /\ visited' = visited \cup {s} /\ GoesOn("stop") /\ UNCHANGED <<mode, moving, trouble>>
     \/ /\ seat[s] = "up" /\ Refused /\ trouble' = TRUE
        /\ Ends /\ UNCHANGED seat
  /\ UNCHANGED <<net, nic, busy, isolated, half, excused, runs, clicks, cuts>>

SeatsStopped ==
  /\ pc = "stop" /\ visited = moving
  /\ GoesOn(CASE mode = "install" -> "addBridge"
              [] mode = "undo"    -> "deletePort"
              [] OTHER            -> "repoint")
  /\ visited' = {}
  /\ UNCHANGED <<net, host, mode, moving, notes, bounds>>

\* rollback: from here on anything that fails puts everything back.
RollsBack == mode' = "rollback" /\ GoesOn("deletePort")

\* A step of the way there: what it does, or a refusal and the way back.
Step(step, next, does) ==
  /\ pc = step /\ mode = "install"
  /\ \/ does /\ NoFault /\ GoesOn(next) /\ UNCHANGED <<mode, trouble>>
     \/ Refused /\ trouble' = TRUE /\ RollsBack /\ UNCHANGED net
  /\ UNCHANGED <<host, moving, visited, half, excused, runs, clicks, cuts>>

AddBridge ==
  Step("addBridge", "addPort",
       bridgeCon' = TRUE /\ UNCHANGED <<link, plain, plainAuto, portCon, invents>>)

AddPort ==
  Step("addPort", IF plain = "generated" THEN "release" ELSE "switchOff",
       portCon' = TRUE /\ UNCHANGED <<link, plain, plainAuto, bridgeCon, invents>>)

\* release_uplink deletes an invented profile, and one that is deleted is never
\* invented again; where it could not be deleted it is switched off.
ReleaseUplink ==
  /\ pc = "release"
  /\ \/ /\ plain' = "none" /\ invents' = FALSE /\ link' = "none"
        /\ GoesOn("upBridge") /\ NoFault /\ UNCHANGED trouble
     \/ /\ Refused /\ trouble' = TRUE
        /\ GoesOn("switchOff") /\ UNCHANGED <<link, plain, invents>>
  /\ UNCHANGED <<plainAuto, bridgeCon, portCon, host, mode, moving, visited, half,
                 excused, runs, clicks, cuts>>

\* A saved profile is switched off, and taken down.
SwitchOff ==
  Step("switchOff", "upBridge",
       plainAuto' = FALSE /\ link' = "none" /\ UNCHANGED <<plain, bridgeCon, portCon, invents>>)

UpBridge == Step("upBridge", "upPort", UNCHANGED net)

UpPort ==
  Step("upPort", "verify",
       ~Held /\ link' = "bridge" /\ UNCHANGED <<plain, plainAuto, bridgeCon, portCon, invents>>)

\* The enslave answers EBUSY.
PortIsBusy ==
  /\ pc = "upPort" /\ Held /\ RollsBack
  /\ UNCHANGED <<net, host, moving, visited, notes, bounds>>

\* The port is among br0's, br0 has an address, the gateway answers.
Verify == Step("verify", "repoint", UNCHANGED net)

\* The way back: rollback and --undo take the same calls. "|| true" follows
\* both deletions, so a refusal is passed over.
Deletes(step, next, does) ==
  /\ pc = step /\ GoesOn(next)
  /\ \/ does /\ NoFault /\ UNCHANGED <<half, trouble, excused>>
     \/ /\ Refused /\ half' = TRUE /\ trouble' = TRUE /\ excused' = Seats
        /\ UNCHANGED net
  /\ UNCHANGED <<host, mode, moving, visited, runs, clicks, cuts>>

\* Without its profile the interface leaves the bridge.
OffTheBridge == link' = IF link = "bridge" THEN "none" ELSE link

DeletePort ==
  Deletes("deletePort", "deleteBridge",
          portCon' = FALSE /\ OffTheBridge /\ UNCHANGED <<plain, plainAuto, bridgeCon, invents>>)

DeleteBridge ==
  Deletes("deleteBridge", "restore",
          bridgeCon' = FALSE /\ OffTheBridge /\ UNCHANGED <<plain, plainAuto, portCon, invents>>)

\* As a bug might have it: a saved profile is brought up and stays switched off.
RestoreUplinkForNow ==
  Deletes("restore", "raise",
          /\ plain' = "saved"
          /\ plainAuto' = IF plain = "saved" THEN plainAuto ELSE TRUE
          /\ UNCHANGED <<link, bridgeCon, portCon, invents>>)

\* restore_uplink: a saved profile is switched on again; where there is none,
\* one is written, and saved this time.
RestoreUplink ==
  Deletes("restore", "raise",
          plain' = "saved" /\ plainAuto' = TRUE /\ UNCHANGED <<link, bridgeCon, portCon, invents>>)

\* ... and brought up, which is what the caller is told.
RaiseUplink ==
  /\ pc = "raise"
  /\ \/ /\ plain = "saved" /\ NoFault
        /\ link' = "plain"
        /\ IF mode = "undo" THEN GoesOn("repoint") /\ SameRun ELSE Ends
        /\ UNCHANGED <<half, trouble, excused>>
     \/ /\ IF plain = "saved" THEN Refused ELSE NoFault
        /\ half' = TRUE /\ trouble' = TRUE /\ excused' = Seats
        /\ Ends /\ UNCHANGED link
  /\ UNCHANGED <<plain, plainAuto, bridgeCon, portCon, invents, host, runs, clicks, cuts>>

\* repoint; set -e ends the run at one that is refused.
Repoint(s) ==
  /\ pc = "repoint" /\ s \in moving \ visited
  /\ \/ /\ NoFault
        /\ nic' = [nic EXCEPT ![s] = IF mode = "undo" THEN "dev" ELSE "port"]
        /\ visited' = visited \cup {s} /\ GoesOn("repoint")
        /\ UNCHANGED <<mode, moving, half, trouble, excused>>
     \/ /\ Refused /\ half' = TRUE /\ trouble' = TRUE /\ excused' = Seats
        /\ Ends /\ UNCHANGED nic
  /\ UNCHANGED <<net, seat, busy, isolated, runs, clicks, cuts>>

\* The run has done what it was for.
Finishes ==
  /\ pc = "repoint" /\ visited = moving
  /\ Ends
  /\ half' = (half /\ (trouble \/ mode = "onto"))
  /\ UNCHANGED <<net, host, trouble, excused, bounds>>

-----------------------------------------------------------------------------
(* What ends a run, the daemon or the machine.                             *)

MayCut == cuts < MaxCuts /\ Few /\ cuts' = cuts + 1

\* After ten minutes the context kills the script; the Runner goes on.
ScriptIsKilled ==
  /\ pc # "idle" /\ MayCut
  /\ Ends
  /\ half' = TRUE /\ excused' = Seats
  /\ UNCHANGED <<net, host, trouble, runs, faults, clicks>>

\* What was in the daemon's memory goes, and its children go with it. A start
\* that was under way has reached the container or it has not.
DaemonIsGone ==
  /\ asking' = {} /\ names' = [q \in Requests |-> {}]
  /\ runner' = "idle" /\ resuming' = {}
  /\ pc' = "idle" /\ mode' = "install" /\ moving' = {} /\ visited' = {}
  /\ half' = (half \/ pc # "idle") /\ excused' = Seats /\ busy' = {}
  /\ UNCHANGED <<trouble, runs, faults, clicks, isolated, nic>>

DaemonRestarts ==
  /\ MayCut /\ DaemonIsGone
  /\ \E reached \in SUBSET {s \in Seats : Fits(s)} :
       seat' = [s \in Seats |-> CASE seat[s] # "starting" -> seat[s]
                                 [] s \in reached         -> "up"
                                 [] OTHER                 -> "down"]
  /\ UNCHANGED net

Reboots ==
  /\ MayCut /\ DaemonIsGone
  /\ seat' = [s \in Seats |-> "down"]
  /\ link' = Boot
  /\ plain' = IF plain = "saved" THEN "saved" ELSE IF invents THEN "generated" ELSE "none"
  /\ plainAuto' = (plain # "saved" \/ plainAuto)
  /\ UNCHANGED <<bridgeCon, portCon, invents>>

Script ==
  \/ InstallBegins \/ UndoBegins \/ SeatsStopped \/ AddBridge \/ AddPort \/ ReleaseUplink
  \/ SwitchOff \/ UpBridge \/ UpPort \/ PortIsBusy \/ Verify \/ DeletePort \/ DeleteBridge
  \/ RestoreUplink \/ RaiseUplink \/ Finishes
  \/ \E s \in Seats : StopSeat(s) \/ Repoint(s)

Runner == RunIsOver \/ \E s \in Seats : ResumeSeat(s)

Next ==
  \/ Script \/ Runner
  \/ \E q \in Requests : ListSeats(q) \/ StartRun(q) \/ StartRefused(q)
  \/ \E s \in Seats : \/ ContainerStarts(s) \/ StartIsOver(s)
                      \/ PressStart(s) \/ PressStop(s) \/ SetIsolated(s)
  \/ ScriptIsKilled \/ DaemonRestarts \/ Reboots

\* The script and the goroutine that runs it go on, and an operation of a seat
\* reaches its container and comes to its end.
Fairness ==
  /\ WF_vars(Script) /\ WF_vars(Runner)
  /\ \A s \in Seats : WF_vars(ContainerStarts(s)) /\ WF_vars(StartIsOver(s))

Spec == Init /\ [][Next]_vars /\ Fairness

-----------------------------------------------------------------------------
(* Properties.                                                             *)

\* Between two runs, whether they did what they were for or put everything
\* back, the machine is on the network, and a reboot brings up what there is
\* now: nothing is half made and no other profile wins (lan-bridge.sh:37-45 and
\* 513-528). Not said while a run was cut off or its way back refused.
StaysOnTheNetwork ==
  pc = "idle" /\ ~half => link # "none" /\ Boot = link

\* A run is given up only because something was refused, a seat came up or got
\* another interface while it worked, or because an earlier one was cut off: never
\* because of what a run that ended by itself left, or because the script's own
\* order of steps makes the enslave busy (lan-bridge.sh:26-32).
NothingToDo ==
  pc = "begin" /\ IF mode = "install" THEN link = "bridge" ELSE link # "none" /\ ~bridgeCon
Done == pc = "repoint" /\ visited = moving
OnlyTroubleFailsARun ==
  [][pc # "idle" /\ pc' = "idle" /\ ~NothingToDo /\ ~Done => trouble' \/ half']_vars

\* Whoever ran when the request came is up again after the run, whether it did
\* what it was for or not (host.go:485-493): unless the daemon went, a call was
\* refused, somebody else touched the seat, or an earlier Start still had it when
\* it was to be started again (HeldSeatsComeBackToo). An isolated one need not, because
\* of what SeatsFitTheNetwork below says.
SeatsComeBack ==
  \A s \in Seats :
    (runner # "idle" /\ s \in resuming) ~> (seat[s] = "up" \/ s \in excused \/ s \in isolated)

-----------------------------------------------------------------------------
(* What comments of the script say and the code does not do. No run checks *)
(* these; the README (section 5) says how each fails.                      *)

\* "Left alone, a seat built for one would come up with a NIC pointing at
\* something that is no longer there" (lan-bridge.sh:503-505): an isolated seat
\* hangs off br0 with a macvlan, and --undo looks for bridged ones only.
SeatsFitTheNetwork == pc = "idle" /\ ~half => \A s \in Seats : Fits(s)

\* A seat whose record says Isolated is not a port of br0 (network.go:240-243):
\* repoint makes a port of every seat it moves.
IsolationIsKept == link = "bridge" => \A s \in isolated : nic[s] # "port"

\* What is left of a run that was killed is a "half state that --undo exists to
\* clear" (lan-bridge.sh:211-212): without the port's profile it gives up.
UndoClears ==
  [][pc = "begin" /\ mode = "undo" /\ bridgeCon /\ link # "none" /\ cuts' = cuts
       => pc' # "idle"]_vars

\* Whom the script stops, the Runner starts again (lanbridge.go:136-141): one
\* that was started after the list was read is stopped and not on it.
StoppedSeatsAreListed ==
  [][\A s \in Seats : pc = "stop" /\ pc' = "stop" /\ visited' = visited \cup {s} /\ seat[s] = "up"
       /\ seat'[s] = "down" => s \in resuming]_vars

\* A seat "halfway through coming up is stopped by the script exactly like one
\* that is up", and is not to be "the one that stays down afterwards"
\* (host.go:453-456): but the Start it was in has it, and another is refused.
HeldSeatsComeBackToo ==
  [][\A s \in resuming : runner = "resume" /\ s \notin resuming' /\ seat[s] = "down"
       => seat'[s] = "starting" \/ cuts' # cuts]_vars
=============================================================================
