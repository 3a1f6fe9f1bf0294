----------------------------- MODULE Provision -----------------------------
(***************************************************************************)
(* The recipe that makes a container a seat                                *)
(* (src/internal/seat/provision.go), and the three shorter runs made of    *)
(* its steps: the software update, the pass over the compatibility tools   *)
(* and the change of the GE-Proton setting.                                *)
(*                                                                         *)
(* One run at a time has the seat (SeatLanes).  Beside it the seat lives:  *)
(* a player opens Steam, somebody powers the seat off, the daemon is       *)
(* stopped in the middle and comes back as a newer version.  What a step   *)
(* installs is one item; tools, Incus's settings, Steam and the player's   *)
(* own games are kept apart, because steps do several things to them.      *)
(***************************************************************************)
EXTENDS Naturals, Sequences

CONSTANTS
  MaxTrouble,  \* bound: calls that fail for no reason of the model's,
               \* daemon shutdowns during a run, and power-offs
  MaxUpgrades, \* bound: new versions of the daemon
  MaxChanges,  \* bound: changes of the seat's settings
  Moved        \* the items a new version pins anew

ASSUME ProvisionBounds ==
  MaxTrouble \in Nat /\ MaxUpgrades \in Nat /\ MaxChanges \in Nat

\* The packages that are downloaded at a version the daemon names.
Pinned == {"sunshine", "mangohud shim", "stevia", "faugus", "heroic"}

ASSUME ProvisionPins == Moved \subseteq Pinned

\* Mutated: the card arrives before Steam's 32 bit libraries do.
StepsGPUFirst ==
  << "container", "locale", "network", "packages", "sunshine",
     "mangohud shim", "stevia", "faugus", "heroic", "gpu", "steam", "user",
     "proton", "ge-proton", "flatpak", "graphics userspace",
     "library", "session", "sunshine credentials" >>

\* Every step of a build, in its order.
Steps ==
  << "container", "locale", "network", "packages", "sunshine",
     "mangohud shim", "stevia", "faugus", "heroic", "steam", "user",
     "proton", "ge-proton", "flatpak", "gpu", "graphics userspace",
     "library", "session", "sunshine credentials" >>

Recipe ==
  [ build    |-> Steps,
    software |-> <<"packages", "sunshine", "mangohud shim", "stevia",
                   "faugus", "heroic">>,
    tools    |-> <<"proton", "ge-proton">>,
    setting  |-> <<"ge-proton">>,
    library  |-> <<"library">> ]

\* What is in the seat when every step that may not be skipped is through.
Items == {"locale", "network", "packages", "sunshine", "mangohud shim",
          "stevia", "faugus", "heroic", "steam", "user",
          "graphics userspace", "session", "sunshine credentials"}

Tools == {"proton", "ge-proton"}
PackageAttempts == 3

VARIABLES
  box,     \* the container: "none", "stopped" or "running"
  conf,    \* which version's settings Incus holds for it, 0 for none
  live,    \* the ones the running container was started with
  have,    \* the items that are in the seat
  tool,    \* per compatibility tool "none", "old" or "current"
  steam,   \* "off", "idle", "used", or "leaving" after steam -shutdown
  own,     \* a game in Steam's own folder of the seat, "whole" or "none"
  pool,    \* the same game in the shared folder: "none", "part", "whole"
  mounted, \* whether the shared folder is Steam's own
  noGE,    \* Seat.NoGEProton
  share,   \* Seat.Library
  version, \* of the daemon
  built,   \* whether the seat's Generation is this version's
  run,     \* the run that has the seat
  left,    \* what became of a Steam a build or a tools turn made leave: it is
           \* "told" to, "seen" gone, its start "failed", or "no" such Steam
  spent    \* of MaxTrouble and MaxChanges

machine == <<box, conf, live>>
inside  == <<have, tool>>
games   == <<own, pool, mounted>>
setting == <<noGE, share>>
daemon  == <<version, built>>
world   == <<machine, inside, steam, games, setting, left, daemon, spent>>
provisionVars == <<world, run>>

Rest == [kind |-> "none", at |-> 1, phase |-> "begin", tries |-> 0,
         noGE |-> FALSE, share |-> FALSE, closed |-> FALSE,
         spoiled |-> FALSE, cancelled |-> FALSE, ok |-> TRUE]

Init ==
  /\ box = "none" /\ conf = 0 /\ live = 0
  /\ have = {} /\ tool = [t \in Tools |-> "none"]
  /\ steam = "off"
  /\ own = "none" /\ pool = "none" /\ mounted = FALSE
  /\ noGE = FALSE /\ share = FALSE
  /\ version = 1 /\ built = FALSE
  /\ run = Rest /\ left = "no"
  /\ spent = [trouble |-> 0, changes |-> 0]

-----------------------------------------------------------------------------
(* A run *)

On == run.kind # "none"
Working == On /\ run.phase \notin {"over", "session"}
Step == Recipe[run.kind][run.at]
Doing(step, phase) == Working /\ Step = step /\ run.phase = phase

Over(ok) == [run EXCEPT !.phase = "over", !.ok = ok]
Phase(p) == run' = [run EXCEPT !.phase = p]

\* Run takes the next step, or is through.
Go ==
  run' = IF run.at = Len(Recipe[run.kind]) THEN Over(TRUE)
         ELSE [run EXCEPT !.at = @ + 1, !.phase = "begin", !.tries = 0]

\* A run works on the seat's record as it was when the run got the seat.
Start(kind) ==
  /\ ~On
  /\ run' = [Rest EXCEPT !.kind = kind, !.noGE = noGE, !.share = share,
                         !.phase = IF kind = "build" THEN "nodes" ELSE "begin"]
  /\ UNCHANGED world

BeginBuild == Start("build")

\* Before the container starts, the host has the device nodes of its card.
AwaitGPU == Doing("container", "nodes") /\ Phase("begin") /\ UNCHANGED world

\* The seat runs, and nobody streams from it at this moment.
BeginUpdate == box = "running" /\ "session" \in have /\ steam # "used"
               /\ Start("software")

\* The pass passes over a seat somebody streams from or plays in.
BeginTools == box = "running" /\ "session" \in have /\ steam # "used"
              /\ Start("tools")

\* Mutated: the error of a step is logged and the next one begins.
FailsLogged ==
  /\ Working
  /\ spent.trouble < MaxTrouble
  /\ spent' = [spent EXCEPT !.trouble = @ + 1]
  /\ Go
  /\ UNCHANGED <<machine, inside, steam, games, setting, left, daemon>>

\* A call that fails fails its step, and the step ends the run.
Fails ==
  /\ Working
  /\ spent.trouble < MaxTrouble
  /\ spent' = [spent EXCEPT !.trouble = @ + 1]
  /\ run' = [Over(FALSE) EXCEPT !.spoiled = TRUE]
  /\ UNCHANGED <<machine, inside, steam, games, setting, left, daemon>>

\* Between two steps, and in every wait, a run looks at its context.
StopsCancelled ==
  /\ Working /\ run.cancelled
  /\ run' = Over(FALSE)
  /\ UNCHANGED world

\* What a step cannot do without.  lib32-mesa, which Steam brings, cannot be
\* written over the files of a driver that is in the seat already.
Needs(step) ==
  CASE step = "packages"             -> {"network"}
    [] step \in Pinned \cup {"steam"} -> {"packages"}
    [] step \in {"flatpak", "library"} -> {"user"}
    [] step = "session"              -> {"user", "packages"}
    [] step = "sunshine credentials" -> {"user", "sunshine"}
    [] OTHER                         -> {}

Lacks ==
  /\ Step \notin have
  /\ ~(Needs(Step) \subseteq have) \/ (Step = "steam" /\ live > 0)

\* Every command of every step but the first needs the seat to run.
Unreachable == Step # "container" /\ box # "running" /\ run.phase \notin {"kill", "start"}

\* A step that cannot reach the seat, or misses what an earlier one leaves, fails.
CannotWork == Unreachable \/ (run.phase = "begin" /\ Lacks)
StepFails ==
  /\ Working /\ CannotWork
  /\ run' = Over(FALSE)
  /\ UNCHANGED world

\* What a step leaves in the seat.
Leaves(item) ==
  /\ box = "running" /\ ~Lacks
  /\ have' = have \cup {item}
  /\ Go
  /\ UNCHANGED <<machine, tool, steam, games, setting, left, daemon, spent>>

Passes == box = "running" /\ ~Lacks /\ Go /\ UNCHANGED world

-----------------------------------------------------------------------------
(* Container, network, packages *)

Create ==
  /\ Doing("container", "begin")
  /\ box = "none"
  /\ box' = "stopped"
  /\ UNCHANGED <<conf, live, run, inside, steam, games, setting, left, daemon, spent>>

\* What a container runs with is what Incus holds when it starts.
BoxStarts == box' = "running" /\ live' = conf

StepContainer ==
  \/ /\ Doing("container", "begin")
     /\ box = "stopped"
     /\ BoxStarts
     /\ UNCHANGED <<conf, run, inside, steam, games, setting, left, daemon, spent>>
  \/ Doing("container", "begin") /\ Passes

StepLocale == Doing("locale", "begin") /\ Leaves("locale")

\* The daemon's own way to the seat; a seat that cannot have it goes on.
EnsureManagement ==
  Doing("network", "begin") /\ Phase("attach") /\ UNCHANGED world

\* The LAN interface, its address, and a name that resolves.
StepNetwork == EnsureManagement \/ (Doing("network", "attach") /\ Leaves("network"))

\* A transfer a mirror breaks off is tried again, up to PackageAttempts.
Fetching == {"packages", "steam", "graphics userspace"}
MirrorBreaks ==
  /\ Working /\ Step \in Fetching
  /\ run.phase = (IF Step = "packages" THEN "install" ELSE "begin")
  /\ run' = IF run.tries + 1 < PackageAttempts
              THEN [run EXCEPT !.tries = @ + 1]
            ELSE [Over(FALSE) EXCEPT !.spoiled = TRUE]
  /\ UNCHANGED world

\* The image's one mirror makes room for the host's.
EnsureMirrors ==
  Doing("packages", "begin") /\ ~Lacks /\ Phase("install") /\ UNCHANGED world

StepPackages == EnsureMirrors \/ (Doing("packages", "install") /\ Leaves("packages"))

\* A package of the project's own is downloaded, held against its checksum,
\* and given to pacman; one that is current is left alone.
InstallPinned(name) ==
  \/ Doing(name, "begin") /\ name \in have /\ Passes
  \/ Doing(name, "begin") /\ name \notin have /\ Leaves(name)

StepSunshine     == InstallPinned("sunshine")
StepMangoHudShim == InstallPinned("mangohud shim")
StepStevia       == InstallPinned("stevia")
StepFaugus       == InstallPinned("faugus")
StepHeroic       == InstallPinned("heroic")

StepSteam == Doing("steam", "begin") /\ Leaves("steam")

StepUser == Doing("user", "begin") /\ Leaves("user")

\* Neither Flathub nor what comes from it fails a build.
StepFlatpak == Doing("flatpak", "begin") /\ Passes

-----------------------------------------------------------------------------
(* Steam out of the way *)

\* steamQuiet: a Steam that is off is quiet, and one that is streamed from or
\* has a game open is not.
SteamIsAsked ==
  /\ Working /\ run.phase = "ask" /\ box = "running"
  /\ Phase(CASE steam = "off"  -> "quiet"
             [] steam = "idle" -> "shutdown"
             [] OTHER          -> "busy")
  /\ UNCHANGED world

\* Runs that start a Steam again which they have seen go.
Resumes == run.kind \in {"build", "tools"}

\* What was read idle is told to leave, whatever it is by now.
SteamIsToldToGo ==
  /\ Working /\ run.phase = "shutdown" /\ box = "running"
  /\ steam' = IF steam = "off" THEN "off" ELSE "leaving"
  /\ left' = IF Resumes /\ steam # "off" THEN "told" ELSE left
  /\ Phase("closing")
  /\ UNCHANGED <<machine, inside, games, setting, daemon, spent>>

\* Once a second for steamShutdownWait; a Steam seen gone is owed a start.
SteamIsGone ==
  /\ Working /\ run.phase = "closing" /\ box = "running" /\ steam = "off"
  /\ run' = [run EXCEPT !.closed = TRUE, !.phase = "quiet"]
  /\ left' = IF Resumes /\ left = "told" THEN "seen" ELSE left
  /\ UNCHANGED <<machine, inside, steam, games, setting, daemon, spent>>

\* Mutated: the wait for Steam has no end of its own.
SteamIsWaitedFor ==
  /\ Working /\ run.phase = "closing" /\ box = "running" /\ steam = "used"
  /\ Phase("busy")
  /\ UNCHANGED world

SteamTakesLong ==
  /\ Working /\ run.phase = "closing" /\ box = "running" /\ steam # "off"
  /\ Phase("busy")
  /\ UNCHANGED world

Owed == Resumes /\ run.closed /\ box = "running" /\ steam = "off"

\* Mutated: the start runs under the context of the run.
ResumeSteamUnderTheRun ==
  \/ Owed /\ steam' = (IF run.cancelled THEN "off" ELSE "idle") /\ UNCHANGED spent
  \/ /\ Owed /\ spent.trouble < MaxTrouble
     /\ spent' = [spent EXCEPT !.trouble = @ + 1]
     /\ UNCHANGED steam
  \/ ~Owed /\ UNCHANGED <<steam, spent>>

\* ResumeSteam at the end of Run and of a tools turn, under a context of its
\* own.  When StartSteam fails it is logged.
ResumeSteam ==
  \/ Owed /\ steam' = "idle" /\ UNCHANGED spent
  \/ /\ Owed /\ spent.trouble < MaxTrouble
     /\ spent' = [spent EXCEPT !.trouble = @ + 1]
     /\ UNCHANGED steam
  \/ ~Owed /\ UNCHANGED <<steam, spent>>

-----------------------------------------------------------------------------
(* The compatibility tools *)

\* What could not be had is left as it is, and the step is done.
ToolNotTaken(t) ==
  /\ IF t = "proton" THEN Phase("ask") ELSE Go
  /\ UNCHANGED world

\* removeTool: never under a Steam that runs.
RemoveTool ==
  /\ run.noGE /\ box = "running"
  /\ \/ /\ Doing("ge-proton", "begin")
        /\ IF tool["ge-proton"] = "none" THEN Go ELSE Phase("ask")
        /\ UNCHANGED world
     \/ Doing("ge-proton", "busy") /\ Passes
     \/ /\ Doing("ge-proton", "quiet")
        /\ tool' = [tool EXCEPT !["ge-proton"] = "none"]
        /\ Go
        /\ UNCHANGED <<machine, have, steam, games, setting, left, daemon, spent>>

\* What is current has its manifest written again, once Steam is quiet; what
\* could not be looked up is left; anything else is fetched.
ToolIsLookedUp(t) ==
  /\ Doing(t, "begin") /\ box = "running"
  /\ t = "ge-proton" => ~run.noGE
  /\ \/ tool[t] = "current" /\ Phase("ask") /\ UNCHANGED world
     \/ tool[t] # "current" /\ Phase("fetch") /\ UNCHANGED world
     \/ ToolNotTaken(t)

\* Mutated: the place is cleared before the download begins.
ToolIsUnpackedInPlace(t) ==
  /\ Doing(t, "fetch") /\ box = "running"
  /\ tool' = [tool EXCEPT ![t] = "none"]
  /\ Phase("swap")
  /\ UNCHANGED <<machine, have, steam, games, setting, left, daemon, spent>>

\* tool.script: fetched, held against its checksum and unpacked beside what is
\* there.  A script that fails changes nothing and fails nothing.
ToolIsUnpacked(t) ==
  /\ Doing(t, "fetch") /\ box = "running"
  /\ \/ Phase("swap") /\ UNCHANGED world
     \/ ToolNotTaken(t)

\* Only then the old one goes, and the new one is moved to its place.
ToolIsSwapped(t) ==
  \/ /\ Doing(t, "swap") /\ box = "running"
     /\ tool' = [tool EXCEPT ![t] = "none"]
     /\ Phase("move")
     /\ UNCHANGED <<machine, have, steam, games, setting, left, daemon, spent>>
  \/ /\ Doing(t, "move") /\ box = "running"
     /\ tool' = [tool EXCEPT ![t] = "current"]
     /\ IF t = "proton" THEN Phase("ask") ELSE Go
     /\ UNCHANGED <<machine, have, steam, games, setting, left, daemon, spent>>

\* Steam's configuration names the tool, and is written only when Steam is
\* quiet: a Steam that leaves writes its own.  It is left when unreadable.
StepSteamConfig ==
  /\ Doing("proton", "quiet") \/ Doing("proton", "busy")
  /\ Passes

StepProton ==
  \/ ToolIsLookedUp("proton")
  \/ ToolIsUnpacked("proton")
  \/ ToolIsSwapped("proton")
  \/ StepSteamConfig

StepGEProton ==
  \/ ToolIsLookedUp("ge-proton")
  \/ ToolIsUnpacked("ge-proton")
  \/ ToolIsSwapped("ge-proton")
  \/ RemoveTool
  \/ /\ ~run.noGE
     /\ Doing("ge-proton", "quiet") \/ Doing("ge-proton", "busy")
     /\ Passes

-----------------------------------------------------------------------------
(* The card *)

\* Mutated: the restart does not ask whether anything changed.
CardIsConfiguredAnew ==
  /\ Doing("gpu", "begin") /\ box = "running"
  /\ conf' = version
  /\ Phase("kill")
  /\ UNCHANGED <<box, live, inside, steam, games, setting, left, daemon, spent>>

\* Configure tells whether Incus held something else before; only then the
\* container is restarted.
CardIsConfigured ==
  /\ Doing("gpu", "begin") /\ box = "running"
  /\ conf' = version
  /\ Phase(IF conf = version THEN "check" ELSE "kill")
  /\ UNCHANGED <<box, live, inside, steam, games, setting, left, daemon, spent>>

\* restartContainer: the session is stopped, the container too, by force when
\* it takes too long, and started again.
BoxIsRestarted ==
  \/ /\ Doing("gpu", "kill")
     /\ box' = "stopped" /\ steam' = "off"
     /\ Phase("start")
     /\ UNCHANGED <<conf, live, inside, games, setting, left, daemon, spent>>
  \/ /\ Doing("gpu", "start")
     /\ BoxStarts
     /\ Phase("check")
     /\ UNCHANGED <<conf, inside, steam, games, setting, left, daemon, spent>>

\* nvidia-smi -L, or the render node: is there a card in the seat at all?
CardIsLookedFor ==
  /\ Doing("gpu", "check") /\ box = "running"
  /\ IF live > 0 THEN Go ELSE run' = Over(FALSE)
  /\ UNCHANGED world

StepGPU == CardIsConfigured \/ BoxIsRestarted \/ CardIsLookedFor

StepGraphicsUserspace ==
  /\ Doing("graphics userspace", "begin")
  /\ Leaves("graphics userspace")

-----------------------------------------------------------------------------
(* The player's games *)

\* A seat that does not share has the two devices taken away.
LibraryIsDetached ==
  /\ Doing("library", "begin") /\ ~run.share
  /\ mounted' = FALSE
  /\ Go
  /\ UNCHANGED <<machine, inside, steam, own, pool, setting, left, daemon, spent>>

\* Mounted already, there is nothing to take over.  Otherwise what Steam has
\* in its own folder is copied first, leaving out what the shared one has.
LibraryIsAttached ==
  /\ Doing("library", "begin") /\ run.share /\ ~Lacks
  /\ Phase(IF mounted THEN "register" ELSE "copy")
  /\ UNCHANGED world

GamesAreCopied ==
  \/ /\ Doing("library", "copy") /\ box = "running"
     /\ pool' = IF own = "whole" /\ pool = "none" THEN "part" ELSE pool
     /\ Phase(IF own = "whole" /\ pool = "none" THEN "copying" ELSE "copied")
     /\ UNCHANGED <<machine, inside, steam, own, mounted, setting, left, daemon, spent>>
  \/ /\ Doing("library", "copying") /\ box = "running"
     /\ pool' = "whole"
     /\ Phase("copied")
     /\ UNCHANGED <<machine, inside, steam, own, mounted, setting, left, daemon, spent>>

\* rm -rf of the folder they came from, then the mount over it.
GamesAreTakenOver ==
  \/ /\ Doing("library", "copied") /\ box = "running"
     /\ own' = "none"
     /\ Phase("mount")
     /\ UNCHANGED <<machine, inside, steam, pool, mounted, setting, left, daemon, spent>>
  \/ /\ Doing("library", "mount") /\ box = "running"
     /\ mounted' = TRUE
     /\ Phase("register")
     /\ UNCHANGED <<machine, inside, steam, own, pool, setting, left, daemon, spent>>

\* The folders in it, a text about them, and the entry of older versions gone
\* from Steam's lists.
ShareLibrary == Doing("library", "register") /\ Passes

StepLibrary ==
  LibraryIsDetached \/ LibraryIsAttached \/ GamesAreCopied \/ GamesAreTakenOver
  \/ ShareLibrary

\* The player's files, the session's programs, and what may change later:
\* pointer, launcher, Sunshine and the list of applications.
SessionHome == Doing("session", "begin") /\ ~Lacks /\ Phase("files") /\ UNCHANGED world
SessionPrograms == Doing("session", "files") /\ Phase("settings") /\ UNCHANGED world
SessionSettings == Doing("session", "settings") /\ Leaves("session")
StepSession == SessionHome \/ SessionPrograms \/ SessionSettings

StepCredentials ==
  Doing("sunshine credentials", "begin") /\ Leaves("sunshine credentials")

-----------------------------------------------------------------------------
(* The end of a run *)

\* A build records the version it was made with; a build and an update bring
\* the session up again.
RunEnds ==
  /\ On /\ run.phase = "over"
  /\ ResumeSteam
  /\ built' = (built \/ (run.kind = "build" /\ run.ok))
  /\ run' = IF run.ok /\ run.kind \in {"build", "software"}
              THEN [run EXCEPT !.phase = "session"] ELSE Rest
  /\ left' = IF box # "running" \/ steam' \in {"idle", "used"} THEN "no"
             ELSE IF spent' # spent THEN "failed"
             ELSE left
  /\ UNCHANGED <<machine, inside, games, setting, version>>

\* The session is restarted, with everything in it, and starts a Steam.
StartSession ==
  /\ On /\ run.phase = "session"
  /\ steam' = IF box = "running" THEN "idle" ELSE steam
  /\ left' = "no"
  /\ run' = Rest
  /\ UNCHANGED <<machine, inside, games, setting, daemon, spent>>

-----------------------------------------------------------------------------
(* The world beside it *)

SteamComes ==
  /\ box = "running" /\ "session" \in have /\ steam = "off"
  /\ steam' = "idle" /\ left' = "no"
  /\ UNCHANGED <<machine, inside, games, setting, daemon, spent, run>>

SomebodyPlays ==
  /\ \/ steam = "idle" /\ steam' = "used"
     \/ steam = "used" /\ steam' = "idle"
  /\ UNCHANGED <<machine, inside, games, setting, left, daemon, spent, run>>

\* A Steam told to leave does, sooner or later.
SteamLeaves ==
  /\ steam = "leaving"
  /\ steam' = "off"
  /\ UNCHANGED <<machine, inside, games, setting, left, daemon, spent, run>>

\* A player who installs a game into Steam's own folder.
GameIsInstalled ==
  /\ ~On /\ steam = "idle" /\ ~mounted /\ own = "none" /\ pool = "none"
  /\ own' = "whole"
  /\ UNCHANGED <<machine, inside, steam, pool, mounted, setting, left, daemon, spent, run>>

\* The record takes a new setting at once, and a running seat is told.
SettingChanges ==
  /\ spent.changes < MaxChanges
  /\ spent' = [spent EXCEPT !.changes = @ + 1]
  /\ \/ noGE' = ~noGE /\ UNCHANGED share
     \/ share' = ~share /\ UNCHANGED noGE
  /\ UNCHANGED <<machine, inside, steam, games, left, daemon, run>>

SettingIsApplied ==
  /\ box = "running" /\ "session" \in have
  /\ \E kind \in {"setting", "library"} : Start(kind)

Cancel ==
  /\ Working /\ ~run.cancelled
  /\ spent.trouble < MaxTrouble
  /\ spent' = [spent EXCEPT !.trouble = @ + 1]
  /\ run' = [run EXCEPT !.cancelled = TRUE, !.spoiled = TRUE]
  /\ UNCHANGED <<machine, inside, steam, games, setting, left, daemon>>

PowerOff ==
  /\ box = "running"
  /\ spent.trouble < MaxTrouble
  /\ spent' = [spent EXCEPT !.trouble = @ + 1]
  /\ box' = "stopped" /\ steam' = "off" /\ left' = "no"
  /\ run' = IF On THEN [run EXCEPT !.spoiled = TRUE] ELSE run
  /\ UNCHANGED <<conf, live, inside, games, setting, daemon>>

\* A new daemon has settings, pins and tools of its own.
Upgrade ==
  /\ ~On /\ version <= MaxUpgrades
  /\ version' = version + 1
  /\ built' = FALSE
  /\ have' = have \ Moved
  /\ tool' = [t \in Tools |-> IF tool[t] = "none" THEN "none" ELSE "old"]
  /\ UNCHANGED <<machine, steam, games, setting, left, spent, run>>

Install ==
  \/ AwaitGPU \/ Create \/ StepContainer \/ StepLocale \/ StepNetwork \/ StepPackages
  \/ StepSunshine \/ StepMangoHudShim \/ StepStevia \/ StepFaugus \/ StepHeroic
  \/ StepSteam \/ StepUser \/ StepProton \/ StepGEProton \/ StepFlatpak
  \/ StepGPU \/ StepGraphicsUserspace \/ StepLibrary \/ StepSession
  \/ StepCredentials

Goes ==
  \/ Install \/ StepFails \/ StopsCancelled
  \/ SteamIsAsked \/ SteamIsToldToGo \/ SteamIsGone \/ SteamTakesLong
  \/ RunEnds \/ StartSession

Begins == BeginBuild \/ BeginUpdate \/ BeginTools \/ SettingIsApplied
Beside ==
  \/ Fails \/ MirrorBreaks \/ Cancel \/ PowerOff \/ Upgrade \/ SettingChanges
  \/ SteamComes \/ SomebodyPlays \/ SteamLeaves \/ GameIsInstalled

Next == Goes \/ Begins \/ Beside

\* What a run does next it does: each of its commands has a time limit.
Spec == Init /\ [][Next]_provisionVars /\ WF_provisionVars(Goes)

-----------------------------------------------------------------------------
(* What a team would want of it *)

\* A seat recorded as built with this version has everything this version's
\* recipe puts into a seat, and Incus holds this version's settings for it.
CurrentIsWhole ==
  built => /\ box # "none" /\ conf = version
           /\ Items \subseteq have

Undisturbed == run.kind = "build" /\ run'.kind = "none" /\ ~run.spoiled

\* A build that met no failing call, no shutdown and no power-off succeeds,
\* whatever the player does with Steam meanwhile and whatever state earlier
\* runs left behind: the steps are in an order in which each finds what it
\* needs, and what may go wrong without consequence has none.  Except that a
\* container whose restart failed goes on without the card, see below.
OnlyTroubleFailsABuild ==
  [][Undisturbed => built' \/ (box = "running" /\ live # conf)]_provisionVars

\* Without that exception: the recipe can be run again after a failure and
\* gives the container the restart the failed run owed it: "a change here
\* costs a restart" (provision.go:2704).
BuildingAgainHelps == [][Undisturbed => built']_provisionVars

\* Every run comes to its end: nothing in it waits for the player, for Steam
\* or for the network without a limit.
RunsEnd == On ~> ~On

\* A run takes a running seat down only to put settings in effect which the
\* container was not started with: building a healthy seat again interrupts
\* nobody.
HealthySeatIsLeftAlone ==
  [][ (Working /\ run.phase = "kill" /\ run'.phase = "start") => live # version
    ]_provisionVars

\* A tool a game may be set to goes only by the seat's own wish, as the run
\* read it, or for the moment its replacement takes its place.
ToolKept ==
  [][ \A t \in Tools : (tool[t] # "none" /\ tool'[t] = "none") =>
        \/ run'.phase = "move"
        \/ t = "ge-proton" /\ run.noGE /\ run.phase = "quiet"
    ]_provisionVars

\* "Whatever closed a Steam on the way through puts one back at the end"
\* (provision.go:155), also when a step failed or the run is cancelled: one that
\* was seen to go is started again, unless that start itself fails.  One that
\* went only after the wait for it had ended is not seen to, but a build that
\* succeeds brings it back too, with the session.
ClosedSteamIsPutBack ==
  (left = "seen" \/ (left = "told" /\ run.kind = "build"))
    ~> \/ left \in {"no", "failed"}
       \/ left = "told" /\ run.phase = "over" /\ ~run.ok

\* Between two runs no Steam is owed a start.
NoSteamIsOwed == ~On => left # "seen"

\* The one that went late also after a tools turn, which restarts no session:
\* "The seat is meant to have one waiting" (proton.go:172).
LateSteamIsPutBack ==
  (left = "told" /\ run.kind = "tools") ~> (left # "told" \/ steam # "off")
=============================================================================
