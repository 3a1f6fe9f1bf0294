# Polyseat: specifications, model checking and proofs

Polyseat turns one Linux host into several streaming seats. A daemon, `polyseatd`
(`src/cmd`, `src/internal`), keeps one Incus container per seat with a Sway session and a
Sunshine in it, an input broker beside each of them (`src/spike/m2-input-broker`), and one
library of games that all of them share. This directory models the parts of it in which
concurrency, failure and order decide what happens, checks them with TLC on small
instances, and proves what matters most of them with TLAPS.

    cd tla
    tlc -workers 2 -config MCPool.cfg MCPool.tla     # any run below
    tlapm PoolProofs.tla                             # any *Proofs module

## 1. Inventory

| component | source | state it keeps | operations | what is hard | status |
|---|---|---|---|---|---|
| Helper supervision | `supervise/supervise.go` | handle, stopping channel, state, backoff, the child | Start, Stop, the goroutine that runs the child again and again | Starts and Stops of several goroutines; a child that goes by itself; backoff and stop racing | `Supervise`, `HelperPromise` |
| Seat lanes and operations | `seat/manager.go` enter, claim, quiesce, operate, runtimeOf, Create, Delete | `m.rt`, per runtime busy, three lanes with a lock and a cancel, state | readings enter a lane, operations claim the seat and wait for the lanes | look and claim, cancels collected under a lock and called outside, a runtime that outlives its seat | `SeatLanes`, `SeatTurns` |
| Seat lifecycle, broker and events | `seat/manager.go` Start, Stop, Provision, UpdateSoftware, reconcile, sweepSeat, onLifecycle; `incusx/client.go` events | the container, the session, the card's state, the broker | operations, sweeps, lifecycle events, pointer speed, daemon restart | sweeps and events that act after an unlock, dropped events, cancelled reads, restart in the middle | `SeatLifecycle` |
| Shared library: Steam titles | `library/pool.go`, `seat/library.go` | pool and member copies, `state.json` (delivered, declined, withheld) | sync pass, uninstall everywhere, readmit, offer | two writes per copy, a Steam that writes at the same time, record saved at the end, crashes | `Pool` |
| Shared folders | `library/pool.go` harvestFolders, distributeFolders; `clone.go`, `folder.go`, `private.go` | folders, leftovers, versions, saves of each member | harvest, delivery, the swap with the saves carried over, rollback | a step of the swap or of the way back fails, a crash between two renames | `SharedFolders` |
| Seat records, secrets, ports | `seat/seat.go` Store, `secrets.go`, `manager.go` Create, Update, Delete, recordBuilt | `seats/<name>.json`, `secrets/<name>.json`, library and carrier bookkeeping | create, change, build from a copy, delete | read-change-write of two requests and a build, half done deletions | `SeatRecords` |
| Input broker, uhid observer | `spike/m2-input-broker/broker.py`, `device_owner.py`, `uhid_observer.py` | attachments, known and seen devices, the record of owners, the remembered state | observe creations, scan, attribute, attach, detach, restart | numbers that are used again, attribution by order of events, two processes that die and come back | `InputDevices` |
| Sealing of devices | `broker.py` seal, reannounce; `device_owner.py` uhid_owner; the udev rules | marks in `/run`, permissions, open descriptors of the desktop | rule at creation, seal on every pass, unmark_gone | udev asks while the observer is writing | not modelled, see section 6 |
| Stream watch | `seat/sunshinelog.go`, `manager.go` sweepSeat, sessionEnded, letGo | lines of the journal, streaming, unclear, how long it has been quiet | read a line, sweep, wait for ports to go, close the application, put the size back | two sources of news about the same client, both older than what is done on them | `StreamWatch` |
| Application list | `seat/apps.go`, `games.go`, `software.go` refreshApps | apps.json, what Sunshine has loaded, lists held back or owed, Lutris's answer and the state it goes with | scan, merge, write, reload | a reload ends every stream; a file somebody else writes too; an answer that is remembered | `GameList` |
| Provisioning and the recipe | `seat/provision.go`, `encoder.go` and friends, `manager.go` build | what is in the container, Incus's settings and the ones it runs with, tools, the shared folder, Steam | nineteen steps, the software update, the tools pass, two settings | each step begins where an earlier run may have stopped; Steam is closed and owed a start; the restart a setting needs | `Provision` |
| Launcher sharing and carriers | `seat/share.go`, `*share.go`, `assets/*share.py` | a book per launcher on disk, recipes, who is owed a look | rounds, learn, register, unregister, uninstall everywhere, share the host's | members that are off, launchers that are open, lost answers, a record saved after the act | `LauncherShares` |
| Seat network and LAN bridge | `host/lan-bridge.sh`, `lanbridge/`, `api/host.go`, `seat/network.go` | NetworkManager's profiles, the interface, each seat's eth1, the list of seats to start again | install, rollback, `--undo`, stop and resume of seats, the isolation checkbox | eight steps that fail, a way back that fails, a killed run, what comes up at the next boot | `LanBridge` |
| Freshness, software updates | `seat/freshness.go`, `software.go` | what is known of each seat's versions | ask, compare, update | looks that are old when used; a cancelled askInTurn leaves a Problem standing for six hours (freshness.go:802) | the effect on the seat is in `SeatLifecycle` and `Provision` |
| Folder setups | `seat/foldersetup.go` | requests, approvals by digest, what was run | ask, approve, run | what was approved and what is run | not modelled |
| AppImages and files | `seat/appimage.go`, `files.go` | files, single instance | upload, replace, delete | replace while in use | not modelled |
| The host's own library | `seat/hostlibrary.go` | which library is the host's | adopt, watch | - | only as a member of `Pool` and `LauncherShares` |
| Authentication | `auth/*.go`, `api/guard.go` | sessions, attempts | log in, log out, expire, throttle | expiry and limits at their boundary | not modelled |
| Host jobs | `api/host.go`, `prepare/`, `uninstall/` | the one job, its log | start, follow, end | look and start in two steps; a restart that asks for some jobs only | not modelled, see section 6 |
| Daemon update | `update/*.go`, `host/update.sh` | staged release | check, fetch, verify, hand over | a crash between two steps | not modelled |
| Daemon start and shutdown | `cmd/polyseatd/main.go` | - | order of both | brokers listed while a sweep starts one | its parts are in `Supervise`, `SeatLifecycle` |
| API handlers, Sunshine client, report, config, web, in-seat scripts, installers | | none, or outside the daemon | decode, call, encode | - | not modelled: no state of their own |

How they interact. A request, the ticker and the Incus event listener are goroutines of one
daemon. Each reaches a seat through its runtime: a reading enters a lane, an operation
claims the seat, cancels the readings and waits for them (SeatLanes). What they do then to
the container, the broker and the card is SeatLifecycle; it takes from the lanes what
SeatTurns says of them, and from the broker's process what HelperPromise says of it, which
is why both abstract specifications exist. The broker itself is a Python process that Supervise
keeps running and that InputDevices follows; it shares only a file with the observer. The
record a build works from is SeatRecords' matter. The library runs on a timer of its own
behind one lock (Pool, SharedFolders); the order in which the seats' people act is free.
A pass that has moved folders tells the books of LauncherShares, which write the launchers'
entries for them. What an operation of SeatLanes runs when it builds, updates or changes a
seat is Provision; what a sweep does about people who stream is StreamWatch, and what the end of a
stream does for the list of games is GameList. LanBridge is run by the interface alone; it
stops seats behind the daemon's back and has the daemon start them again.

### What makes each modelled component correct

* Supervision: never two children; State() does not lie; Stop returns only when the child is
  gone, and does return; what went away is tried again.
* Lanes: no reading overlaps an operation's work on a runtime; one operation at a time; an
  operation waits for nobody it has not told; the seat comes free.
* Lifecycle: no broker into a shutdown; a cancelled sweep decides nothing; whatever events are
  dropped and whenever the daemon restarts, broker and card come into step with the container.
* Titles: only ever forward; what a copy's manifest says is there; refused and withheld titles
  stay away; everybody else ends up with the newest.
* Folders: nobody's saves are lost by a step that fails; only ever forward; everybody ends up
  with the newest.
* Records: the record is what was saved; a current seat is built with what it has; the
  password is the stored one.
* Devices: nobody gets another's device and keeps it; nobody loses the one he plays with; what
  a seat made arrives there; nothing that is gone stays.
* Recipe: a seat recorded as built has everything; only trouble fails a build, whatever earlier
  runs left; a Steam that was made to leave for the work comes back.
* Streams: one is over only after the grace; nobody is cut off on old news; the screen is put back.
* Application list: a reload ends nobody's stream on old news; every list arrives in the end;
  what somebody added by hand stays.
* Launcher entries: they arrive with the folder and go with it; one removed by hand stays removed.
* Bridge: after a run the machine is on the network and is after the next boot; a run fails only
  for a reason; the seats that were up come back.

## 2. Modules and the code

| module | stands for | how state and actions correspond |
|---|---|---|
| `Supervise` | `supervise.go` | `handle`/`stopping` are `p.cancel`/`p.stopping` by the number of the run they belong to; `sup[r]` is the program counter of the goroutine `Start` spawned, `pc[c]` of a caller in Start or Stop. Each critical section of `p.mu` is one action; what is done outside of it is an action of its own. |
| `HelperPromise` | what other code relies on | `phase` off, on, ending and whether there is a child. `Supervise` implements it (`KeepsThePromise`); `SeatLifecycle` instantiates it for the broker. |
| `SeatLanes` | the exclusion part of `manager.go` | runtimes are numbered because goroutines keep pointers to deleted ones; `cancel`, `held` per runtime and lane; `told`, `at` are the loop variables of claim and quiesce. |
| `SeatTurns` | "no read and no operation share a moment" | `SeatLanes` implements it on every runtime (`TakesTurns`); `SeatLifecycle` keeps to it (`KeepsTheTurns`). |
| `SeatLifecycle` | what readings and operations do | `op` and `sweep` are program counters with one point before every call to Incus, to the broker or to the state; `events` is the channel, with its capacity and its drop. |
| `Pool` | the title half of the library | a copy is a manifest and a tree; every write of either is an action; `saved` is `state.json`, `mark`/`withheld` what the daemon has in memory. |
| `SharedFolders` | the folder half | `old`, `kept` are the leftovers on disk; each rename of `cloneAt` and `carryPrivate` is an action, and so is each step back. |
| `SeatRecords` | records and secrets | a request is read, change, write and apply; `lane` is a build or a deletion, `copy` the record it works from; each file written is an action. |
| `InputDevices` | broker and observer | `device` is the kernel, with the numbers it gives; `observer`, `claimed`, `looking`, `record` the observer; a broker's pass is scan, attribute, one attach per node, and the end that detaches and remembers. `losing` is what the observer has claimed during its pruning, `refused` where Incus has refused a broker. |
| `Provision` | the recipe and the runs made of its steps | `run` is the run that has the seat: its kind, step and phase within it, what it has read, whether it closed Steam; `left` what became of a Steam it made leave; `have` and `tool` what is in the container, `conf` what Incus holds and `live` what it was started with. A step that changes two things has a phase between them. |
| `StreamWatch` | who streams, and what follows | `said` is the journal between Sunshine and the follower; `letgo[v]` a goroutine that waits for ports, `sweep` the sweep, both by where they are; `streaming`, `unclear`, `quiet` the runtime's fields; the grace passes by the clock, whoever is there. |
| `GameList` | scan, merge, write, reload | `apps` is the place of refreshApps; `list`, `base`, `stamp` its locals; `file` is apps.json, `rewrite` what Sunshine is about to have written there, and `served` what it has loaded; `memory` is `runtime.lutris`. |
| `LauncherShares` | one `shareBook` | `round` is the round with its members still to visit; `book` and `disk` the state in memory and in the file; `everyone`, `stale` who is owed a look; `doing` what other goroutines have still to tell the book. |
| `LibraryMembers` | who takes part in the library | the members in the order of a pass, and the bounds that `Pool`, `SharedFolders` and `LauncherShares` share. |
| `LanBridge` | script, Runner, resume | `pc` and `mode` are the script, one point before each call to nmcli or incus; `link`, `plain`, `bridgeCon`, `portCon` NetworkManager; `busy` the seats a Start has got; `names`, `resuming` the lists of seats; `Boot` is what the next boot would bring up. |
| `SuperviseProofs`, `SeatLanesProofs`, `SeatProofs`, `PoolProofs`, `SharedFoldersProofs`, `SeatRecordsProofs`, `ProvisionProofs`, `LanBridgeProofs` | | inductive invariants and theorems |
| `MC*` | | instances for TLC |

Definitions said to be "mutated", or "as a bug might have it", are the code with one plausible mistake in it. No
specification uses them; each replaces the definition it stands beside when one asks whether a
property would notice the mistake.

What is abstracted: names, messages, paths and the contents of files; a build, a version or a
password is a number. One seat in SeatLanes, SeatLifecycle and SeatRecords (seats share no
lock but those modelled), one title in Pool and one folder in SharedFolders (titles do not meet
each other). One launcher and one folder in LauncherShares, one seat in Provision, StreamWatch and
GameList, where who streams is reduced to somebody being there or not. In InputDevices a device stands for all its nodes, and one broker is followed
while another seat and the host make devices: two brokers write nothing that both read.

## 3. Runs

Every run passes.

| run | instance | shows |
|---|---|---|
| `supervise` | 2 callers, 3 runs, waits up to 2 s, a Fatal function | one child, no early return; Stop and Start return; `Supervise` implements `HelperPromise` |
| `seat_lanes` | 2 goroutines, seat created twice, 3 runtimes | no overlap on a runtime, nobody is waited for untold; turns (`SeatTurns`); the seat comes free |
| `lifecycle` | 2 requests of 5 kinds, 1 move from outside, a channel of 1 | no broker into a shutdown; turns are kept; down is noticed, up is adopted |
| `pool` | host and seat, 1 watched library, 2 builds, 2 moves, 1 failure, 1 crash | withheld stays out, refusals stick, only forward, everybody gets it |
| `folders` | 2 seats, 2 prefixes, 3 versions, 2 saves, and 2 of: 2 failures, 1 crash, 1 removal or request | saves stay put, no failure loses saves |
| `records` | 2 requests at once, 2 settings, 4 changes, 4 builds or deletions, 1 failure, 1 crash | nothing lost, current means built, passwords kept |
| `devices` | 2 seats and the host, 2 devices over 2 nodes, and one of: observer or broker ends, a refused call | only its own, kept while there, arrives, nothing dead stays |
| `provision` | 1 trouble (a failing call, a cancel or a power-off), 1 new daemon that pins two items anew, 1 change of a setting | a current seat is whole, only trouble fails a build, a Steam that was made to leave comes back |
| `stream` | 2 waiting goroutines, 2 visits, 1 lost line, answer or call, 1 operation | over only after the grace, nobody cut off on old news, the size is put back |
| `game_list` | two games of one name, one that its launcher lists itself, a shortcut, a list of two names; 1 visit, 1 change of a game or the file, 1 loss, 1 installation | reloads on fresh news, the list arrives, hand-added entries stay |
| `shares` | host and seat, Heroic, 2 changes, 1 deletion, 1 failure, 1 crash | the entry arrives, goes, and a removed one stays removed |
| `lan_bridge` | 2 seats, 2 runs, and two of: 1 refusal, 1 button, 1 killed run, restart or reboot | stays on the network, only trouble fails a run, the seats come back |

**Why the bounds are enough.** Two of every actor are what the code's exclusion distinguishes:
the one inside and the one that comes. Three runs of a helper let a Stop overlap the run
before and the Start after. A third runtime is the one made between a deletion and the next
creation. A channel of one event is the smallest that is full while somebody waits; the code's 32 only makes
dropping rarer. Two builds give an older and a newer; three versions a leftover, the copy beside it and the one that
replaces it; two members a source and a
receiver; two prefixes a swap that has moved one set of saves and not the other. Two failures in
`folders` are the step and a step of the way back, two saves the first in a prefix and the one after it; its
constraint `TwoMishaps` leaves out only behaviours with three mishaps, and its prefixes are interchangeable (the symmetry). Two devices over two nodes, with any number of passes,
are the device a node had and the one it has. Three names in a list of two is the smallest cut. In `stream` a client that leaves and one that comes are two
visits, and two goroutines wait for the ports of the first and of the second. In `provision`, `game_list`
and `lan_bridge` one failure is enough for the run after it to find every half-done state; a second run, build or visit
is what meets it. `lan_bridge` needs two seats for one that is listed and one that is not, and leaves out only behaviours with all three mishaps; `shares` a member that learns and
one that is given. MaxMoves and its like only bound how often people do something:
what each of those steps can interleave with is not bounded.

**Conditions in properties.** Where the code promises something only short of a crash or of a
second failure, the property says so: RefusalsStick holds while no daemon has gone,
WithheldStaysOut lets in what was readmitted, also when that could not be saved, SavesStayPut for one failure and no crash, and, as NoFailureLosesSaves, not for what was first played in a prefix
(`late`) between the listing of the saves to carry (clone.go:273) and the swap, OnlyItsOwn and NothingDeadStays not for a broker that was
restarted on a seat whose devices carry tags. What InputDevices promises of a device made through uhid holds while its record is
there (`sure`): not once prune has forgotten it while it lives. OnlyItsOwn, Arrives and NothingDeadStays except the nodes where the last
call to Incus was refused (`refused`): attach_node and detach_node ask once (broker.py:445, 459). OnlyTroubleFailsABuild excepts a container whose restart failed
in an earlier run. EndsAfterTheGrace excepts a word of the client's return that is unread, that was lost, or that came
(`outdated`) between the first idle look and its judging; StreamWatch does not say how many sweeps fit into a grace. NobodyIsCutOffOnOldNews allows who connected after the last look, and the software update, which looks once;
SizeIsPutBack allows a line nobody heard and an end that was cut short; AppListArrives a write whose answer was
lost, and HandAddedStays a read that met the file while Sunshine wrote it, or cut off. EntryArrives speaks of members that are owed a look, EntryGoes of entries the book knows. StaysOnTheNetwork
is silent (`half`) from a run that was killed, or whose way back or move of a seat was refused, to the next that ends
without trouble; SeatsComeBack excuses (`excused`) seats somebody else has touched, whose start was refused, also because
the Start they were stopped in has them still, all of them after
such a run, and those that are isolated. ClosedSteamIsPutBack lets go of a Steam that left after the wait for it, unless a build succeeds. Section 5 says what happens beyond.

Some properties are stated in the modules and hold on these instances without being part of a run, because what they say is
proved, is said more strongly by another, or is a smaller matter: the type invariants,
StateTellsTheTruth, StoppedMeansGone, OneOperation, CancelledReadsDecideNothing (all proved), TriedAgain, ClaimGetsToWork,
NeverLeftStopping, RunningIsNotStale, HandedOutWhole, DeclinedBySomebody, PoolOnlyForward, EverybodyHasIt, RunsEnd,
HealthySeatIsLeftAlone, ToolKept and NoSteamIsOwed (proved). Name one under PROPERTIES of its module's configuration to check it.

**Deadlock** is checked in every run but `lan_bridge`, where everything a person may do is used up in the end and the
machine rests.

**Fairness.** Weak fairness of a goroutine's next step: the Go scheduler runs what can run. Strong
fairness of taking a lane (`Lock`, `Quiesce` in SeatLanes) and the library's lock (`SyncBegins`): a
`sync.Mutex` in starvation mode goes to whoever has waited longest. Strong fairness of the sweep's ticker and of sweeps that get
an answer (SeatLifecycle): it ticks every few seconds for ever, and a seat that can be asked is
not unlucky for ever. Weak fairness of passes: the library's timer starts one every minute. Weak fairness of
observer and brokers in InputDevices, starting included: Supervise runs them again (`TriedAgain`) and the poll is every
half second. Weak fairness of a run of the recipe (each of its commands has a limit), of the sweep, the follower, and
of the goroutines that wait for ports (StreamWatch: ports close and a grace passes), of refreshApps and the operation that asks for it,
of a sweep that finds the seat idle (GameList), of rounds and passes and of people who turn on a seat or close a launcher in
the end (LauncherShares), of the script, the Runner and the container's start (LanBridge). Nobody is ever obliged to call Start, to play, to install, to save or to make a device, a child may stay
up for ever, a reading nobody cancels may never end, and no failure or crash has to happen.

## 4. Proofs

Every safety property of a run, invariant or action property, is a theorem, and so are the two refinements of SeatTurns
and the steps of HelperPromise. The theorems are for all values of the constants that satisfy the modules' ASSUMEs, which
only say that bounds are natural numbers, that a name that stands for nobody or for an answer is nobody's, in GameList that nobody
names his own entry like a game, and in Provision that a new version pins anew only what is pinned. TLC evaluates every ASSUME in
its component's run. InputDevices, StreamWatch, GameList and LauncherShares are proved about beside a component they have to do
with, in a module that extends both; their Init, Next and Spec therefore have names of their own (`DeviceSpec`, `WatchSpec`,
`ListSpec`, `ShareSpec`). No theorem speaks of both parts of such a module at once.

* **SuperviseProofs**: TypeCorrect, OneChild, TruthfulState, StoppedIsGone, StopWaits, PromiseSteps. The
  properties are not inductive: that there is one child rests on who holds the handle. The
  invariant says which run a handle and a stopping channel belong to (the newest, live one), where the
  goroutine of a cancelled run can be, and what a caller in each place of Stop knows of the run it took. It is also what makes
  every step one that HelperPromise allows. For InputDevices: DevicesInductive, GivesOnlyItsOwn, KeepsItsOwn. A
  node has one device from when it is asked for until it is gone (KernelKnows). A device that says who made it goes on saying so
  (Says), and a creation no other came near of is the only one the observer can take its device for (Lonely), so that its
  record names the maker (ObserverKnows). What a pass has found of those it takes exactly if it is the seat's
  (PassKnows), and what is attached is known from the pass before or taken by this one, or was refused to be taken out (SeatHolds). That a smallest number exists, which the
  observer's sorting goes by, is the one use of well-founded induction.
* **SeatLanesProofs**: TypeCorrect, Exclusion, OneAtATime, EveryReadingTold, Turns. The invariant ties a
  runtime's busy to the one goroutine in an operation on it, a lane's lock to the goroutine in the
  places between Lock and Unlock, a registered cancel to the reading it ends, and the lanes already waited for to
  no reading being in them. The last is what makes the exclusion inductive: a reading that
  enters after quiesce has passed its lane has seen busy. Turns follows: a step that changes a runtime's turn starts or ends one
  reading or one operation on it, and Exclusion says that there is no other beside it. Of StreamWatch:
  WatchInductive, GraceIsGiven, NobodyIsCutOff. Each goroutine that may end a stream has looked for the client; who was away at
  its look and is here now is in `late`, or the journal has a line that clears the clock, or the clock counts from a look older than that line
  (CameAfterTheLook, LongGone).
* **SeatProofs**, of SeatLifecycle: BrokerFirst, CancelSeen, TurnsKept. The invariant follows the broker from the
  Stop an operation waits for to the end of the container, and says of every sweep and event
  that could start a broker that it has not got so far while an operation is at work. Of GameList: ListInductive,
  NobodyIsReloadedAway, HandAddedIsKept. Between the look and the reload nobody is there but who
  came after the look; between the read of apps.json and its write the list made holds every hand-added entry the
  file read had, unless it was read half written. apps.go takes an entry that is named like a game for its own, hence GameListAssumption.
* **PoolProofs**: TypeCorrect, Withheld, RefusalsHold, Forward. The type invariant is proved for any order of members and watched
  libraries. That a withheld title stays out needs the place of a pass that holds a
  copy of it, that such a pass has looked at a record that did not withhold, and that a title withheld on disk alone was readmitted
  (SavedIsKnown). RefusalsHold and Forward suppose that no library
  changes while a pass is at it (`~Racing`, as in the run): what a pass read of a member is then still so when it writes. They
  need no bound on failures, nor Forward on crashes. With Racing TRUE both are false, and section 5 says how.
* **SharedFoldersProofs**: TypeCorrect, SavesStay, NothingLost. The invariant says of the tree to be placed that it has none of the saves
  to be carried before the first rename, and that the folder's name for what is moved aside is free by then (Ready); between the two
  renames, there and back, that each of those saves has left one tree for the other or not yet (Swapped); and that after them
  nothing but what came too late (`late`) is left in what was moved aside, which is then removed (Emptied). OneFailure says where the last save is meanwhile.
  For LauncherShares: SharesInductive, RemovedStays. What a person removed where the daemon knew it had written it is in the book and in
  its file (Remembered), so no round registers it (RoundKnows), whichever of the two it was begun from.
* **SeatRecordsProofs**: NothingLost, Current, Paired, from one invariant (Inductive) that says who holds
  the record, that a request's copy is the record while it does, and what a build in progress
  will find of the record it began with.
* **ProvisionProofs**: Inductive, Whole, OnlyTrouble, SteamComesBack. CurrentIsWhole is about the record at rest; a run keeps nothing
  of what it has done but the place it has got to. The invariant says what a build at each place can rely on (SoFar: every item of the steps behind it, a
  container from the second on, this version's settings from the card on) and what one that is through has (Through). It is
  kept because only a new version takes an item away, and there is none while a run has the seat; that every item has a step is a
  lemma about the recipe. OnlyTrouble adds what a run without trouble has (Luck): it has failed at the card or nowhere, and
  at a session it has built everything; each step then finds what it needs, as the recipe puts it after its need
  (NeedsAreEarlier). The card is the exception the property makes: its settings may not be those the container runs with.
  SteamComesBack is NoSteamIsOwed: a Steam that was seen to go is off and a run has it that has noted so and resumes (Owing), through every
  failure, cancel and power-off, until RunEnds starts it or tries to.
* **LanBridgeProofs**: Inductive, OnTheNetwork, FailsForCause. That the network is there between two runs is not inductive. The
  invariant says for each step what NetworkManager holds when it is taken: on the way there which profiles exist and
  who has the interface (Building), on the way back that what is deleted stays deleted until the plain profile is restored
  and raised (WayBack), that a repoint comes only after the interface is where the mode wants it (Repointing), and that a
  run at rest leaves either the bridge with both its profiles and a plain one that will not come up, or neither and one that
  will (Resting), unless `half` says otherwise. FailsForCause adds that the seats are stopped one by one (Stopped), that after
  it nobody holds the interface unless trouble was noted (Freed), and that a way back began with trouble (RolledBackForCause).

What stays with TLC is liveness under fairness: CallsReturn and the end of a stop that KeepsThePromise says, SeatComesFree, DownIsNoticed,
UpIsAdopted, EverybodyGetsIt, Arrives, NothingDeadStays, ClosedSteamIsPutBack, SizeIsPutBack, AppListArrives, EntryArrives, EntryGoes and SeatsComeBack. No
prover here does ENABLED, on which fairness rests. Nothing about recursion over data is stated; no module declares a recursive
operator. The type invariants of GameList, StreamWatch, InputDevices and LauncherShares have no theorem of their own:
the inductive invariants say of each variable what the argument needs.

**What proving changed in the models.** A property that cannot be made part of an inductive invariant may hold in a run for a
reason that is not the code's. NoFailureLosesSaves held with two versions because no third could arrive over a leftover:
with three, the removal of a leftover under a name that is needed loses saves, which it now excepts and section 5 names. It was
also a statement about states, which a member that has lost a save once can never satisfy again; it is now one about steps. What a way
back keeps was one tree in the model, and a second failure overwrote it; each has a directory of its own.
OnlyTroubleFailsARun held only for the two runs of the instance: in a third the isolation checkbox may give the interface to a seat
that is up, the enslave is refused, and such a press is now trouble. OnlyForward took a copy for whole while its tree was being replaced; it now
says of that moment too what may replace it, and its theorem supposes no race, without which it is false. RemovedStaysRemoved needed
that no member is called like one of the answers. InputDevices kept the order of the kernel's numbers in a sequence that was
filtered; the numbers themselves, as claim sorts by them, are nearer to the code and within the provers' reach.

## 5. Disagreements between the code and what is said of it

They are stated in the modules under "What the comments say and the code does not do" or beside the properties, or are the
properties of section 3 without their condition. Each is found in seconds to minutes by a configuration like the module's with the
constants given here; for six there is one in this directory, named in the table.

| property | constants | what happens |
|---|---|---|
| SeatLifecycle `NotReactingToItself` | MCSeatLifecycleReacting.cfg | the stop a build made, handled after the build, takes the broker from the seat it has just brought up (manager.go:674); manager.go:667 |
| Pool `DeclinedCopiesAreTheirs` | MCPoolDeclined.cfg | a copy installed again after a refusal is replaced by the pool's, because the case for updates never asks the mark (pool.go:906); pool.go:1707 |
| SharedFolders `SavesAreStillSaves` | MCSharedFoldersLost.cfg | saves that a crash left in `<name>.polyseat-old` are removed by a later delivery (clone.go:313), and so are those of two failures without a crash (a step and the way back) once the member has the folder again; clone.go:336 |
| SeatRecords `AppliedRightAway` | MCSeatRecordsCopy.cfg | a build puts back a setting that was applied while it ran (provision.go:3022) |
| InputDevices `HostDevicesAreLeftAlone` | MCInputDevicesHost.cfg | a host's own pad, older than the observer, is attached to the seat that is making one; security.md:250 |
| Provision `BuildingAgainHelps` | MCProvisionAgain.cfg | the next run compares against the settings Incus holds, not against those the container runs with, and gives no restart (provision.go:2707); provision.go:2704 |
| Provision `LateSteamIsPutBack` | no trouble, no change, no new version | a Steam that leaves after its 20 seconds were over is nobody's to start (provision.go:1650): a tools turn restarts no session, and the seat stays without one; proton.go:172 |
| Supervise `BackoffCapped` | 1 caller, MaxBackoff 30 | supervise.go:214 doubles whatever is below the cap, so 16 s becomes 32 s; supervise.go:37 says the cap caps |
| Supervise `StopReachesEverything` | 1 caller, 1 run | a child that ends by itself leaves its process group alone (supervise.go:270), and no later Stop signals what it had spawned; supervise.go:243 |
| SeatLanes `NoOverlapOnTheSeat` | 2 goroutines, 2 creates, 3 runtimes | lanes are per runtime, the container per name: a reading on a deleted seat's runtime overlaps the new seat's operation; manager.go:826 |
| SeatLanes `DeletedIsForgotten` | the same | a reconcile on its way when Delete finishes makes a runtime for the deleted name (manager.go:757); manager.go:2169 |
| SeatLanes `StoppingMeansAShutdown` | the same | a Stop that fetched the runtime of a deleted seat sets the new seat's state by name and its failure is not recorded (manager.go:2182); seat.go:170 |
| SeatLifecycle `NothingTalksWhileStopping` | start, stop, pointer, 3 requests | applyPointerSpeed execs in no lane (manager.go:2811); seat.go:170 |
| SeatLifecycle `OperationOwnsTheState` | 2 requests, 1 move | the failed operation says StateError after it cleared busy (manager.go:2184), over the next operation's state; manager.go:666 |
| SeatLifecycle `StartAdoptsWhatIsUp` | 2 starts | one exec that is not answered makes Start restart a session that is up (manager.go:1454); manager.go:2547 |
| SeatLifecycle `RunningHasItsBroker` | start, update | an update stops the broker and leaves the card at running (freshness.go:629); seat.go:168 |
| Pool `NothingReplacedUnderAGame` | no watched library, 4 moves | whether a member may be updated is asked before the lock is waited for (seat/library.go:568); pool.go:80 |
| Pool `RefusalsStick` with a crash | 1 build, 3 moves, 1 crash | the record is saved once, at the end of the pass (pool.go:539): a title given and uninstalled around a crash is given again; pool.go:133 |
| Pool `SavedIsWithheld` | 2 moves, 1 failure | Readmit takes the title off the list in memory and returns what `save` says (pool.go:1405): not saved, it goes into the pool and is withheld again after a restart, neither refreshed nor withdrawn; pool.go:165 |
| Pool `HandedOutWhole`, `DeclinedBySomebody` | Racing TRUE, 3 moves | a Steam that starts to write while a tree is cloned (pool.go:660), or whose manifest is caught half written (pool.go:916); pool.go:57, steam.go:87 |
| Pool `RefusalsStick`, `OnlyForward` | Racing TRUE, 3 moves | what a pass decided of a member it acts on minutes later, when the copy is done: a title uninstalled in between is given back, one whose download finished in between is put aside for an older build (pool.go:916); pool.go:133 |
| SharedFolders `KeepsWhatItPlayed` | no failure | a game played for the first time while a new version of its folder is built, after its saves to carry were listed, goes aside with the old tree and is removed with it (clone.go:404), though "a seat that has played it keeps what it played" (private.go:32); people are asked whether they play once, before the pass (pool.go:798); clone.go:273 |
| SharedFolders `DeclinedBySomebody` with a crash | 1 prefix, 1 crash | a folder moved aside when the daemon went is taken for one that was removed (pool.go:811); clone.go:305 |
| SharedFolders `LeftoversAreNotShared` | 1 prefix, 1 save, 1 crash | `<name>.polyseat-old` is harvested as a folder (folder.go:86); folder.go:66 |
| SharedFolders `OnlyNewerFolders` | 1 prefix, 1 move | delivery goes by a scan from the pass's beginning (pool.go:782); pool.go:688 |
| SeatRecords `NewSeatsAreNew` | 1 request, 1 crash | the record goes first and a deletion of no seat cannot be repeated (manager.go:3008); manager.go:3021 |
| SeatRecords `AppliedRightAway` without a build | 2 requests, 4 changes | two requests apply in the other order than they saved (manager.go:2896); manager.go:2889 |
| InputDevices `ForgetsOnlyTheGone` | no trouble | prune lists the live devices before it takes the lock (uhid_observer.py:168): one claimed in between loses its record and its claim, and as the oldest nobody has claimed it is claimed by the next creation, whoever makes it; uhid_observer.py:167 |
| InputDevices `NoOrphansStay` | 1 trouble, Tagging = Watched | an attachment kept at the start is in no pass's `known` (broker.py:960), so it stays when its device goes, for the next device of that node; broker.py:937 |
| InputDevices `SeatIsTold` | 2 devices over 1 node | a node the same seat uses again within one pass is known already (broker.py:972) and no event is sent for the new device; broker.py:845 |
| InputDevices `OtherNamesAreRefused` | 2 devices over 1 node, the other seat tags | names are asked only after a correlation, not where the creator or the observer has spoken; broker.py:897-903 |
| StreamWatch `MissingHasToStayMissing` | 2 visits, no fault | an idle look that is judged after the line of a connection starts the grace with the client there, by the clock (manager.go:1664); when no look is answered for 45 seconds the first gap after them ends the stream, without a grace; manager.go:1632 |
| StreamWatch `EndIsRepeated` | 1 visit, 1 fault | an answer that was not given ends sessionEnded as if somebody were there, and streaming is cleared: nothing runs it again (manager.go:1508); manager.go:1506 |
| StreamWatch `NobodyIsCutOffOnOldNews` without the update | 1 operation | an update looks at streams once, before its minutes of work (freshness.go:603) |
| GameList `AppListArrives` without its way out | 1 fault | a write whose answer is lost finds its file settled, and Sunshine is never reloaded (apps.go:219, software.go:523) |
| GameList `TornReadsDropNothing` | 1 write of Sunshine's | of a file that is there and cannot be parsed nothing is kept (apps.go:569): read while Sunshine writes it in place, it costs the entries added by hand "on the strength of a read that merely failed this once"; apps.go:182 |
| LauncherShares `EverybodyGetsIt` | SeatsOnly | the recipe of a seat that was off is learned after the others were looked at, and nobody marks them (share.go:303); lutrisshare.go:27 |
| LauncherShares `NothingIsLeftBehind` | 1 fault or crash | an entry that was written and not noted is somebody else's to the next scan (share.go:768) |
| LauncherShares `NoDeletedAuthor` | 1 deletion | a round that is on its way learns the recipe of a seat that forgetMember has just been told of; share.go:247 |
| LanBridge `SeatsFitTheNetwork` | 1 isolated seat, 2 runs | `--undo` asks for bridged seats only, and an isolated one keeps a macvlan on a bridge that is gone (lan-bridge.sh:603); lan-bridge.sh:503 |
| LanBridge `IsolationIsKept` | 1 isolated seat, 1 run | repoint makes every seat it moves a port of the bridge; network.go:240 |
| LanBridge `UndoClears` | 1 killed run | killed between its two profiles, a run leaves a bridge without a port: install refuses and `--undo` gives up (lan-bridge.sh:596); lan-bridge.sh:211 |
| LanBridge `OnlyTroubleFailsARun` without its cause | 3 runs, 2 buttons, MaxFaults = MaxCuts = 0 | an isolated seat that `--undo` left up beside the network (SeatsFitTheNetwork) is not one of those the next run stops; the checkbox pressed during that run gives it the interface (manager.go:2906), and the enslave is busy; lan-bridge.sh:26 |
| LanBridge `StoppedSeatsAreListed` | 1 seat, 1 button | a seat started between the list and the run is stopped and nobody starts it (host.go:425); lanbridge.go:136 |
| LanBridge `HeldSeatsComeBackToo` | 1 seat, MaxFaults = MaxCuts = 0 | a seat that was coming up is listed and stopped by the script, and is still in its Start, which waits for a session for up to a minute (manager.go:2660), when it is started again: refused as busy (manager.go:949) it stays down; host.go:453 |

Met while reading, without a model of their own: a copy into the pool that is cut off leaves part of a game there, and
the next attempt leaves that part alone (`cp -n`) and removes the original (provision.go:3108; the model has the step). The change of the
GE-Proton setting never calls ResumeSteam (manager.go:2859). An entry somebody adds to apps.json between the daemon's read
and its write is lost, and a client that connects between the last look and a reload is cut off; nothing in Sunshine's
interface allows better. Applying an update and preparing the host ask about each other and start in two steps (server.go:2042,
host.go:139), and a restart asks about preparing only (server.go:2152). restore_uplink passes over a refused
`connection.autoconnect yes` (lan-bridge.sh:564).

## 6. Not modelled, and what comes next

Left out of modelled components: the output of helpers; watched libraries and members that come and go while a
pass runs, and closing Steam for an uninstall; several folders whose harvest ends at the first error and
members whose update is put off; what a game that runs through the moments of a swap writes into the folder that was
moved aside, and somebody who makes or removes a folder between the look at its name and the last rename
(`Swapping`; the copy of a source is of one moment too); validation of names and settings and records of another schema; a
pad's raw half and the sealing of devices; the contents of what a step installs, and which package a machine needs; the
wording and pictures of an application; what an entry of a launcher may carry; the management bridge, a wireless uplink and one that
is not the way out, somebody else's bridge, a second `polyseat-uplink` beside one whose deletion was refused (the model has one or
none, nmcli con add makes another of that name), and a seat that is built while the bridge is. An observer that is started again has lost its record
(uhid_observer.py:306): untagged pads made before are then nobody's, and KeptWhileThere says nothing of them.

Components without a model, and why: handlers, the Sunshine client, the report, the configuration and the web assets
decode, call one operation and encode; in-seat scripts and installers run beside or before the daemon and without it. Host jobs,
the update of the daemon, authentication, folder setups and AppImages have state and order of their own and come next:

1. `HostJobs` with the daemon's update: one job at a time over looks and starts that are two steps, a log that ends, a
   restart under it.
2. `FolderSetups`: what is run is what was approved by its digest.
3. `Sealing`: udev's rule, `uhid_owner`'s wait, the marks and `reannounce`, composed with InputDevices: no window in
   which the desktop may open a seat's pad while the observer is live, and no host pad that stays marked.
4. `Freshness`: asking in turn, what a Problem stands for, updates that wait for a stream to end.
5. `Sessions`: authentication, expiry, throttling.
6. Proofs: HandedOutWhole, DeclinedBySomebody and PoolOnlyForward of Pool and OnlyNewerFolders of SharedFolders under their
   conditions; ToolKept of Provision; the type invariants that have none.
