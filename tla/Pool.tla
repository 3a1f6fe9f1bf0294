-------------------------------- MODULE Pool --------------------------------
(***************************************************************************)
(* The shared library and one Steam title of it                            *)
(* (src/internal/library/pool.go, src/internal/seat/library.go): a pass    *)
(* takes finished installs from the members into the pool and gives the    *)
(* pool's copy to the members, while Steam and the people in the seats do  *)
(* with their libraries what they like.                                    *)
(*                                                                         *)
(* A copy is a manifest and a tree of files beside it, and a pass writes   *)
(* the one after the other.  Builds are numbers, as Newer reads them.      *)
(* Titles do not meet each other, so there is one.                         *)
(***************************************************************************)
EXTENDS Integers, Sequences, LibraryMembers

CONSTANTS
  Watched,    \* watched libraries that are no member: read, never written
  Pooled,     \* the pool itself
  MaxBuild,   \* bound: how many builds the title has
  MaxMoves,   \* bound: how often somebody in a seat does something
  Racing      \* whether a library may change while a pass is at it

Libraries == Members \cup {Watched[i] : i \in DOMAIN Watched}
Places    == Libraries \cup {Pooled}

ASSUME OrderAssumption ==
  Order \in Seq(Members) /\ Watched \in Seq(Libraries \ Members)
ASSUME PooledAssumption == Pooled \notin Libraries
ASSUME PoolBounds ==
  /\ MaxBuild \in Nat \ {0} /\ MaxMoves \in Nat
  /\ MaxFaults \in Nat /\ MaxCrashes \in Nat
  /\ Racing \in BOOLEAN

VARIABLES
  copy,      \* per place, the title's manifest and files
  inUse,     \* per member, whether something has the files open
  latest,    \* the newest build Steam offers
  mark,      \* state.Delivered, per member
  withheld,  \* state.Withheld
  saved,     \* what state.json says of the two
  readmitted,\* history: whether it was readmitted since it was last withheld
  waiting,   \* whether a pass has asked the members and waits for the lock
  listed,    \* the members it found free to be updated
  free,      \* those the pass or uninstall that holds the lock may write to
  at,        \* where that is
  todo,      \* the members it has yet to go through
  build,     \* the build it is copying
  staged,    \* the tree it has cloned beside the old one
  refused,   \* per member, whether somebody there uninstalled the title
  moves,     \* moves so far
  faults,    \* faults so far
  crashes    \* crashes so far

people   == <<inUse, latest, refused, moves>>
probe    == <<waiting, listed>>
kept     == <<withheld, saved, readmitted>>
record   == <<mark, kept>>
holder   == <<free, at, todo, build, staged>>
poolVars == <<copy, people, record, probe, holder, faults, crashes>>

Partial == -1       \* a tree Steam is in the middle of writing
Nothing == [state |-> "none", build |-> 0, tree |-> 0]

\* The manifest alone, and the files alone.
Written(p, state, b) ==
  [copy EXCEPT ![p] = [state |-> state, build |-> b, tree |-> @.tree]]
Filled(p, tree) == [copy EXCEPT ![p].tree = tree]

Has(p)  == copy[p].state # "none"
Busy(m) == inUse[m] \/ copy[m].state = "working"

Init ==
  /\ copy = [p \in Places |-> Nothing]
  /\ inUse = [m \in Members |-> FALSE]
  /\ latest = 1
  /\ mark = [m \in Members |-> "none"]
  /\ withheld = FALSE
  /\ saved = [mark |-> [m \in Members |-> "none"], withheld |-> FALSE]
  /\ readmitted = FALSE
  /\ waiting = FALSE
  /\ listed = {}
  /\ free = {}
  /\ at = "idle"
  /\ todo = <<>>
  /\ build = 0
  /\ staged = 0
  /\ refused = [m \in Members |-> FALSE]
  /\ moves = 0
  /\ faults = 0
  /\ crashes = 0

-----------------------------------------------------------------------------
(* Steam, and the people who play *)

Taking == at \in {"take", "takeAside", "takePlace", "takeManifest"}
Giving == at \in {"give", "giveAside", "givePlace", "giveManifest"}
Dropping == at = "dropFiles"

\* A library a pass is not just copying from or into.
Apart(p) == Racing \/ ~((Taking \/ Giving \/ Dropping) /\ Head(todo) = p)

Move(p) ==
  /\ moves < MaxMoves
  /\ moves' = moves + 1
  /\ Apart(p)
  /\ UNCHANGED <<record, probe, holder, faults, crashes>>

\* Somebody installs the title, or a Steam that was running when its copy was
\* deleted downloads it again.
Install(p) ==
  /\ Move(p)
  /\ ~Has(p)
  /\ copy' = [copy EXCEPT ![p] = [state |-> "working", build |-> 0, tree |-> Partial]]
  /\ refused' = IF p \in Members THEN [refused EXCEPT ![p] = FALSE] ELSE refused
  /\ UNCHANGED <<inUse, latest>>

\* Steam brings an installed title to the newest build.
Update(p) ==
  /\ Move(p)
  /\ copy[p].state \in {"fresh", "settled"}
  /\ p \in Members => ~inUse[p]
  /\ copy[p].build < latest
  /\ copy' = [copy EXCEPT ![p] = [state |-> "working", build |-> @.build, tree |-> Partial]]
  /\ UNCHANGED <<inUse, latest, refused>>

Finish(p) ==
  /\ copy[p].state = "working"
  /\ Apart(p)
  /\ copy' = [copy EXCEPT ![p] = [state |-> "fresh", build |-> latest, tree |-> latest]]
  /\ UNCHANGED <<people, record, probe, holder, faults, crashes>>

\* settleTime passes over the manifest.
Settle(p) ==
  /\ copy[p].state = "fresh"
  /\ copy' = [copy EXCEPT ![p].state = "settled"]
  /\ UNCHANGED <<people, record, probe, holder, faults, crashes>>

\* Clearing space in one's own seat.  It is a refusal once a pass has seen the
\* title there.
UninstallHere(m) ==
  /\ Move(m)
  /\ Has(m) /\ ~inUse[m]
  /\ copy' = [copy EXCEPT ![m] = Nothing]
  /\ refused' = [refused EXCEPT ![m] = mark[m] # "none"]
  /\ UNCHANGED <<inUse, latest>>

Play(m) ==
  /\ Move(m)
  /\ copy[m].state \in {"fresh", "settled"} /\ ~inUse[m]
  /\ inUse' = [inUse EXCEPT ![m] = TRUE]
  /\ UNCHANGED <<copy, latest, refused>>

Quit(m) ==
  /\ inUse[m]
  /\ inUse' = [inUse EXCEPT ![m] = FALSE]
  /\ UNCHANGED <<copy, latest, refused, moves, record, probe, holder, faults, crashes>>

NewBuild ==
  /\ latest < MaxBuild
  /\ latest' = latest + 1
  /\ UNCHANGED <<copy, inUse, refused, moves, record, probe, holder, faults, crashes>>

People ==
  \/ \E p \in Libraries : Install(p) \/ Update(p) \/ Finish(p) \/ Settle(p)
  \/ \E m \in Members : UninstallHere(m) \/ Play(m) \/ Quit(m)
  \/ NewBuild

-----------------------------------------------------------------------------
(* A pass *)

\* members(true): each is asked whether anything has its files open, and one
\* that cannot be asked counts as busy.  That is before the lock.
Probe ==
  /\ ~waiting
  /\ waiting' = TRUE
  /\ listed' = {m \in Members : ~Busy(m)}
  /\ UNCHANGED <<copy, people, record, holder, faults, crashes>>

SyncBegins ==
  /\ waiting
  /\ at = "idle"
  /\ at' = "look"
  /\ todo' = Watched \o Order
  /\ free' = listed
  /\ waiting' = FALSE
  /\ listed' = {}
  /\ UNCHANGED <<copy, people, record, build, staged, faults, crashes>>

\* mark: what is declined stays declined.
Mark(m) ==
  mark' = IF m \in Members /\ mark[m] = "none"
            THEN [mark EXCEPT ![m] = "delivered"] ELSE mark

\* readAppsAt skips a manifest Steam is in the middle of writing.
Reads(p) == IF Racing /\ copy[p].state = "working" THEN {TRUE, FALSE} ELSE {Has(p)}

\* Mutated: what comes back after an uninstall is taken.
WorthTakingAgain(p) ==
  /\ copy[p].state = "settled"
  /\ Has(Pooled) /\ copy[Pooled].tree # 0 => copy[p].build > copy[Pooled].build
  /\ copy[p].tree # 0

\* Mutated: whatever differs is taken, in either direction.
WorthTakingDifferent(p) ==
  /\ copy[p].state = "settled"
  /\ ~withheld
  /\ Has(Pooled) /\ copy[Pooled].tree # 0 => copy[p].build # copy[Pooled].build
  /\ copy[p].tree # 0

\* Mutated: a manifest of the pool is taken for a copy.
WorthTakingTrusting(p) ==
  /\ copy[p].state = "settled"
  /\ ~withheld
  /\ Has(Pooled) => copy[p].build > copy[Pooled].build
  /\ copy[p].tree # 0

\* harvestFrom's conditions: complete, quiet, not withheld, newer than what the
\* pool has, and with files.
WorthTaking(p) ==
  /\ copy[p].state = "settled"
  /\ ~withheld
  /\ Has(Pooled) /\ copy[Pooled].tree # 0 => copy[p].build > copy[Pooled].build
  /\ copy[p].tree # 0

Step(from, to) ==
  /\ at = from
  /\ at' = to
  /\ UNCHANGED <<people, kept, probe, free, crashes>>

NextIn(phase) == at' = phase /\ todo' = Tail(todo)

\* harvest and harvestSource: one library's manifest read
Look ==
  /\ at = "look" /\ todo # <<>>
  /\ LET p == Head(todo) IN
     \/ /\ TRUE \in Reads(p)
        /\ Mark(p)
        /\ IF WorthTaking(p)
             THEN at' = "take" /\ build' = copy[p].build /\ UNCHANGED todo
             ELSE NextIn("look") /\ UNCHANGED build
     \/ FALSE \in Reads(p) /\ NextIn("look") /\ UNCHANGED <<mark, build>>
  /\ UNCHANGED <<copy, people, kept, probe, free, staged, faults, crashes>>

\* What the pool holds is read once, after everybody has contributed.
ReadPool ==
  /\ Step("look", "offer")
  /\ todo = <<>>
  /\ todo' = Order
  /\ build' = copy[Pooled].build
  /\ UNCHANGED <<copy, mark, staged, faults>>

\* Mutated: the seat's bookkeeping is not looked at.
OfferedAgain ==
  /\ at = "offer" /\ todo # <<>>
  /\ LET m == Head(todo)
         give == /\ Has(Pooled) /\ copy[Pooled].tree # 0
                 /\ IF Has(m) THEN build > copy[m].build /\ m \in free ELSE TRUE
     IN IF give THEN at' = "give" /\ UNCHANGED todo ELSE NextIn("offer")
  /\ UNCHANGED <<copy, people, record, probe, free, build, staged, faults, crashes>>

\* distribute: one member's manifest read again
Offered ==
  /\ at = "offer" /\ todo # <<>>
  /\ \E have \in Reads(Head(todo)) :
     LET m == Head(todo)
         gone == Has(Pooled) /\ ~have /\ mark[m] = "delivered"
         give == /\ Has(Pooled) /\ copy[Pooled].tree # 0
                 /\ IF have THEN build > copy[m].build /\ m \in free
                            ELSE mark[m] = "none"
     IN /\ mark' = IF gone THEN [mark EXCEPT ![m] = "declined"] ELSE mark
        /\ IF give THEN at' = "give" /\ UNCHANGED todo ELSE NextIn("offer")
  /\ UNCHANGED <<copy, people, kept, probe, free, build, staged, faults, crashes>>

-----------------------------------------------------------------------------
(* cloneAt and copyManifest, in both directions *)

From == IF Taking THEN Head(todo) ELSE Pooled
To   == IF Taking THEN Pooled ELSE Head(todo)

\* Mutated: the manifest goes first.
StageAfterManifest(way, next) ==
  /\ Step(way, next)
  /\ copy[From].tree # 0
  /\ staged' = copy[From].tree
  /\ copy' = Written(To, IF To = Pooled THEN "settled" ELSE "fresh", build)
  /\ UNCHANGED <<mark, todo, build, faults>>

\* The whole tree, beside the one that is there.
Stage(way, next) ==
  /\ Step(way, next)
  /\ copy[From].tree # 0
  /\ staged' = copy[From].tree
  /\ UNCHANGED <<copy, mark, todo, build, faults>>

Aside(way, next) ==
  /\ Step(way, next)
  /\ copy' = Filled(To, 0)
  /\ UNCHANGED <<mark, todo, build, staged, faults>>

Place(way, next) ==
  /\ Step(way, next)
  /\ copy' = Filled(To, staged)
  /\ staged' = 0
  /\ UNCHANGED <<mark, todo, build, faults>>

\* The manifest as it was read, and not as it is by now.
Manifest(way, next) ==
  /\ Step(way, next)
  /\ copy' = Written(To, IF To = Pooled THEN "settled" ELSE "fresh", build)
  /\ Mark(To)
  /\ todo' = Tail(todo)
  /\ UNCHANGED <<build, staged, faults>>

Copies ==
  \/ Stage("take", "takeAside") \/ Stage("give", "giveAside")
  \/ Aside("takeAside", "takePlace") \/ Aside("giveAside", "givePlace")
  \/ Place("takePlace", "takeManifest") \/ Place("givePlace", "giveManifest")
  \/ Manifest("takeManifest", "look") \/ Manifest("giveManifest", "offer")

\* A clone that fails leaves the old tree where it was, a manifest that cannot
\* be written the new one.  Either ends the library's turn.
CopyFails ==
  /\ Taking \/ Giving
  /\ at \notin {"takePlace", "givePlace"}
  /\ faults < MaxFaults \/ copy[From].tree = 0
  /\ faults' = IF faults < MaxFaults THEN faults + 1 ELSE faults
  /\ staged' = 0
  /\ NextIn(IF Taking THEN "look" ELSE "offer")
  /\ UNCHANGED <<copy, people, record, probe, free, build, crashes>>

\* save, after so many faults: what cannot be written leaves state.json as it
\* was.  The error goes to whoever asked, and what the daemon has in memory stays.
Save(before) ==
  \/ saved' = [mark |-> mark', withheld |-> withheld'] /\ faults' = before
  \/ before < MaxFaults /\ faults' = before + 1 /\ UNCHANGED saved

SyncEnds ==
  /\ at = "offer" /\ todo = <<>>
  /\ at' = "idle"
  /\ free' = {}
  /\ build' = 0
  /\ UNCHANGED <<mark, withheld, readmitted>> /\ Save(faults)
  /\ UNCHANGED <<copy, people, probe, todo, staged, crashes>>

Pass == Probe \/ SyncBegins \/ Look \/ ReadPool \/ Offered \/ Copies \/ CopyFails \/ SyncEnds

-----------------------------------------------------------------------------
(* The interface's buttons, each under the same lock *)

\* UninstallEverywhere probes the members under the lock, and closes their
\* Steams where it may, before the pool looks.
AskUninstall ==
  /\ at = "idle"
  /\ at' = "asked"
  /\ free' = {m \in Members : ~Busy(m)}
  /\ UNCHANGED <<copy, people, record, probe, todo, build, staged, faults, crashes>>

\* All or nothing about the moment: a member that is busy with its copy, or a
\* library the pool only reads that has one, refuses it.
Refuses ==
  \/ \E i \in DOMAIN Watched : Has(Watched[i])
  \/ \E m \in Members \ free : Has(m)

RefuseUninstall ==
  /\ at = "asked"
  /\ Refuses
  /\ at' = "idle"
  /\ free' = {}
  /\ UNCHANGED <<copy, people, record, probe, todo, build, staged, faults, crashes>>

\* build stands for whether the title was found anywhere.
BeginUninstall ==
  /\ at = "asked"
  /\ ~Refuses
  /\ todo' = Order
  /\ free' = {m \in free : Has(m)}
  /\ build' = IF \E p \in Members \cup {Pooled} : Has(p) THEN 1 ELSE 0
  /\ at' = "drop"
  /\ UNCHANGED <<copy, people, record, probe, staged, faults, crashes>>

\* A member that had no copy when the pool looked.
PassOver ==
  /\ at = "drop" /\ todo # <<>>
  /\ Head(todo) \notin free
  /\ NextIn("drop")
  /\ UNCHANGED <<copy, people, record, probe, free, build, staged, faults, crashes>>

\* dropApp: the manifest first.
DropManifest ==
  /\ at = "drop" /\ todo # <<>>
  /\ Head(todo) \in free
  /\ at' = "dropFiles"
  /\ copy' = Written(Head(todo), "none", 0)
  /\ refused' = [refused EXCEPT ![Head(todo)] = mark[Head(todo)] # "none"]
  /\ UNCHANGED <<inUse, latest, moves, record, probe, free, todo, build, staged, faults, crashes>>

DropFiles ==
  /\ at = "dropFiles"
  /\ copy' = Filled(Head(todo), 0)
  /\ NextIn("drop")
  /\ UNCHANGED <<people, record, probe, free, build, staged, faults, crashes>>

\* The pool keeps its copy when a member's could not be removed.
DropFails ==
  /\ at \in {"drop", "dropFiles"} /\ todo # <<>>
  /\ Head(todo) \in free
  /\ faults < MaxFaults
  /\ at' = "idle" /\ todo' = <<>> /\ build' = 0 /\ free' = {}
  /\ UNCHANGED <<mark, withheld, readmitted>> /\ Save(faults + 1)
  /\ UNCHANGED <<copy, people, probe, staged, crashes>>

\* removeLocked: the files first.  A pool that has no manifest is done.
ClearFiles ==
  /\ at = "drop" /\ todo = <<>>
  /\ IF Has(Pooled)
       THEN at' = "clear" /\ copy' = Filled(Pooled, 0)
       ELSE at' = "note" /\ UNCHANGED copy
  /\ UNCHANGED <<people, record, probe, free, todo, build, staged, faults, crashes>>

ClearManifest ==
  /\ at = "clear"
  /\ at' = "note"
  /\ copy' = Written(Pooled, "none", 0)
  /\ UNCHANGED <<people, record, probe, free, todo, build, staged, faults, crashes>>

ClearFails ==
  /\ at = "clear"
  /\ faults < MaxFaults
  /\ faults' = faults + 1
  /\ at' = "idle" /\ build' = 0 /\ free' = {}
  /\ UNCHANGED <<copy, people, record, probe, todo, staged, crashes>>

\* Mutated: the marks stay.
NoteKeepsMarks ==
  /\ at = "note"
  /\ withheld' = (withheld \/ build = 1)
  /\ readmitted' = (readmitted /\ ~withheld')
  /\ UNCHANGED mark /\ Save(faults)
  /\ refused' = [m \in Members |-> FALSE]
  /\ at' = "idle" /\ build' = 0 /\ free' = {}
  /\ UNCHANGED <<copy, inUse, latest, moves, probe, todo, staged, crashes>>

\* Every mark goes, the declined ones as well, and the title is withheld.
Note ==
  /\ at = "note"
  /\ mark' = [m \in Members |-> "none"]
  /\ withheld' = (withheld \/ build = 1)
  /\ readmitted' = (readmitted /\ ~withheld')
  /\ Save(faults)
  /\ refused' = [m \in Members |-> FALSE]
  /\ at' = "idle" /\ build' = 0 /\ free' = {}
  /\ UNCHANGED <<copy, inUse, latest, moves, probe, todo, staged, crashes>>

Uninstalls ==
  \/ AskUninstall \/ RefuseUninstall \/ BeginUninstall \/ PassOver
  \/ DropManifest \/ DropFiles \/ DropFails \/ ClearFiles \/ ClearManifest \/ ClearFails \/ Note

\* ReadmitTitle: withheld no longer in memory, whether or not it can be saved.
Readmit ==
  /\ at = "idle"
  /\ withheld
  /\ withheld' = FALSE /\ readmitted' = TRUE
  /\ UNCHANGED mark /\ Save(faults)
  /\ UNCHANGED <<copy, people, probe, holder, crashes>>

\* OfferToSeat, and Forget when the seat is deleted
Offer(m) ==
  /\ at = "idle"
  /\ mark[m] # "none"
  /\ moves < MaxMoves
  /\ moves' = moves + 1
  /\ mark' = [mark EXCEPT ![m] = "none"]
  /\ refused' = [refused EXCEPT ![m] = FALSE]
  /\ UNCHANGED <<withheld, readmitted>> /\ Save(faults)
  /\ UNCHANGED <<copy, inUse, latest, probe, holder, crashes>>

\* The daemon goes in the middle of anything and comes back with state.json.
\* What it had cloned beside a tree stays there and is never looked at again.
DaemonRestarts ==
  /\ crashes < MaxCrashes
  /\ crashes' = crashes + 1
  /\ mark' = saved.mark
  /\ withheld' = saved.withheld
  /\ waiting' = FALSE /\ listed' = {}
  /\ free' = {} /\ at' = "idle" /\ todo' = <<>> /\ build' = 0 /\ staged' = 0
  /\ UNCHANGED <<copy, people, saved, readmitted, faults>>

Next ==
  \/ People \/ Pass \/ Uninstalls
  \/ Readmit \/ (\E m \in Members : Offer(m))
  \/ DaemonRestarts

\* The timer starts a pass every minute, and what has the lock goes on.  Steam
\* ends what it began, and a manifest nobody touches settles.
Fairness ==
  /\ WF_poolVars(Probe) /\ SF_poolVars(SyncBegins)
  /\ WF_poolVars(Look \/ ReadPool \/ Offered \/ Copies \/ SyncEnds)
  /\ WF_poolVars(at # "idle" /\ Uninstalls)
  /\ \A p \in Libraries : WF_poolVars(Finish(p)) /\ WF_poolVars(Settle(p))

Spec == Init /\ [][Next]_poolVars /\ Fairness

-----------------------------------------------------------------------------
(* Properties *)

Copy == [state : {"none", "working", "fresh", "settled"},
         build : 0..MaxBuild, tree : Partial..MaxBuild]

CopiesTyped == copy \in [Places -> Copy]

PeopleTyped ==
  /\ inUse \in [Members -> BOOLEAN]
  /\ latest \in 1..MaxBuild
  /\ refused \in [Members -> BOOLEAN]

Marks == [Members -> {"none", "delivered", "declined"}]

RecordTyped ==
  /\ mark \in Marks
  /\ withheld \in BOOLEAN
  /\ saved \in [mark : Marks, withheld : BOOLEAN]
  /\ readmitted \in BOOLEAN

LockTyped ==
  /\ waiting \in BOOLEAN /\ listed \subseteq Members /\ free \subseteq Members
  /\ build \in 0..MaxBuild /\ staged \in Partial..MaxBuild

Bounded == moves \in 0..MaxMoves /\ faults \in 0..MaxFaults /\ crashes \in 0..MaxCrashes

Points == {"idle", "look", "offer", "asked", "drop", "dropFiles", "clear", "note",
           "take", "takeAside", "takePlace", "takeManifest",
           "give", "giveAside", "givePlace", "giveManifest"}

PlaceTyped == at \in Points /\ todo \in Seq(Libraries)

PoolTypeOK ==
  CopiesTyped /\ PeopleTyped /\ RecordTyped /\ LockTyped /\ PlaceTyped /\ Bounded

\* Sync's comment: "A title uninstalled inside a seat is remembered as declined
\* rather than restored."  Nothing but a new install or the interface gives a
\* refused title back, whatever passes, failures and uninstalls come between.  What
\* a daemon that goes has not saved it has forgotten.
RefusalsStick ==
  [][\A m \in Members :
       crashes' = 0 /\ refused[m] /\ refused'[m] /\ ~Has(m) => ~Has(m)']_poolVars

\* Nobody is said to have turned down what nobody there uninstalled.
DeclinedBySomebody ==
  [][\A m \in Members :
       mark[m] # "declined" /\ mark'[m] = "declined" => refused[m]]_poolVars

\* A tree that is put aside, or that came in its place, before the copy is done.
HalfWritten(p) ==
  /\ at \in {"takePlace", "takeManifest", "givePlace", "giveManifest"}
  /\ To = p

Whole(p) ==
  copy[p].build > 0 /\ copy[p].tree >= copy[p].build /\ ~HalfWritten(p)

\* "Only ever forward": neither the pool nor a member is brought to an older
\* build than the one it holds whole, nor is that put aside for an older one.
OnlyForward ==
  [][\A p \in Places :
       Whole(p) /\ copy'[p].build > 0 =>
         /\ copy'[p].build >= copy[p].build
         /\ HalfWritten(p)' => build' >= copy[p].build]_poolVars

\* What was uninstalled everywhere stays out of the pool, though any library may
\* have it again, until somebody readmits it: by what the daemon has in memory and
\* by what state.json says, wherever a save fails or the daemon goes.
WithheldStaysOut == withheld \/ saved.withheld => ~Has(Pooled) \/ readmitted

\* Withheld's comment: "No library hands one of these to the pool again until
\* somebody says so."  What somebody said that could not be saved is forgotten by
\* a restart, which finds the title withheld and the pool's copy there.
SavedIsWithheld == saved.withheld => ~Has(Pooled)

\* A copy is never of less than its manifest says: wherever a pass, an uninstall
\* or the daemon stops, the pool's manifest is no newer than the files it goes
\* with, so what is handed out is the game it says.
HandedOutWhole ==
  at = "giveAside" => staged >= build

\* mark's comment: "the seat having it again means somebody installed it
\* themselves, and the pool has no business overwriting that copy later."
DeclinedCopiesAreTheirs == Giving => mark[Head(todo)] # "declined"

\* Member.Updatable's comment: "overwriting a game under a running Steam corrupts
\* an install rather than improving one", and a busy member "is left alone".
NothingReplacedUnderAGame ==
  at = "giveAside" /\ Has(Head(todo)) => ~inUse[Head(todo)]

\* Everybody ends up with the newest finished install there is, with its files,
\* except where the title was turned down, is withheld or is being played.
InStep ==
  \A m \in Members :
    \/ withheld \/ mark[m] = "declined" \/ inUse[m]
    \/ /\ \A p \in Libraries : copy[m].build >= copy[p].build
       /\ Has(m) => copy[m].tree # 0

EverybodyGetsIt == <>[]InStep
=============================================================================
