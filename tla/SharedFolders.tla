---------------------------- MODULE SharedFolders ----------------------------
(***************************************************************************)
(* The launcher agnostic half of the shared library                        *)
(* (src/internal/library/pool.go harvestFolders and distributeFolders,     *)
(* clone.go cloneAt and carryPrivate, folder.go, private.go): one shared   *)
(* folder with Wine prefixes in it, whose saves belong to the member that  *)
(* made them and have to survive every new version of the folder.          *)
(*                                                                         *)
(* A new version is built beside the folder.  The folder is moved aside,   *)
(* its saves are moved into the new tree one prefix at a time, and the new *)
(* tree takes its place.  Any of that may fail, and is then taken back, or *)
(* the daemon may go.  Building it takes minutes, in which people play, as *)
(* they were asked whether they do before the pass had its lock, or never. *)
(***************************************************************************)
EXTENDS Integers, Sequences, FiniteSets, LibraryMembers

CONSTANTS
  Pooled,     \* the pool itself
  Prefixes,   \* the Wine prefixes in the folder
  MaxVersion, \* bound: how often somebody changes the folder
  MaxPlays,   \* bound: how often somebody saves
  MaxMoves    \* bound: how often somebody removes it or asks for it again

Places == Members \cup {Pooled}

ASSUME FolderOrder == Order \in Seq(Members)
ASSUME FolderPool == Pooled \notin Members
ASSUME FolderPrefixes == IsFiniteSet(Prefixes)
ASSUME FolderBounds ==
  /\ MaxVersion \in Nat /\ MaxPlays \in Nat /\ MaxMoves \in Nat
  /\ MaxFaults \in Nat /\ MaxCrashes \in Nat

VARIABLES
  tree,     \* per place, the folder under its name
  old,      \* per place, <name>.polyseat-old
  kept,     \* per place, the staging directories that were not removed
  mark,     \* state.Delivered, per member
  known,    \* state.Folders: the version the pool has
  saved,    \* what state.json says of the two
  at,       \* where the pass is
  todo,     \* the members it has yet to go through
  scan,     \* per member, the version the pass found there
  staged,   \* the tree it is building
  carry,    \* the prefixes whose saves the destination keeps
  moved,    \* those it has moved into the new tree
  aside,    \* whether it has moved a folder aside
  stray,    \* whether the pool has taken a leftover for a folder
  progress, \* per member and prefix, the last save made there
  refused,  \* per member, whether somebody removed it since a pass found it there
  late,     \* history: the saves first made while a tree was built to replace theirs
  version,  \* the newest version there is
  plays, moves, faults, crashes

people     == <<progress, refused, version, plays, moves>>
history    == <<stray, late>>
record     == <<mark, known, saved>>
swap       == <<staged, carry, moved, aside>>
counted    == <<faults, crashes>>
folderVars == <<tree, old, kept, record, at, todo, scan, swap, history, people, counted>>

\* 0 is a prefix without a drive_c/users, which is how one is installed.
NoSaves == [x \in Prefixes |-> 0]
None    == [version |-> 0, saves |-> NoSaves]

Is(t) == t.version > 0

Init ==
  /\ tree = [p \in Places |-> None]
  /\ old = tree
  /\ kept = [p \in Places |-> {}]
  /\ mark = [m \in Members |-> "none"]
  /\ known = 0
  /\ saved = [mark |-> mark, known |-> 0]
  /\ at = "idle" /\ todo = <<>>
  /\ scan = [m \in Members |-> 0]
  /\ staged = None /\ carry = {} /\ moved = {} /\ aside = FALSE
  /\ stray = FALSE
  /\ progress = [m \in Members |-> NoSaves]
  /\ refused = [m \in Members |-> FALSE]
  /\ late = {}
  /\ version = 0 /\ plays = 0 /\ moves = 0
  /\ faults = 0 /\ crashes = 0

-----------------------------------------------------------------------------
(* The people *)

Taking == at \in {"take", "takeAside", "takeRename", "takeCarry", "takePlace",
                  "takeOld", "takeBack"}
Giving == at \in {"give", "giveAside", "giveRename", "giveCarry", "givePlace",
                  "giveOld", "giveBack"}
At(points, m) == at \in points /\ Head(todo) = m

\* From the look at what has the folder's name to the rename that ends the swap,
\* which are moments: nobody makes or removes a folder of that name in them.
Swapping(m) == At({"giveRename", "giveCarry", "givePlace", "giveBack"}, m)

\* A member whose saves to be carried have been listed.
Listed(m) == At({"giveAside", "giveRename"}, m)

\* Somebody installs the folder or changes it, and it has settled since.
Change(m) ==
  /\ version < MaxVersion
  /\ ~Swapping(m)
  /\ version' = version + 1
  /\ tree' = [tree EXCEPT ![m].version = version + 1]
  /\ UNCHANGED <<old, kept, record, at, todo, scan, swap, history, progress, refused,
                 plays, moves, counted>>

\* Somebody plays, which is no new version: measureAt leaves the saves out.
Play(m, x) ==
  /\ plays < MaxPlays
  /\ Is(tree[m])
  /\ plays' = plays + 1
  /\ tree' = [tree EXCEPT ![m].saves[x] = plays + 1]
  /\ progress' = [progress EXCEPT ![m][x] = plays + 1]
  /\ late' = IF Listed(m) /\ x \notin carry THEN late \cup {<<m, x>>}
                                           ELSE late \ {<<m, x>>}
  /\ UNCHANGED <<old, kept, record, at, todo, scan, swap, stray, refused, version, moves, counted>>

\* The saves that are still in the folder go with it.
Remove(m) ==
  /\ moves < MaxMoves
  /\ Is(tree[m]) /\ ~Swapping(m)
  /\ moves' = moves + 1
  /\ tree' = [tree EXCEPT ![m] = None]
  /\ progress' = [progress EXCEPT ![m] = NoSaves]
  /\ refused' = [refused EXCEPT ![m] = mark[m] # "none"]
  /\ UNCHANGED <<old, kept, record, at, todo, scan, swap, history, version, plays, counted>>

-----------------------------------------------------------------------------
(* A pass *)

Continue(from, to) ==
  /\ at = from
  /\ at' = to
  /\ UNCHANGED <<scan, stray, people, crashes>>

Step(from, to) == Continue(from, to) /\ UNCHANGED late

SyncBegins ==
  /\ Step("idle", "look")
  /\ todo' = Order
  /\ UNCHANGED <<tree, old, kept, record, swap, faults>>

\* Mutated: whatever is not the pool's is taken.
LaterDiffers(v) == known > 0 /\ Is(tree[Pooled]) => v # known

\* Mutated: a folder the pool has is never looked at again.
LaterNever(v) == ~(known > 0 /\ Is(tree[Pooled]))

\* Whether a version a member has is one the pool is without.
Later(v) == known > 0 /\ Is(tree[Pooled]) => v > known

\* harvestFolders: everything in the directory is taken for a folder, also what
\* an earlier swap has left beside one.
Look ==
  /\ at = "look" /\ todo # <<>>
  /\ LET m == Head(todo) IN
     /\ stray' = (stray \/ Is(old[m]))
     /\ scan' = [scan EXCEPT ![m] = tree[m].version]
     /\ refused' = [refused EXCEPT ![m] = @ /\ ~Is(tree[m])]
     /\ mark' = IF Is(tree[m]) /\ mark[m] = "none"
                  THEN [mark EXCEPT ![m] = "delivered"] ELSE mark
     /\ IF Is(tree[m]) /\ Later(tree[m].version)
          THEN at' = "take" /\ UNCHANGED todo
          ELSE UNCHANGED at /\ todo' = Tail(todo)
  /\ UNCHANGED <<tree, old, kept, known, saved, swap, late, progress, version, plays, moves, counted>>

Distribute ==
  /\ Step("look", "offer")
  /\ todo = <<>>
  /\ todo' = Order
  /\ UNCHANGED <<tree, old, kept, record, swap, faults>>

\* distributeFolders, by what harvestFolders has found there.
Offered ==
  /\ at = "offer" /\ todo # <<>>
  /\ LET m == Head(todo)
         have == scan[m] > 0
         pooled == known > 0 /\ Is(tree[Pooled])
         give == pooled /\ IF have THEN known > scan[m] ELSE mark[m] = "none"
     IN /\ mark' = IF pooled /\ ~have /\ mark[m] = "delivered"
                     THEN [mark EXCEPT ![m] = "declined"] ELSE mark
        /\ IF give THEN at' = "give" /\ UNCHANGED todo
                   ELSE UNCHANGED at /\ todo' = Tail(todo)
  /\ UNCHANGED <<tree, old, kept, known, saved, scan, swap, history, people, counted>>

-----------------------------------------------------------------------------
(* cloneAt, in both directions *)

From == IF Taking THEN Head(todo) ELSE Pooled
To   == IF Taking THEN Pooled ELSE Head(todo)

\* Mutated: what the destination owns is copied over from the source.
StageEverything(way, next) ==
  /\ Step(way, next)
  /\ carry' = {} /\ moved' = {} /\ aside' = FALSE
  /\ staged' = tree[From]
  /\ UNCHANGED <<tree, old, kept, record, todo, faults>>

\* privateDirsAt and cloneTree: what the destination owns is not copied.  What is
\* done to the destination while the tree is built comes after: it takes no part
\* in it, and of what a source has meanwhile the copy is of one moment.
Stage(way, next) ==
  /\ Continue(way, next)
  /\ Is(tree[From])
  /\ carry' = {x \in Prefixes : tree[To].saves[x] > 0}
  /\ moved' = {} /\ aside' = FALSE
  /\ staged' = [version |-> tree[From].version,
                saves |-> [x \in Prefixes |-> IF x \in carry' THEN 0
                                              ELSE tree[From].saves[x]]]
  /\ late' = {p \in late : p[1] = To => tree[To].saves[p[2]] # progress[To][p[2]]}
  /\ UNCHANGED <<tree, old, kept, record, todo, faults>>

\* The folder was removed before it was opened.
SourceGone ==
  /\ Step("take", "look")
  /\ ~Is(tree[From])
  /\ todo' = Tail(todo)
  /\ UNCHANGED <<tree, old, kept, record, swap, faults>>

\* A leftover under the name is removed,
Clear(way, next) ==
  /\ Step(way, next)
  /\ old' = IF Is(tree[To]) THEN [old EXCEPT ![To] = None] ELSE old
  /\ UNCHANGED <<tree, kept, record, todo, swap, faults>>

\* and then the folder takes the name.
Aside(way, next) ==
  /\ Step(way, next)
  /\ old' = IF Is(tree[To]) THEN [old EXCEPT ![To] = tree[To]] ELSE old
  /\ tree' = [tree EXCEPT ![To] = None]
  /\ aside' = Is(tree[To])
  /\ UNCHANGED <<kept, record, todo, staged, carry, moved, faults>>

\* carryPrivate: what has gone meanwhile is passed over.
Carry(way) ==
  /\ Step(way, way)
  /\ aside
  /\ \E x \in carry \ moved :
       /\ old[To].saves[x] # 0
       /\ staged' = [staged EXCEPT !.saves[x] = old[To].saves[x]]
       /\ old' = [old EXCEPT ![To].saves[x] = 0]
       /\ moved' = moved \cup {x}
  /\ UNCHANGED <<tree, kept, record, todo, carry, aside, faults>>

\* Mutated: the new tree is put in place before the saves are in it.
CarriedUnchecked(way, next) ==
  /\ Step(way, next)
  /\ UNCHANGED <<tree, old, kept, record, todo, swap, faults>>

Carried(way, next) ==
  /\ Step(way, next)
  /\ aside => \A x \in carry : old[To].saves[x] = 0
  /\ UNCHANGED <<tree, old, kept, record, todo, swap, faults>>

Place(way, next) ==
  /\ Step(way, next)
  /\ tree' = [tree EXCEPT ![To] = staged]
  /\ staged' = None /\ carry' = {} /\ moved' = {} /\ UNCHANGED aside
  /\ UNCHANGED <<old, kept, record, todo, faults>>

Fault == faults < MaxFaults /\ faults' = faults + 1

\* The leftover goes, or stays when it cannot: nobody asks.
DropOld(way, next) ==
  /\ Step(way, next)
  /\ \/ /\ old' = IF aside THEN [old EXCEPT ![To] = None] ELSE old
        /\ UNCHANGED faults
     \/ aside /\ Fault /\ UNCHANGED old
  /\ aside' = FALSE
  /\ known' = IF Taking THEN tree[Pooled].version ELSE known
  /\ mark' = IF Giving /\ mark[To] = "none" THEN [mark EXCEPT ![To] = "delivered"] ELSE mark
  /\ todo' = Tail(todo)
  /\ UNCHANGED <<tree, kept, saved, staged, carry, moved>>

\* Mutated: what is to be delivered is marked before it is there.
CloneFailsMarked(way, next) ==
  /\ Step(way, next)
  /\ Fault
  /\ mark' = IF Giving /\ mark[To] = "none" THEN [mark EXCEPT ![To] = "delivered"] ELSE mark
  /\ staged' = None /\ carry' = {} /\ moved' = {} /\ aside' = FALSE
  /\ todo' = Tail(todo)
  /\ UNCHANGED <<tree, old, kept, known, saved>>

\* A clone that fails before anything was moved leaves everything as it was.
CloneFails(way, next) ==
  /\ Step(way, next)
  /\ Fault
  /\ staged' = None /\ carry' = {} /\ moved' = {} /\ aside' = FALSE
  /\ todo' = Tail(todo)
  /\ UNCHANGED <<tree, old, kept, record>>

\* A step between the two renames fails.
SwapFails(way, next) ==
  /\ Step(way, next)
  /\ Fault
  /\ UNCHANGED <<tree, old, kept, record, todo, swap>>

\* rollback: what was carried goes back first,
PutBack(way) ==
  /\ Step(way, way)
  /\ \E x \in moved :
       /\ old' = [old EXCEPT ![To].saves[x] = staged.saves[x]]
       /\ staged' = [staged EXCEPT !.saves[x] = 0]
       /\ moved' = moved \ {x}
  /\ UNCHANGED <<tree, kept, record, todo, carry, aside, faults>>

\* The rename back may fail in turn: nobody asks.
RenamedBack ==
  \/ /\ IF aside
          THEN /\ tree' = [tree EXCEPT ![To] = old[To]]
               /\ old' = [old EXCEPT ![To] = None]
          ELSE UNCHANGED <<tree, old>>
     /\ UNCHANGED faults
  \/ aside /\ Fault /\ UNCHANGED <<tree, old>>

\* Mutated: the tree that failed stays where it was built.
RolledBackBehind(way, next) ==
  /\ Step(way, next)
  /\ moved = {}
  /\ RenamedBack
  /\ UNCHANGED staged /\ carry' = {} /\ aside' = FALSE
  /\ todo' = Tail(todo)
  /\ UNCHANGED <<kept, record, moved>>

\* Mutated: the folder goes back without its saves.
RolledBackFirst(way, next) ==
  /\ Step(way, next)
  /\ RenamedBack
  /\ staged' = None /\ carry' = {} /\ moved' = {} /\ aside' = FALSE
  /\ todo' = Tail(todo)
  /\ UNCHANGED <<kept, record>>

\* and then the folder.
RolledBack(way, next) ==
  /\ Step(way, next)
  /\ moved = {}
  /\ RenamedBack
  /\ staged' = None /\ carry' = {} /\ aside' = FALSE
  /\ todo' = Tail(todo)
  /\ UNCHANGED <<kept, record, moved>>

\* Putting them back fails as well: the tree with the saves is kept.
PutBackFails(way, next) ==
  /\ Step(way, next)
  /\ moved # {}
  /\ Fault
  /\ kept' = [kept EXCEPT ![To] = @ \cup {staged}]
  /\ staged' = None /\ carry' = {} /\ moved' = {} /\ aside' = FALSE
  /\ todo' = Tail(todo)
  /\ UNCHANGED <<tree, old, record>>

Clone ==
  \/ SourceGone
  \/ Stage("take", "takeAside") \/ Stage("give", "giveAside")
  \/ Clear("takeAside", "takeRename") \/ Clear("giveAside", "giveRename")
  \/ Aside("takeRename", "takeCarry") \/ Aside("giveRename", "giveCarry")
  \/ Carry("takeCarry") \/ Carry("giveCarry")
  \/ Carried("takeCarry", "takePlace") \/ Carried("giveCarry", "givePlace")
  \/ Place("takePlace", "takeOld") \/ Place("givePlace", "giveOld")
  \/ DropOld("takeOld", "look") \/ DropOld("giveOld", "offer")
  \/ PutBack("takeBack") \/ PutBack("giveBack")
  \/ RolledBack("takeBack", "look") \/ RolledBack("giveBack", "offer")

CloneGoesWrong ==
  \/ CloneFails("take", "look") \/ CloneFails("give", "offer")
  \/ CloneFails("takeAside", "look") \/ CloneFails("giveAside", "offer")
  \/ CloneFails("takeRename", "look") \/ CloneFails("giveRename", "offer")
  \/ SwapFails("takeCarry", "takeBack") \/ SwapFails("giveCarry", "giveBack")
  \/ SwapFails("takePlace", "takeBack") \/ SwapFails("givePlace", "giveBack")
  \/ PutBackFails("takeBack", "look") \/ PutBackFails("giveBack", "offer")

\* save may fail: what the daemon has in memory stays.
SaveState ==
  \/ saved' = [mark |-> mark', known |-> known'] /\ UNCHANGED faults
  \/ Fault /\ UNCHANGED saved

SyncEnds ==
  /\ Step("offer", "idle")
  /\ todo = <<>>
  /\ UNCHANGED <<mark, known>> /\ SaveState
  /\ UNCHANGED <<tree, old, kept, todo, swap>>

Pass == SyncBegins \/ Look \/ Distribute \/ Offered \/ Clone \/ SyncEnds

\* Pool.Offer
Offer(m) ==
  /\ at = "idle"
  /\ moves < MaxMoves
  /\ moves' = moves + 1
  /\ mark[m] # "none"
  /\ mark' = [mark EXCEPT ![m] = "none"]
  /\ UNCHANGED known /\ SaveState
  /\ refused' = [refused EXCEPT ![m] = FALSE]
  /\ UNCHANGED <<tree, old, kept, at, todo, scan, swap, history, progress, version,
                 plays, crashes>>

\* What was staged stays behind under a name nobody looks at.
DaemonRestarts ==
  /\ crashes < MaxCrashes
  /\ crashes' = crashes + 1
  /\ mark' = saved.mark /\ known' = saved.known
  /\ at' = "idle" /\ todo' = <<>> /\ scan' = [m \in Members |-> 0]
  /\ kept' = IF moved = {} THEN kept ELSE [kept EXCEPT ![To] = @ \cup {staged}]
  /\ staged' = None /\ carry' = {} /\ moved' = {} /\ aside' = FALSE
  /\ UNCHANGED <<tree, old, saved, history, people, faults>>

Next ==
  \/ \E m \in Members : Change(m) \/ Remove(m) \/ Offer(m)
                        \/ \E x \in Prefixes : Play(m, x)
  \/ Pass \/ CloneGoesWrong
  \/ DaemonRestarts

\* The timer starts passes for ever, and a pass that has begun goes on.
Fairness == WF_folderVars(Pass)

Spec == Init /\ [][Next]_folderVars /\ Fairness

-----------------------------------------------------------------------------
(* Properties *)

Tree == [version : 0..MaxVersion, saves : [Prefixes -> 0..MaxPlays]]

Points == {"idle", "look", "offer",
  "take", "takeAside", "takeRename", "takeCarry", "takePlace", "takeOld",
  "takeBack", "give", "giveAside", "giveRename", "giveCarry", "givePlace",
  "giveOld", "giveBack"}

TreesTyped ==
  /\ tree \in [Places -> Tree] /\ old \in [Places -> Tree]
  /\ kept \in [Places -> SUBSET Tree]

Marks == [Members -> {"none", "delivered", "declined"}]

RecordTyped ==
  /\ mark \in Marks /\ known \in 0..MaxVersion
  /\ saved \in [mark : Marks, known : 0..MaxVersion]

PassTyped ==
  /\ at \in Points /\ todo \in Seq(Members)
  /\ scan \in [Members -> 0..MaxVersion]
  /\ stray \in BOOLEAN

\* What is being swapped is where it was announced: a tree is built only during
\* a clone, and it has no saves but the source's and those moved into it.
SwapTyped ==
  /\ staged \in Tree /\ moved \subseteq carry /\ carry \subseteq Prefixes
  /\ aside \in BOOLEAN
  /\ at \in {"idle", "look", "offer", "take", "give"}
       => staged = None /\ moved = {} /\ ~aside

PeopleTyped ==
  /\ progress \in [Members -> [Prefixes -> 0..MaxPlays]]
  /\ refused \in [Members -> BOOLEAN]
  /\ late \subseteq Members \X Prefixes
  /\ version \in 0..MaxVersion /\ plays \in 0..MaxPlays /\ moves \in 0..MaxMoves

FolderTypeOK ==
  /\ TreesTyped /\ RecordTyped /\ PassTyped /\ SwapTyped /\ PeopleTyped
  /\ faults \in 0..MaxFaults /\ crashes \in 0..MaxCrashes

\* private.go: "a seat that has played it keeps what it played."  Between two
\* clones what a member saved last is in its folder, whichever step failed, and
\* whatever was played during them.  A prefix that had no saves when a clone listed
\* them is the exception.
SavesStayPut ==
  ~Taking /\ ~Giving /\ faults <= 1 /\ crashes = 0 =>
    \A m \in Members, x \in Prefixes :
      Is(tree[m]) /\ progress[m][x] > 0 =>
        tree[m].saves[x] = progress[m][x] \/ <<m, x>> \in late

\* The same without it: a game played for the first time while a new version of its
\* folder is built loses what was played, though nothing fails.
KeepsWhatItPlayed ==
  ~Taking /\ ~Giving /\ faults = 0 /\ crashes = 0 =>
    \A m \in Members, x \in Prefixes :
      Is(tree[m]) /\ progress[m][x] > 0 => tree[m].saves[x] = progress[m][x]

\* Where a member's last save is: in the folder, in what was moved aside, among
\* those moved into a tree that is built, or in one that was kept.
Found(m, x) ==
  \/ tree[m].saves[x] = progress[m][x]
  \/ old[m].saves[x] = progress[m][x]
  \/ \E t \in kept[m] : t.saves[x] = progress[m][x]
  \/ Giving /\ To = m /\ x \in moved /\ staged.saves[x] = progress[m][x]

\* clone.go: "Saves somebody has to fish out by hand are still saves."
SavesAreStillSaves ==
  \A m \in Members, x \in Prefixes : progress[m][x] > 0 => Found(m, x)

\* What an earlier swap left beside a folder somebody has made again since: it has
\* the name the next swap needs, and that removes it, whatever is in it.
LeftoverGoes(m) == at = "giveAside" /\ To = m /\ Is(tree[m])

\* No step loses a save, however many fail, those of the way back included, and
\* wherever the daemon goes.  That removal is one exception, what was first played
\* while the tree was built the other.
NoFailureLosesSaves ==
  [][\A m \in Members, x \in Prefixes :
       /\ progress[m][x] > 0 /\ progress'[m][x] = progress[m][x]
       /\ Found(m, x)
       => Found(m, x)' \/ LeftoverGoes(m) \/ <<m, x>> \in late]_folderVars

\* The version a place has, which is beside its name during a swap.
Had(p) == IF aside /\ p = To THEN old[p].version ELSE tree[p].version

\* harvestFolders, "Only ever forward": the pool never goes back to an older
\* version, whatever the members have and in whatever order they are asked.
PoolOnlyForward ==
  [][crashes' = 0 /\ Is(tree'[Pooled]) => tree'[Pooled].version >= Had(Pooled)]_folderVars

\* The same of every member, which distributeFolders decides by what it has been
\* told of the member's directory, earlier in the pass.
OnlyNewerFolders ==
  [][\A m \in Members :
       Is(tree'[m]) => tree'[m].version >= Had(m)]_folderVars

\* distributeFolders marks declined what was removed by somebody there,
\* as long as no swap was cut short: by the daemon going, or by a step of it and
\* of the way back failing.
DeclinedBySomebody ==
  [][\A m \in Members :
       crashes' = 0 /\ faults' <= 1 /\ mark[m] # "declined" /\ mark'[m] = "declined" => refused[m]]_folderVars

\* folder.go: "A folder is a game."  What a swap left behind is none.
LeftoversAreNotShared == ~stray

\* Everybody who did not turn it down ends up with the newest version.
SameEverywhere ==
  \A m \in Members : mark[m] = "declined" \/
    \A n \in Members : tree[m].version >= tree[n].version

EverybodyHasIt == <>[]SameEverywhere
=============================================================================
