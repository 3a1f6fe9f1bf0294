------------------------ MODULE SharedFoldersProofs ------------------------
(***************************************************************************)
(* Nobody's saves are lost by a swap, for any members, prefixes and        *)
(* versions, whichever steps of it and of the way back fail and whenever   *)
(* the daemon goes.                                                        *)
(*                                                                         *)
(* A save that is being carried is never in neither tree: what has been    *)
(* moved has left the folder that was moved aside and is in the new tree,  *)
(* and what has not is still there (Swapped).  What was moved aside is     *)
(* removed when all of it has been carried (Emptied), and a folder takes   *)
(* the name of a leftover that was removed before (Ready).  What was first *)
(* played after the saves to be carried were listed is the exception, and  *)
(* the only one (late).                                                    *)
(*                                                                         *)
(* The launchers' entries for such a folder (LauncherShares) are the last  *)
(* part: one that somebody removed by hand stays removed.  What was given  *)
(* and then removed stands in the book and in the file the book is read    *)
(* from (Remembered), and a round writes only where the book has nothing   *)
(* (RoundKnows).                                                           *)
(***************************************************************************)
EXTENDS SharedFolders, LauncherShares, SequenceTheorems, TLAPS

\* Who copies does it at somebody.
AtSomebody == Taking \/ Giving => todo # <<>>

\* A folder that is not there has no saves.
Blank == \A m \in Members : ~Is(tree[m]) => tree[m] = None

\* The pool gives what it has.
Offering == at = "give" => Is(tree[Pooled]) /\ moved = {}

\* Before the folder is moved aside: its saves are those to be carried, which the
\* new tree is without, and those that came too late for it.
Ready(m) ==
  /\ Is(staged) /\ moved = {}
  /\ \A x \in Prefixes \ carry : tree[m].saves[x] # 0 => <<m, x>> \in late
  /\ \A x \in carry : staged.saves[x] = 0
  /\ at = "giveRename" /\ Is(tree[m]) => old[m] = None

\* Between the two renames, on the way there and on the way back.
Swapped(m) ==
  /\ tree[m] = None /\ Is(staged)
  /\ IF aside THEN Is(old[m]) ELSE moved = {}
  /\ \A x \in carry \ moved : staged.saves[x] = 0
  /\ \A x \in moved : old[m].saves[x] = 0
  /\ aside => \A x \in Prefixes \ carry : old[m].saves[x] # 0 => <<m, x>> \in late
  /\ at = "givePlace" /\ aside => \A x \in carry : old[m].saves[x] = 0

\* After them: nothing is left in what was moved aside, but what came too late, and
\* nobody's last save if it was played since.
Emptied(m) ==
  aside => \A x \in Prefixes :
    old[m].saves[x] # 0 => <<m, x>> \in late \/ tree[m].saves[x] = progress[m][x]

Placed == at \in {"takeOld", "giveOld"} => staged = None /\ moved = {}

Between == at \in {"giveCarry", "givePlace", "giveBack"}

Swap ==
  /\ at \in {"giveAside", "giveRename"} => Ready(To)
  /\ Between => Swapped(To)
  /\ at = "giveOld" => Emptied(To)

\* Who rolls back has met a failure.
BackAfterFault == at = "giveBack" => faults # 0

\* Where the last save of a member is in the middle of anything.
Kept(m, x) ==
  IF Between /\ To = m
    THEN IF x \in moved THEN staged.saves[x] = progress[m][x]
                        ELSE aside /\ x \in carry /\ old[m].saves[x] = progress[m][x]
    ELSE tree[m].saves[x] = progress[m][x]

\* One failure is made good.
OneFailure ==
  faults <= 1 /\ crashes = 0 =>
    \A m \in Members, x \in Prefixes :
      progress[m][x] > 0 /\ <<m, x>> \notin late => Kept(m, x)

SInv ==
  /\ AtSomebody /\ Blank /\ Offering /\ Placed /\ Swap /\ BackAfterFault
  /\ OneFailure

IInv == FolderTypeOK /\ SInv

\* What NoFailureLosesSaves says of one save in one step.
Keeps(m, x) ==
  /\ progress[m][x] > 0 /\ progress'[m][x] = progress[m][x]
  /\ Found(m, x)
  => Found(m, x)' \/ LeftoverGoes(m) \/ <<m, x>> \in late

KeepsAll == \A m \in Members, x \in Prefixes : Keeps(m, x)

USE DEF people, history, record, swap, counted

-----------------------------------------------------------------------------
(* The operators *)

LEMMA Numbers ==
  /\ 0 \in 0..MaxVersion /\ 0 \in 0..MaxPlays /\ 0 \in 0..MaxMoves
  /\ 0 \in 0..MaxFaults /\ 0 \in 0..MaxCrashes
  BY FolderBounds

LEMMA NoneTyped == None \in Tree /\ ~Is(None) /\ \A x \in Prefixes : None.saves[x] = 0
  BY Numbers DEF None, NoSaves, Tree, Is

LEMMA Somebody ==
  ASSUME PassTyped, todo # <<>>
  PROVE  Head(todo) \in Members /\ Tail(todo) \in Seq(Members)
  BY DEF PassTyped

LEMMA ToTyped ==
  ASSUME PassTyped, AtSomebody, Taking \/ Giving
  PROVE  /\ To \in Places /\ From \in Places
         /\ Giving => To \in Members /\ To = Head(todo) /\ From = Pooled
         /\ Taking => To = Pooled /\ From = Head(todo) /\ From \in Members
         /\ ~(Taking /\ Giving)
         /\ Tail(todo) \in Seq(Members)
<1>1. Head(todo) \in Members /\ Tail(todo) \in Seq(Members)
  BY Somebody DEF AtSomebody
<1>2. ~(Taking /\ Giving)
  BY DEF Taking, Giving
<1> QED BY <1>1, <1>2 DEF To, From, Places

\* One version, or one save, in a tree.
LEMMA Versioned ==
  ASSUME NEW t \in Tree, NEW v \in 0..MaxVersion
  PROVE  /\ [t EXCEPT !.version = v] \in Tree
         /\ [t EXCEPT !.version = v].version = v
         /\ [t EXCEPT !.version = v].saves = t.saves
  BY DEF Tree

LEMMA SavedOne ==
  ASSUME NEW t \in Tree, NEW x \in Prefixes, NEW n \in 0..MaxPlays
  PROVE  /\ [t EXCEPT !.saves[x] = n] \in Tree
         /\ [t EXCEPT !.saves[x] = n].version = t.version
         /\ [t EXCEPT !.saves[x] = n].saves[x] = n
         /\ \A y \in Prefixes : y # x => [t EXCEPT !.saves[x] = n].saves[y] = t.saves[y]
<1>1. t.saves \in [Prefixes -> 0..MaxPlays]
  BY DEF Tree
<1>2. [t.saves EXCEPT ![x] = n] \in [Prefixes -> 0..MaxPlays]
  BY <1>1
<1>3. [t EXCEPT !.saves[x] = n] = [t EXCEPT !.saves = [t.saves EXCEPT ![x] = n]]
  OBVIOUS
<1> QED BY <1>1, <1>2, <1>3 DEF Tree

\* What one step does to one place of a map, it does to no other.
LEMMA PutAt ==
  ASSUME NEW S, NEW T, NEW f \in [S -> T], NEW p \in S, NEW t \in T
  PROVE  /\ [f EXCEPT ![p] = t] \in [S -> T]
         /\ [f EXCEPT ![p] = t][p] = t
         /\ \A q \in S : q # p => [f EXCEPT ![p] = t][q] = f[q]
  OBVIOUS

-----------------------------------------------------------------------------
(* Every variable keeps to its set                                          *)

LEMMA PeopleTypes ==
  ASSUME FolderTypeOK, NEW m \in Members,
         \/ Change(m) \/ Remove(m) \/ Offer(m)
         \/ \E x \in Prefixes : Play(m, x)
  PROVE  FolderTypeOK'
<1> USE DEF FolderTypeOK
<1>1. m \in Places /\ tree[m] \in Tree
  BY DEF TreesTyped, Places
<1>2. CASE Change(m)
  <2>1. version' \in 0..MaxVersion
    BY <1>2, FolderBounds DEF Change, PeopleTyped
  <2>2. [tree[m] EXCEPT !.version = version'] \in Tree
    BY <1>1, <2>1, Versioned
  <2>3. TreesTyped'
    BY <1>1, <1>2, <2>2 DEF Change, TreesTyped
  <2>4. PeopleTyped'
    BY <1>2, <2>1 DEF Change, PeopleTyped
  <2>5. RecordTyped' /\ PassTyped' /\ SwapTyped' /\ faults' = faults /\ crashes' = crashes
    BY <1>2 DEF Change, RecordTyped, PassTyped, SwapTyped
  <2> QED BY <2>3, <2>4, <2>5
<1>3. CASE Remove(m)
  <2>1. TreesTyped'
    BY <1>1, <1>3, NoneTyped DEF Remove, TreesTyped
  <2>2. PeopleTyped'
    <3>1. moves' \in 0..MaxMoves
      BY <1>3, FolderBounds DEF Remove, PeopleTyped
    <3>2. NoSaves \in [Prefixes -> 0..MaxPlays]
      BY Numbers DEF NoSaves
    <3>3. (mark[m] # "none") \in BOOLEAN
      OBVIOUS
    <3> QED BY <1>3, <3>1, <3>2, <3>3 DEF Remove, PeopleTyped
  <2>3. RecordTyped' /\ PassTyped' /\ SwapTyped' /\ faults' = faults /\ crashes' = crashes
    BY <1>3 DEF Remove, RecordTyped, PassTyped, SwapTyped
  <2> QED BY <2>1, <2>2, <2>3
<1>4. CASE Offer(m)
  <2>1. mark' \in Marks
    BY <1>4 DEF Offer, RecordTyped, Marks
  <2>2. RecordTyped' /\ faults' \in 0..MaxFaults
    <3>1. \/ saved' = [mark |-> mark', known |-> known] /\ faults' = faults
          \/ saved' = saved /\ faults < MaxFaults /\ faults' = faults + 1
      BY <1>4 DEF Offer, SaveState, Fault
    <3>2. known' = known
      BY <1>4 DEF Offer
    <3> QED BY <2>1, <3>1, <3>2, FolderBounds DEF RecordTyped
  <2>3. PeopleTyped'
    BY <1>4, FolderBounds DEF Offer, PeopleTyped
  <2>4. TreesTyped' /\ PassTyped' /\ SwapTyped' /\ crashes' = crashes
    BY <1>4 DEF Offer, TreesTyped, PassTyped, SwapTyped
  <2> QED BY <2>2, <2>3, <2>4
<1>5. ASSUME NEW x \in Prefixes, Play(m, x) PROVE FolderTypeOK'
  <2>1. plays' \in 0..MaxPlays /\ plays' = plays + 1
    BY <1>5, FolderBounds DEF Play, PeopleTyped
  <2>2. [tree[m] EXCEPT !.saves[x] = plays'] \in Tree
    BY <1>1, <2>1, SavedOne
  <2>3. TreesTyped'
    BY <1>1, <1>5, <2>1, <2>2 DEF Play, TreesTyped
  <2>4. PeopleTyped'
    BY <1>5, <2>1 DEF Play, PeopleTyped
  <2>5. RecordTyped' /\ PassTyped' /\ SwapTyped' /\ faults' = faults /\ crashes' = crashes
    BY <1>5 DEF Play, RecordTyped, PassTyped, SwapTyped
  <2> QED BY <2>3, <2>4, <2>5
<1> QED BY <1>2, <1>3, <1>4, <1>5

\* A pass outside its clones, and the daemon that goes.
LEMMA PassTypes ==
  ASSUME FolderTypeOK, AtSomebody,
         \/ SyncBegins \/ Look \/ Distribute \/ Offered \/ SyncEnds
         \/ DaemonRestarts
  PROVE  FolderTypeOK'
<1> USE DEF FolderTypeOK, Step, Continue
<1>1. CASE SyncBegins \/ Distribute
  <2>1. PassTyped'
    BY <1>1, FolderOrder DEF SyncBegins, Distribute, PassTyped, Points
  <2>2. SwapTyped'
    BY <1>1 DEF SyncBegins, Distribute, SwapTyped
  <2>3. TreesTyped' /\ RecordTyped' /\ PeopleTyped' /\ faults' = faults /\ crashes' = crashes
    BY <1>1 DEF SyncBegins, Distribute, TreesTyped, RecordTyped, PeopleTyped
  <2> QED BY <2>1, <2>2, <2>3
<1>2. CASE Look
  <2>1. Head(todo) \in Members /\ Tail(todo) \in Seq(Members)
    BY <1>2, Somebody DEF Look
  <2>2. tree[Head(todo)].version \in 0..MaxVersion
    BY <2>1 DEF TreesTyped, Tree, Places
  <2>3. PassTyped'
    <3>1. at' \in Points /\ todo' \in Seq(Members)
      BY <1>2, <2>1 DEF Look, PassTyped, Points
    <3>2. scan' \in [Members -> 0..MaxVersion]
      BY <1>2, <2>1, <2>2 DEF Look, PassTyped
    <3>3. stray' \in BOOLEAN
      BY <1>2, Zenon DEF Look
    <3> QED BY <3>1, <3>2, <3>3 DEF PassTyped
  <2>4. RecordTyped'
    BY <1>2, <2>1 DEF Look, RecordTyped, Marks
  <2>5. PeopleTyped'
    <3>1. (refused[Head(todo)] /\ ~Is(tree[Head(todo)])) \in BOOLEAN
      OBVIOUS
    <3> QED BY <1>2, <2>1, <3>1 DEF Look, PeopleTyped
  <2>6. SwapTyped'
    BY <1>2 DEF Look, SwapTyped
  <2>7. TreesTyped' /\ faults' = faults /\ crashes' = crashes
    BY <1>2 DEF Look, TreesTyped
  <2> QED BY <2>3, <2>4, <2>5, <2>6, <2>7
<1>3. CASE Offered
  <2>1. Head(todo) \in Members /\ Tail(todo) \in Seq(Members)
    BY <1>3, Somebody DEF Offered
  <2>2. PassTyped'
    BY <1>3, <2>1 DEF Offered, PassTyped, Points
  <2>3. RecordTyped'
    BY <1>3, <2>1 DEF Offered, RecordTyped, Marks
  <2>4. SwapTyped'
    BY <1>3 DEF Offered, SwapTyped
  <2>5. TreesTyped' /\ PeopleTyped' /\ faults' = faults /\ crashes' = crashes
    BY <1>3 DEF Offered, TreesTyped, PeopleTyped
  <2> QED BY <2>2, <2>3, <2>4, <2>5
<1>4. CASE SyncEnds
  <2>1. PassTyped' /\ SwapTyped'
    BY <1>4 DEF SyncEnds, PassTyped, Points, SwapTyped
  <2>2. RecordTyped' /\ faults' \in 0..MaxFaults
    BY <1>4, FolderBounds DEF SyncEnds, SaveState, Fault, RecordTyped
  <2>3. TreesTyped' /\ PeopleTyped' /\ crashes' = crashes
    BY <1>4 DEF SyncEnds, TreesTyped, PeopleTyped
  <2> QED BY <2>1, <2>2, <2>3
<1>5. CASE DaemonRestarts
  <2>1. RecordTyped'
    BY <1>5 DEF DaemonRestarts, RecordTyped
  <2>2. PassTyped'
    BY <1>5, Numbers DEF DaemonRestarts, PassTyped, Points
  <2>3. SwapTyped'
    BY <1>5, NoneTyped DEF DaemonRestarts, SwapTyped
  <2>4. TreesTyped'
    BY <1>5 DEF DaemonRestarts, TreesTyped, SwapTyped
  <2>5. PeopleTyped' /\ faults' = faults /\ crashes' \in 0..MaxCrashes
    BY <1>5, FolderBounds DEF DaemonRestarts, PeopleTyped
  <2> QED BY <2>1, <2>2, <2>3, <2>4, <2>5
<1> QED BY <1>1, <1>2, <1>3, <1>4, <1>5

Resting == {"idle", "look", "offer", "take", "give"}

\* A step of a clone, or one of the way back.
LEMMA CloneTypes ==
  ASSUME FolderTypeOK, AtSomebody, Placed, Taking \/ Giving,
         NEW way, NEW next \in Points,
         \/ /\ next \notin Resting
            /\ \/ Stage(way, next) \/ Clear(way, next) \/ Aside(way, next)
               \/ Carried(way, next) \/ Place(way, next) \/ SwapFails(way, next)
         \/ next = way /\ (Carry(way) \/ PutBack(way))
         \/ way \in {"takeOld", "giveOld"} /\ DropOld(way, next)
         \/ CloneFails(way, next) \/ RolledBack(way, next)
         \/ PutBackFails(way, next) \/ SourceGone
  PROVE  FolderTypeOK'
<1> USE DEF FolderTypeOK, Step, Continue
<1>1. /\ To \in Places /\ From \in Places /\ Tail(todo) \in Seq(Members)
      /\ (Giving => To \in Members)
  BY ToTyped
<1>2. tree[To] \in Tree /\ tree[From] \in Tree /\ old[To] \in Tree /\ staged \in Tree
  BY <1>1 DEF TreesTyped, SwapTyped
<1>3. ASSUME Fault PROVE faults' \in 0..MaxFaults
  BY <1>3, FolderBounds DEF Fault
<1>4. PeopleTyped' /\ crashes' \in 0..MaxCrashes
  BY DEF Stage, Clear, Aside, Carry, Carried, Place, SwapFails, PutBack, DropOld,
     CloneFails, RolledBack, PutBackFails, SourceGone, PeopleTyped
<1>5. CASE next \notin Resting /\ Stage(way, next)
  <2> DEFINE left == [x \in Prefixes |-> IF x \in carry' THEN 0
                                         ELSE tree[From].saves[x]]
  <2>1. left \in [Prefixes -> 0..MaxPlays]
    BY <1>2, Numbers DEF Tree
  <2>2. staged' = [version |-> tree[From].version, saves |-> left]
    BY <1>5 DEF Stage
  <2>3. staged' \in Tree
    <3> HIDE DEF left
    <3> QED BY <1>2, <2>1, <2>2 DEF Tree
  <2>4. SwapTyped'
    BY <1>5, <2>3 DEF Stage, SwapTyped, Resting
  <2>5. PassTyped' /\ TreesTyped' /\ RecordTyped' /\ faults' = faults
    BY <1>5 DEF Stage, PassTyped, TreesTyped, RecordTyped
  <2> QED BY <1>4, <2>4, <2>5
<1>6. CASE next \notin Resting /\ (Clear(way, next) \/ Aside(way, next))
  <2>1. TreesTyped'
    BY <1>1, <1>2, <1>6, NoneTyped DEF Clear, Aside, TreesTyped
  <2>2. SwapTyped'
    <3>1. Is(tree[To]) \in BOOLEAN
      BY DEF Is
    <3>2. aside' \in BOOLEAN
      BY <1>6, <3>1 DEF Clear, Aside, SwapTyped
    <3> QED BY <1>6, <3>2 DEF Clear, Aside, SwapTyped, Resting
  <2>3. PassTyped' /\ RecordTyped' /\ faults' = faults
    BY <1>6 DEF Clear, Aside, PassTyped, RecordTyped
  <2> QED BY <1>4, <2>1, <2>2, <2>3
<1>7. CASE next \notin Resting
             /\ (Carried(way, next) \/ Place(way, next) \/ SwapFails(way, next))
  <2>1. TreesTyped'
    BY <1>1, <1>2, <1>7 DEF Carried, Place, SwapFails, TreesTyped
  <2>2. SwapTyped'
    BY <1>7, NoneTyped DEF Carried, Place, SwapFails, SwapTyped, Resting
  <2>3. PassTyped' /\ RecordTyped' /\ faults' \in 0..MaxFaults
    BY <1>3, <1>7 DEF Carried, Place, SwapFails, PassTyped, RecordTyped
  <2> QED BY <1>4, <2>1, <2>2, <2>3
<1>8. CASE next = way /\ Carry(way)
  <2>1. PICK x \in carry \ moved :
          /\ staged' = [staged EXCEPT !.saves[x] = old[To].saves[x]]
          /\ old' = [old EXCEPT ![To].saves[x] = 0]
          /\ moved' = moved \cup {x}
    BY <1>8 DEF Carry
  <2>2. x \in Prefixes /\ old[To].saves[x] \in 0..MaxPlays
    BY <1>2, <2>1 DEF SwapTyped, Tree
  <2>3. staged' \in Tree /\ [old[To] EXCEPT !.saves[x] = 0] \in Tree
    BY <1>2, <2>1, <2>2, SavedOne, Numbers
  <2>4. TreesTyped'
    BY <1>1, <1>8, <2>1, <2>3 DEF Carry, TreesTyped
  <2>5. SwapTyped'
    BY <1>8, <2>1, <2>3 DEF Carry, SwapTyped, Taking, Giving
  <2>6. PassTyped' /\ RecordTyped' /\ faults' = faults
    BY <1>8 DEF Carry, PassTyped, RecordTyped
  <2> QED BY <1>4, <2>4, <2>5, <2>6
<1>9. CASE next = way /\ PutBack(way)
  <2>1. PICK x \in moved :
          /\ old' = [old EXCEPT ![To].saves[x] = staged.saves[x]]
          /\ staged' = [staged EXCEPT !.saves[x] = 0]
          /\ moved' = moved \ {x}
    BY <1>9 DEF PutBack
  <2>2. x \in Prefixes /\ staged.saves[x] \in 0..MaxPlays
    BY <1>2, <2>1 DEF SwapTyped, Tree
  <2>3. staged' \in Tree /\ [old[To] EXCEPT !.saves[x] = staged.saves[x]] \in Tree
    BY <1>2, <2>1, <2>2, SavedOne, Numbers
  <2>4. TreesTyped'
    BY <1>1, <1>9, <2>1, <2>3 DEF PutBack, TreesTyped
  <2>5. SwapTyped'
    BY <1>9, <2>1, <2>3 DEF PutBack, SwapTyped, Taking, Giving
  <2>6. PassTyped' /\ RecordTyped' /\ faults' = faults
    BY <1>9 DEF PutBack, PassTyped, RecordTyped
  <2> QED BY <1>4, <2>4, <2>5, <2>6
<1>10. CASE way \in {"takeOld", "giveOld"} /\ DropOld(way, next)
  <2>1. TreesTyped'
    BY <1>1, <1>10, NoneTyped DEF DropOld, TreesTyped
  <2>2. tree[Pooled].version \in 0..MaxVersion
    BY DEF TreesTyped, Tree, Places
  <2>3. RecordTyped'
    <3>1. known' \in 0..MaxVersion
      BY <1>10, <2>2 DEF DropOld, RecordTyped
    <3>2. mark' \in Marks
      BY <1>1, <1>10 DEF DropOld, RecordTyped, Marks
    <3> QED BY <1>10, <3>1, <3>2 DEF DropOld, RecordTyped
  <2>4. SwapTyped'
    BY <1>10 DEF DropOld, SwapTyped, Placed
  <2>5. PassTyped' /\ faults' \in 0..MaxFaults
    BY <1>1, <1>3, <1>10 DEF DropOld, PassTyped
  <2> QED BY <1>4, <2>1, <2>3, <2>4, <2>5
<1>11. CASE CloneFails(way, next) \/ RolledBack(way, next) \/ PutBackFails(way, next)
  <2>1. TreesTyped'
    BY <1>1, <1>2, <1>11, NoneTyped DEF CloneFails, RolledBack, RenamedBack,
       PutBackFails, TreesTyped
  <2>2. SwapTyped'
    BY <1>11, NoneTyped DEF CloneFails, RolledBack, PutBackFails, SwapTyped
  <2>3. PassTyped' /\ RecordTyped' /\ faults' \in 0..MaxFaults
    BY <1>1, <1>3, <1>11 DEF CloneFails, RolledBack, RenamedBack, PutBackFails,
       PassTyped, RecordTyped
  <2> QED BY <1>4, <2>1, <2>2, <2>3
<1>12. CASE SourceGone
  <2>1. PassTyped'
    BY <1>1, <1>12 DEF SourceGone, PassTyped, Points
  <2>2. TreesTyped' /\ RecordTyped' /\ faults' = faults
    BY <1>12 DEF SourceGone, TreesTyped, RecordTyped
  <2>3. SwapTyped'
    BY <1>12 DEF SourceGone, SwapTyped
  <2> QED BY <1>4, <2>1, <2>2, <2>3
<1> QED BY <1>5, <1>6, <1>7, <1>8, <1>9, <1>10, <1>11, <1>12

-----------------------------------------------------------------------------
(* Where the saves are                                                      *)

\* What the people do to one prefix of a folder: nothing, or it goes with its folder,
\* or they play, and know at once whether that comes too late.
Same(m, x) ==
  /\ tree'[m].saves[x] = tree[m].saves[x] /\ progress'[m][x] = progress[m][x]
  /\ <<m, x>> \in late' <=> <<m, x>> \in late
Gone(m, x) ==
  /\ tree'[m].saves[x] = 0 /\ progress'[m][x] = 0
  /\ <<m, x>> \in late' <=> <<m, x>> \in late
Played(m, x) ==
  /\ tree'[m].saves[x] = progress'[m][x]
  /\ Listed(m) /\ x \notin carry => <<m, x>> \in late'

LEMMA PeopleDo ==
  ASSUME IInv, NEW n \in Members,
         \/ Change(n) \/ Remove(n) \/ Offer(n)
         \/ \E y \in Prefixes : Play(n, y)
  PROVE  /\ ~Is(tree'[n]) => tree'[n] = None
         /\ \A x \in Prefixes : Same(n, x) \/ Gone(n, x) \/ Played(n, x)
         /\ \A m \in Members, x \in Prefixes :
              m # n => (<<m, x>> \in late' <=> <<m, x>> \in late)
<1> USE DEF IInv, FolderTypeOK, SInv
<1>1. n \in Places /\ tree[n] \in Tree
  BY DEF Places, TreesTyped
<1>2. CASE Change(n)
  <2>1. version + 1 \in 0..MaxVersion /\ version + 1 > 0
    BY <1>2, FolderBounds DEF Change, PeopleTyped
  <2>2. /\ tree'[n] = [tree[n] EXCEPT !.version = version + 1]
        /\ progress' = progress /\ late' = late
    BY <1>1, <1>2 DEF Change, TreesTyped
  <2>3. Is(tree'[n]) /\ tree'[n].saves = tree[n].saves
    BY <1>1, <2>1, <2>2, Versioned DEF Is
  <2> QED BY <2>2, <2>3 DEF Same
<1>3. CASE Remove(n)
  <2>1. tree'[n] = None /\ progress'[n] = NoSaves /\ late' = late
    BY <1>1, <1>3 DEF Remove, TreesTyped, PeopleTyped
  <2>2. \A x \in Prefixes : NoSaves[x] = 0
    BY DEF NoSaves
  <2> QED BY <2>1, <2>2, NoneTyped DEF Gone
<1>4. CASE Offer(n)
  BY <1>4 DEF Offer, Blank, Same
<1>5. ASSUME NEW y \in Prefixes, Play(n, y)
      PROVE  /\ Is(tree'[n])
             /\ \A x \in Prefixes : Same(n, x) \/ Played(n, x)
             /\ \A m \in Members, x \in Prefixes :
                  m # n => (<<m, x>> \in late' <=> <<m, x>> \in late)
  <2>1. plays + 1 \in 0..MaxPlays
    BY <1>5, FolderBounds DEF Play, PeopleTyped
  <2>2. tree'[n] = [tree[n] EXCEPT !.saves[y] = plays + 1]
    BY <1>1, <1>5 DEF Play, TreesTyped
  <2>3. /\ progress'[n][y] = plays + 1
        /\ \A x \in Prefixes : x # y => progress'[n][x] = progress[n][x]
    BY <1>5 DEF Play, PeopleTyped
  <2>4. /\ tree'[n].version = tree[n].version /\ tree'[n].saves[y] = plays + 1
        /\ \A x \in Prefixes : x # y => tree'[n].saves[x] = tree[n].saves[x]
    <3> DEFINE t == tree[n]
    <3>1. t \in Tree /\ tree'[n] = [t EXCEPT !.saves[y] = plays + 1]
      BY <1>1, <2>2
    <3> HIDE DEF t
    <3>2. /\ tree'[n].version = t.version /\ tree'[n].saves[y] = plays + 1
          /\ \A x \in Prefixes : x # y => tree'[n].saves[x] = t.saves[x]
      BY <2>1, <3>1, SavedOne
    <3> QED BY <3>2 DEF t
  <2>5. late' = IF Listed(n) /\ y \notin carry THEN late \cup {<<n, y>>}
                                             ELSE late \ {<<n, y>>}
    BY <1>5 DEF Play
  <2>6. Played(n, y)
    BY <2>3, <2>4, <2>5 DEF Played
  <2>7. \A x \in Prefixes : x # y => Same(n, x)
    BY <2>3, <2>4, <2>5 DEF Same
  <2>8. Is(tree'[n])
    BY <1>5, <2>4 DEF Play, Is
  <2> QED BY <2>5, <2>6, <2>7, <2>8
<1> QED BY <1>2, <1>3, <1>4, <1>5

\* The people, who keep away from a name that is being swapped, and from nothing
\* else.
LEMMA PeopleSaves ==
  ASSUME IInv, NEW n \in Members,
         \/ Change(n) \/ Remove(n) \/ Offer(n)
         \/ \E y \in Prefixes : Play(n, y)
  PROVE  SInv' /\ KeepsAll
<1> USE DEF IInv, FolderTypeOK, SInv
<1>1. /\ at' = at /\ todo' = todo /\ staged' = staged /\ carry' = carry
      /\ moved' = moved /\ aside' = aside /\ old' = old /\ kept' = kept
      /\ crashes' = crashes
      /\ \/ faults' = faults
         \/ faults' = faults + 1 /\ at = "idle"
  BY DEF Change, Remove, Offer, Play, SaveState, Fault
<1>2. To' = To /\ (Giving' <=> Giving) /\ (Taking' <=> Taking) /\ (Between' <=> Between)
  BY <1>1 DEF To, Giving, Taking, Between
<1>3. Giving => To = Head(todo) /\ To \in Members
  BY ToTyped
<1>4. \A p \in Places : p # n => tree'[p] = tree[p]
  BY DEF Change, Remove, Offer, Play, TreesTyped
<1>5. \A m \in Members : m # n => progress'[m] = progress[m]
  BY DEF Change, Remove, Offer, Play, PeopleTyped
<1>6. n \in Places /\ n # Pooled /\ Pooled \in Places /\ tree[n] \in Tree
  BY FolderPool DEF Places, TreesTyped
<1>7. Between => To # n
  <2>1. Between /\ To = n => tree[n] = None /\ Swapping(n)
    BY <1>3 DEF Swap, Swapped, Between, Swapping, At, Giving
  <2>2. Between => ~Offer(n)
    BY DEF Between, Offer
  <2> QED BY <2>1, <2>2, NoneTyped DEF Change, Remove, Play
<1>8. /\ ~Is(tree'[n]) => tree'[n] = None
      /\ \A x \in Prefixes : Same(n, x) \/ Gone(n, x) \/ Played(n, x)
      /\ \A m \in Members, x \in Prefixes :
           m # n => (<<m, x>> \in late' <=> <<m, x>> \in late)
  BY PeopleDo
<1>9. AtSomebody' /\ Placed' /\ BackAfterFault'
  BY <1>1, <1>2 DEF AtSomebody, Placed, BackAfterFault
<1>10. Blank'
  BY <1>4, <1>8 DEF Blank, Places
<1>11. Offering'
  BY <1>1, <1>4, <1>6 DEF Offering
<1>12. ASSUME ~Giving PROVE Swap'
  <2>1. at' = at /\ ~Between' /\ at \notin {"giveAside", "giveRename", "giveOld"}
    BY <1>1, <1>2, <1>12 DEF Between, Giving
  <2> QED BY <2>1 DEF Swap
<1>13. ASSUME Giving, To # n PROVE Swap'
  <2>1. tree'[To] = tree[To] /\ progress'[To] = progress[To]
    BY <1>3, <1>4, <1>5, <1>13 DEF Places
  <2>2. \A x \in Prefixes : <<To, x>> \in late' <=> <<To, x>> \in late
    BY <1>3, <1>8, <1>13
  <2>3. at \in {"giveAside", "giveRename"} => Ready(To)'
    BY <1>1, <1>2, <2>1, <2>2 DEF Swap, Ready
  <2>4. Between => Swapped(To)'
    BY <1>1, <1>2, <2>1, <2>2 DEF Swap, Swapped
  <2>5. at = "giveOld" => Emptied(To)'
    BY <1>1, <1>2, <2>1, <2>2 DEF Swap, Emptied
  <2>6. at' = at
    BY <1>1
  <2> QED BY <1>2, <2>3, <2>4, <2>5, <2>6 DEF Swap
<1>14. ASSUME Giving, To = n PROVE Swap'
  <2>1. at \in {"giveAside", "giveRename"} => Ready(To)'
    <3> SUFFICES ASSUME at \in {"giveAside", "giveRename"} PROVE Ready(n)'
      BY <1>2, <1>14
    <3>1. Ready(n) /\ Listed(n)
      BY <1>3, <1>14 DEF Swap, Listed, At
    <3>2. ASSUME NEW x \in Prefixes, x \notin carry, tree'[n].saves[x] # 0
          PROVE  <<n, x>> \in late'
      BY <1>8, <3>1, <3>2 DEF Ready, Same, Gone, Played
    <3>3. at = "giveRename" /\ Is(tree'[n]) => Is(tree[n])
      <4>1. at = "giveRename" => Swapping(n)
        BY <1>3, <1>14 DEF Swapping, At
      <4> QED BY <4>1 DEF Change, Remove, Offer, Play
    <3> QED BY <1>1, <3>1, <3>2, <3>3 DEF Ready
  <2>2. at = "giveOld" => Emptied(To)'
    <3>1. at = "giveOld" => Emptied(n)
      BY <1>14 DEF Swap
    <3> QED BY <1>1, <1>2, <1>8, <1>14, <3>1 DEF Emptied, Same, Gone, Played
  <2>3. at' = at /\ ~Between'
    BY <1>1, <1>2, <1>7, <1>14
  <2> QED BY <2>1, <2>2, <2>3 DEF Swap
<1>15. OneFailure'
  <2> SUFFICES ASSUME faults' <= 1, crashes = 0, NEW m \in Members,
                      NEW x \in Prefixes, progress'[m][x] > 0, <<m, x>> \notin late'
               PROVE  Kept(m, x)'
    BY <1>1 DEF OneFailure
  <2>1. faults <= 1
    BY <1>1, FolderBounds
  <2>2. CASE m = n
    <3>1. ~(Between /\ To = m)
      BY <1>7, <2>2
    <3>2. progress[m][x] > 0 /\ <<m, x>> \notin late => tree[m].saves[x] = progress[m][x]
      BY <2>1, <3>1 DEF OneFailure, Kept
    <3>3. tree'[m].saves[x] = progress'[m][x]
      BY <1>8, <2>2, <3>2 DEF Same, Gone, Played
    <3> QED BY <1>2, <3>1, <3>3 DEF Kept
  <2>3. CASE m # n
    <3>1. progress'[m] = progress[m] /\ tree'[m] = tree[m]
      BY <1>4, <1>5, <2>3 DEF Places
    <3>2. Kept(m, x)
      BY <1>8, <2>1, <2>3, <3>1 DEF OneFailure
    <3> QED BY <1>1, <1>2, <3>1, <3>2 DEF Kept
  <2> QED BY <2>2, <2>3
<1>16. KeepsAll
  <2> SUFFICES ASSUME NEW m \in Members, NEW x \in Prefixes, progress[m][x] > 0,
                      progress'[m][x] = progress[m][x], Found(m, x)
               PROVE  Found(m, x)'
    BY DEF KeepsAll, Keeps
  <2>1. tree[m].saves[x] = progress[m][x] => tree'[m].saves[x] = progress[m][x]
    BY <1>4, <1>8 DEF Places, Same, Gone, Played
  <2> QED BY <1>1, <1>2, <2>1 DEF Found
<1> QED BY <1>9, <1>10, <1>11, <1>12, <1>13, <1>14, <1>15, <1>16

\* A step that leaves the members' folders, and what lies beside them, alone.
LEMMA LeftAlone ==
  ASSUME IInv, ~Between, ~Between', progress' = progress, crashes' = crashes,
         faults' = faults \/ faults' = faults + 1,
         \A m \in Members :
           tree'[m] = tree[m] /\ old'[m] = old[m] /\ kept'[m] = kept[m],
         \A m \in Members, x \in Prefixes :
           ~(Giving /\ To = m /\ x \in moved),
         \A m \in Members, x \in Prefixes :
           <<m, x>> \in late => <<m, x>> \in late' \/ tree[m].saves[x] = progress[m][x]
  PROVE  Blank' /\ OneFailure' /\ KeepsAll
<1> USE DEF IInv, FolderTypeOK, SInv
<1>1. Blank'
  BY DEF Blank
<1>2. OneFailure'
  <2>1. faults' <= 1 /\ crashes' = 0 => faults <= 1 /\ crashes = 0
    BY FolderBounds
  <2> QED BY <2>1 DEF OneFailure, Kept
<1>3. KeepsAll
  BY DEF KeepsAll, Keeps, Found
<1> QED BY <1>1, <1>2, <1>3

\* A pass outside its clones.
LEMMA PassSaves ==
  ASSUME IInv, SyncBegins \/ Look \/ Distribute \/ Offered \/ SyncEnds
  PROVE  SInv' /\ KeepsAll
<1> USE DEF IInv, FolderTypeOK, SInv, Step, Continue
<1>1. /\ progress' = progress /\ old' = old /\ kept' = kept /\ tree' = tree
      /\ staged' = staged /\ moved' = moved /\ aside' = aside /\ late' = late
      /\ faults' = faults \/ faults' = faults + 1
      /\ crashes' = crashes
  BY DEF SyncBegins, Look, Distribute, Offered, SyncEnds, SaveState, Fault
<1>2. at \in {"idle", "look", "offer"} /\ moved = {}
  BY DEF SyncBegins, Look, Distribute, Offered, SyncEnds, SwapTyped
<1>3. at' \in {"idle", "look", "offer", "take", "give"}
  BY <1>2 DEF SyncBegins, Look, Distribute, Offered, SyncEnds
<1>4. Blank' /\ OneFailure' /\ KeepsAll
  <2>1. ~Between /\ ~Between' /\ ~Giving
    BY <1>2, <1>3 DEF Between, Giving
  <2> QED BY <1>1, <2>1, LeftAlone
<1>5. Placed' /\ BackAfterFault' /\ Swap'
  BY <1>3 DEF Placed, BackAfterFault, Swap, Between
<1>6. AtSomebody'
  BY <1>2, <1>3 DEF SyncBegins, Look, Distribute, Offered, SyncEnds, AtSomebody,
     Taking, Giving
<1>7. Offering'
  BY <1>1, <1>2, <1>3 DEF SyncBegins, Look, Distribute, Offered, SyncEnds, Offering
<1> QED BY <1>4, <1>5, <1>6, <1>7

\* What had been carried stays in the tree it was carried into.
LEMMA DaemonSaves ==
  ASSUME IInv, DaemonRestarts
  PROVE  SInv' /\ KeepsAll
<1> USE DEF IInv, FolderTypeOK, SInv, DaemonRestarts
<1>1. AtSomebody' /\ Blank' /\ Offering' /\ Placed' /\ Swap' /\ BackAfterFault'
  BY DEF AtSomebody, Taking, Giving, Blank, Offering, Placed, Swap, Between,
     BackAfterFault
<1>2. OneFailure'
  BY FolderBounds DEF OneFailure
<1>3. KeepsAll
  <2> SUFFICES ASSUME NEW m \in Members, NEW x \in Prefixes, progress[m][x] > 0,
                      Found(m, x)
               PROVE  Found(m, x)'
    BY DEF KeepsAll, Keeps
  <2>1. kept[m] \subseteq kept'[m]
    BY DEF TreesTyped, Places
  <2>2. Giving /\ To = m /\ x \in moved => staged \in kept'[m]
    BY DEF TreesTyped, Places
  <2> QED BY <2>1, <2>2 DEF Found
<1> QED BY <1>1, <1>2, <1>3

\* A clone into the pool.
LEMMA TakingSaves ==
  ASSUME IInv,
         \/ SourceGone
         \/ Stage("take", "takeAside") \/ Clear("takeAside", "takeRename")
         \/ Aside("takeRename", "takeCarry") \/ Carry("takeCarry")
         \/ Carried("takeCarry", "takePlace") \/ Place("takePlace", "takeOld")
         \/ DropOld("takeOld", "look") \/ PutBack("takeBack")
         \/ RolledBack("takeBack", "look")
         \/ CloneFails("take", "look") \/ CloneFails("takeAside", "look")
         \/ CloneFails("takeRename", "look")
         \/ SwapFails("takeCarry", "takeBack") \/ SwapFails("takePlace", "takeBack")
         \/ PutBackFails("takeBack", "look")
  PROVE  SInv' /\ KeepsAll
<1> USE DEF IInv, FolderTypeOK, SInv, Step, Continue, Stage, Clear, Aside, Carry, Carried, Place,
       DropOld, PutBack, RolledBack, CloneFails, SwapFails, PutBackFails, SourceGone
<1>1. Taking /\ ~Giving
  BY DEF Taking, Giving
<1>2. To = Pooled /\ Pooled \in Places /\ \A m \in Members : m # Pooled /\ m \in Places
  BY <1>1, ToTyped, FolderPool DEF Places
<1>3. /\ at' \in {"look", "takeAside", "takeRename", "takeCarry", "takePlace",
                  "takeOld", "takeBack"}
      /\ at' # "look" => todo' = todo
  OBVIOUS
<1>4. \A m \in Members : tree'[m] = tree[m] /\ old'[m] = old[m] /\ kept'[m] = kept[m]
  BY <1>2 DEF RenamedBack, TreesTyped
<1>5. /\ progress' = progress /\ crashes' = crashes
      /\ faults' = faults \/ faults' = faults + 1
      /\ \A m \in Members, x \in Prefixes : <<m, x>> \in late => <<m, x>> \in late'
  BY <1>2 DEF RenamedBack, Fault
<1>6. ~Between /\ ~Between'
  BY <1>1, <1>3 DEF Between, Giving
<1>7. Blank' /\ OneFailure' /\ KeepsAll
  BY <1>1, <1>4, <1>5, <1>6, LeftAlone
<1>8. AtSomebody' /\ Offering' /\ Swap' /\ BackAfterFault'
  BY <1>1, <1>3 DEF AtSomebody, Taking, Giving, Offering, Swap, Between,
     BackAfterFault
<1>9. Placed'
  BY DEF Placed
<1> QED BY <1>7, <1>8, <1>9

\* A step of a clone into a member's directory is about that member.
LEMMA AboutOne ==
  ASSUME IInv, Giving, progress' = progress, crashes' = crashes, late' = late,
         faults' = faults \/ faults' = faults + 1,
         Between' => To' = To, Giving' => To' = To,
         \A q \in Members : q # To =>
           tree'[q] = tree[q] /\ old'[q] = old[q] /\ kept'[q] = kept[q],
         ~Is(tree'[To]) => tree'[To] = None,
         \A m \in Members, x \in Prefixes :
           m = To /\ progress[m][x] > 0 /\ Found(m, x)
             => Found(m, x)' \/ LeftoverGoes(m) \/ <<m, x>> \in late,
         \A x \in Prefixes :
           /\ faults' <= 1 /\ progress[To][x] > 0
           /\ <<To, x>> \notin late /\ Kept(To, x)
           => IF Between'
                THEN IF x \in moved'
                       THEN staged'.saves[x] = progress[To][x]
                       ELSE aside' /\ x \in carry' /\ old'[To].saves[x] = progress[To][x]
                ELSE tree'[To].saves[x] = progress[To][x]
  PROVE  Blank' /\ OneFailure' /\ KeepsAll
<1> USE DEF IInv, FolderTypeOK, SInv
<1>1. Blank'
  BY DEF Blank
<1>2. OneFailure'
  <2>1. faults' <= 1 /\ crashes' = 0 => faults <= 1 /\ crashes = 0
    BY FolderBounds
  <2> SUFFICES ASSUME faults' <= 1, crashes' = 0, NEW m \in Members,
                      NEW x \in Prefixes, progress[m][x] > 0, <<m, x>> \notin late
               PROVE  Kept(m, x)'
    BY DEF OneFailure
  <2>2. Kept(m, x)
    BY <2>1 DEF OneFailure
  <2>3. CASE m = To
    BY <2>2, <2>3 DEF Kept
  <2>4. CASE m # To
    <3>1. tree[m].saves[x] = progress[m][x]
      BY <2>2, <2>4 DEF Kept
    <3> QED BY <2>4, <3>1 DEF Kept
  <2> QED BY <2>3, <2>4
<1>3. KeepsAll
  <2> SUFFICES ASSUME NEW m \in Members, NEW x \in Prefixes, progress[m][x] > 0,
                      Found(m, x)
               PROVE  Found(m, x)' \/ LeftoverGoes(m) \/ <<m, x>> \in late
    BY DEF KeepsAll, Keeps
  <2>1. CASE m = To
    BY <2>1
  <2>2. CASE m # To
    BY <2>2 DEF Found
  <2> QED BY <2>1, <2>2
<1> QED BY <1>1, <1>2, <1>3

\* Where a clone into a member's directory writes.
LEMMA GivingTo ==
  ASSUME IInv, Giving
  PROVE  /\ To \in Members /\ To \in Places /\ To # Pooled /\ From = Pooled /\ ~Taking
         /\ tree[To] \in Tree /\ old[To] \in Tree /\ staged \in Tree
<1> USE DEF IInv, FolderTypeOK, SInv
<1>1. To \in Members /\ From = Pooled /\ ~Taking
  BY ToTyped
<1> QED BY <1>1, FolderPool DEF Places, TreesTyped, SwapTyped

\* Before anything was moved.
LEMMA StageSaves ==
  ASSUME IInv, Stage("give", "giveAside")
  PROVE  SInv' /\ KeepsAll
<1> USE DEF IInv, FolderTypeOK, SInv, Step, Continue, Stage
<1>1. /\ Giving /\ ~Between /\ ~Between' /\ ~Taking /\ moved = {} /\ To' = To
      /\ Is(tree[Pooled])
  BY DEF Giving, Taking, Between, Offering, To
<1>2. To \in Members /\ From = Pooled /\ tree[To] \in Tree
  BY <1>1, GivingTo
<1>3. Blank' /\ OneFailure' /\ KeepsAll
  <2>1. \A m \in Members, x \in Prefixes :
          <<m, x>> \in late => <<m, x>> \in late' \/ tree[m].saves[x] = progress[m][x]
    OBVIOUS
  <2> QED BY <1>1, <2>1, LeftAlone
<1>4. Ready(To)'
  <2>1. Is(staged)'
    BY <1>1, <1>2 DEF Is
  <2>2. \A x \in Prefixes \ carry' : tree[To].saves[x] = 0
    BY <1>2, FolderBounds DEF Tree
  <2>3. \A x \in carry' : staged'.saves[x] = 0
    OBVIOUS
  <2> QED BY <1>1, <2>1, <2>2, <2>3 DEF Ready
<1>5. Swap' /\ Offering' /\ Placed' /\ BackAfterFault'
  BY <1>4 DEF Swap, Between, Offering, Placed, BackAfterFault
<1>6. AtSomebody'
  BY <1>1 DEF AtSomebody
<1> QED BY <1>3, <1>5, <1>6

\* A clone that fails here leaves everything as it was.
LEMMA CloneFailsSaves ==
  ASSUME IInv,
         \/ CloneFails("give", "offer") \/ CloneFails("giveAside", "offer")
         \/ CloneFails("giveRename", "offer")
  PROVE  SInv' /\ KeepsAll
<1> USE DEF IInv, FolderTypeOK, SInv, Step, Continue, CloneFails
<1>1. Giving /\ ~Between /\ ~Between' /\ ~Giving' /\ ~Taking' /\ moved = {}
  BY DEF Giving, Taking, Between, Offering, Swap, Ready
<1>2. Blank' /\ OneFailure' /\ KeepsAll
  BY <1>1, LeftAlone DEF Fault
<1>3. Swap' /\ Offering' /\ Placed' /\ BackAfterFault' /\ AtSomebody'
  BY <1>1 DEF Swap, Between, Offering, Placed, BackAfterFault, AtSomebody
<1> QED BY <1>2, <1>3

LEMMA ClearSaves ==
  ASSUME IInv, Clear("giveAside", "giveRename")
  PROVE  SInv' /\ KeepsAll
<1> USE DEF IInv, FolderTypeOK, SInv, Step, Continue, Clear
<1>1. /\ Giving /\ ~Between /\ ~Between' /\ ~Taking /\ To' = To /\ Ready(To)
  BY DEF Giving, Taking, Between, Swap, To
<1>2. To \in Members /\ To \in Places
  BY <1>1, GivingTo
<1>3. /\ \A q \in Members : q # To => old'[q] = old[q]
      /\ IF Is(tree[To]) THEN old'[To] = None ELSE old'[To] = old[To]
  BY <1>2 DEF TreesTyped, Places
<1>4. Blank' /\ OneFailure' /\ KeepsAll
  <2>1. ASSUME NEW m \in Members, NEW x \in Prefixes, m = To, Found(m, x)
        PROVE  Found(m, x)' \/ LeftoverGoes(m)
    BY <1>1, <1>3, <2>1 DEF Found, LeftoverGoes, Ready
  <2> QED BY <1>1, <1>2, <1>3, <2>1, AboutOne DEF Kept, Blank
<1>5. Ready(To)'
  BY <1>1, <1>3 DEF Ready
<1>6. Swap' /\ Offering' /\ Placed' /\ BackAfterFault' /\ AtSomebody'
  BY <1>1, <1>5 DEF Swap, Between, Offering, Placed, BackAfterFault, AtSomebody
<1> QED BY <1>4, <1>6

\* The folder is moved aside with its saves.
LEMMA AsideSaves ==
  ASSUME IInv, Aside("giveRename", "giveCarry")
  PROVE  SInv' /\ KeepsAll
<1> USE DEF IInv, FolderTypeOK, SInv, Step, Continue, Aside
<1>1. /\ Giving /\ ~Between /\ Between' /\ ~Taking /\ To' = To /\ Ready(To)
      /\ at = "giveRename" /\ at' = "giveCarry" /\ moved = {}
  BY DEF Giving, Taking, Between, Swap, Ready, To
<1>2. To \in Members /\ To \in Places
  BY <1>1, GivingTo
<1>3. /\ tree'[To] = None
      /\ \A q \in Members : q # To => tree'[q] = tree[q] /\ old'[q] = old[q]
      /\ IF Is(tree[To]) THEN old'[To] = tree[To] /\ aside'
                         ELSE old'[To] = old[To] /\ ~aside'
  BY <1>2 DEF TreesTyped, Places
<1>4. CASE Is(tree[To])
  <2>1. old[To] = None
    BY <1>1, <1>4 DEF Ready
  <2>2. ASSUME NEW m \in Members, NEW x \in Prefixes, m = To, Found(m, x),
               progress[m][x] > 0
        PROVE  Found(m, x)'
    BY <1>1, <1>3, <1>4, <2>1, <2>2, NoneTyped DEF Found
  <2>3. ASSUME NEW x \in Prefixes, progress[To][x] > 0, <<To, x>> \notin late,
               Kept(To, x)
        PROVE  aside' /\ x \in carry' /\ old'[To].saves[x] = progress[To][x]
    BY <1>1, <1>3, <1>4, <2>3 DEF Kept, Ready
  <2>4. Blank' /\ OneFailure' /\ KeepsAll
    BY <1>1, <1>2, <1>3, <2>2, <2>3, AboutOne, NoneTyped
  <2>5. Swapped(To)'
    BY <1>1, <1>3, <1>4 DEF Swapped, Ready
  <2> QED BY <1>1, <2>4, <2>5 DEF Swap, Between, Offering, Placed, BackAfterFault,
       AtSomebody
<1>5. CASE ~Is(tree[To])
  <2>1. tree[To] = None
    BY <1>2, <1>5 DEF Blank
  <2>2. ASSUME NEW x \in Prefixes, progress[To][x] > 0, Kept(To, x)
        PROVE  FALSE
    BY <1>1, <2>1, <2>2, NoneTyped DEF Kept
  <2>3. ASSUME NEW m \in Members, NEW x \in Prefixes, m = To, Found(m, x),
               progress[m][x] > 0
        PROVE  Found(m, x)'
    BY <1>1, <1>3, <1>5, <2>1, <2>3 DEF Found
  <2>4. Blank' /\ OneFailure' /\ KeepsAll
    BY <1>1, <1>2, <1>3, <2>2, <2>3, AboutOne, NoneTyped
  <2>5. Swapped(To)'
    BY <1>1, <1>3, <1>5 DEF Swapped, Ready
  <2> QED BY <1>1, <2>4, <2>5 DEF Swap, Between, Offering, Placed, BackAfterFault,
       AtSomebody
<1> QED BY <1>4, <1>5

\* The saves of one prefix are moved into the new tree.
LEMMA CarrySaves ==
  ASSUME IInv, Carry("giveCarry")
  PROVE  SInv' /\ KeepsAll
<1> USE DEF IInv, FolderTypeOK, SInv, Step, Continue
<1>1. /\ Giving /\ Between /\ Giving' /\ Between' /\ ~Taking /\ To' = To /\ Swapped(To)
      /\ at = "giveCarry" /\ at' = "giveCarry" /\ tree' = tree /\ kept' = kept
      /\ carry' = carry /\ aside' = aside /\ progress' = progress
      /\ crashes' = crashes /\ faults' = faults /\ todo' = todo
      /\ aside /\ late' = late
  BY DEF Carry, Giving, Taking, Between, Swap, To
<1>2. /\ To \in Members /\ To \in Places /\ old[To] \in Tree /\ staged \in Tree
  BY <1>1, GivingTo
<1>3. PICK y \in carry \ moved :
        /\ staged' = [staged EXCEPT !.saves[y] = old[To].saves[y]]
        /\ old' = [old EXCEPT ![To].saves[y] = 0]
        /\ moved' = moved \cup {y}
  BY DEF Carry
<1>4. y \in Prefixes /\ old[To].saves[y] \in 0..MaxPlays /\ 0 \in 0..MaxPlays
  BY <1>2, FolderBounds DEF SwapTyped, Tree
<1>5. /\ staged'.version = staged.version /\ staged'.saves[y] = old[To].saves[y]
      /\ \A x \in Prefixes : x # y => staged'.saves[x] = staged.saves[x]
  BY <1>2, <1>3, <1>4, SavedOne
<1>6. /\ \A q \in Members : q # To => old'[q] = old[q]
      /\ old'[To] = [old[To] EXCEPT !.saves[y] = 0]
  BY <1>2, <1>3 DEF TreesTyped, Places
<1>7. /\ old'[To].version = old[To].version /\ old'[To].saves[y] = 0
      /\ \A x \in Prefixes : x # y => old'[To].saves[x] = old[To].saves[x]
  BY <1>2, <1>4, <1>6, SavedOne
<1>8. ASSUME NEW m \in Members, NEW x \in Prefixes, m = To, Found(m, x)
      PROVE  Found(m, x)'
  <2>1. x \in moved => x # y
    BY <1>3
  <2> QED BY <1>1, <1>3, <1>5, <1>7, <1>8, <2>1 DEF Found
<1>9. ASSUME NEW x \in Prefixes, Kept(To, x)
      PROVE  IF x \in moved' THEN staged'.saves[x] = progress[To][x]
             ELSE aside' /\ x \in carry' /\ old'[To].saves[x] = progress[To][x]
  <2>1. CASE x = y
    BY <1>1, <1>3, <1>5, <1>9, <2>1 DEF Kept
  <2>2. CASE x # y
    BY <1>1, <1>3, <1>5, <1>7, <1>9, <2>2 DEF Kept
  <2> QED BY <2>1, <2>2
<1>10. ~Is(tree'[To]) => tree'[To] = None
  BY <1>1 DEF Swapped
<1>11. Blank' /\ OneFailure' /\ KeepsAll
  BY <1>1, <1>6, <1>8, <1>9, <1>10, AboutOne
<1>12. Swapped(To)'
  <2>1. Is(staged') /\ (Is(old'[To]) <=> Is(old[To]))
    BY <1>1, <1>5, <1>7 DEF Swapped, Is
  <2>2. \A x \in carry' \ moved' : staged'.saves[x] = 0
    BY <1>1, <1>3, <1>5 DEF Swapped, SwapTyped
  <2>3. \A x \in moved' : old'[To].saves[x] = 0
    BY <1>1, <1>3, <1>7 DEF Swapped, SwapTyped
  <2>4. \A x \in Prefixes \ carry' : old'[To].saves[x] # 0 => <<To, x>> \in late
    BY <1>1, <1>7 DEF Swapped
  <2> QED BY <1>1, <2>1, <2>2, <2>3, <2>4 DEF Swapped
<1> QED BY <1>1, <1>11, <1>12 DEF Swap, Between, Offering, Placed, BackAfterFault,
     AtSomebody

\* Nothing moves between the last prefix and the second rename, nor when a step
\* between the renames fails.
LEMMA CarriedSaves ==
  ASSUME IInv,
         \/ Carried("giveCarry", "givePlace")
         \/ SwapFails("giveCarry", "giveBack") \/ SwapFails("givePlace", "giveBack")
  PROVE  SInv' /\ KeepsAll
<1> USE DEF IInv, FolderTypeOK, SInv, Step, Continue
<1>1. /\ Giving /\ Between /\ Giving' /\ Between' /\ ~Taking /\ Swapped(To)
      /\ tree' = tree /\ old' = old /\ kept' = kept /\ todo' = todo
      /\ staged' = staged /\ moved' = moved
      /\ carry' = carry /\ aside' = aside /\ progress' = progress
      /\ crashes' = crashes
      /\ faults' = faults \/ faults' = faults + 1
      /\ at' \in {"givePlace", "giveBack"}
      /\ at' = "givePlace" /\ aside => \A x \in carry : old[To].saves[x] = 0
      /\ late' = late
      /\ at' = "giveBack" => faults' = faults + 1
  BY DEF Carried, SwapFails, Fault, Giving, Taking, Between, Swap
<1>2. To' = To
  BY <1>1 DEF To, Taking
<1>3. Blank' /\ OneFailure' /\ KeepsAll
  <2>1. ASSUME NEW m \in Members, NEW x \in Prefixes, Found(m, x)
        PROVE  Found(m, x)'
    BY <1>1, <1>2, <2>1 DEF Found
  <2>2. ~Is(tree'[To]) => tree'[To] = None
    BY <1>1 DEF Swapped
  <2>3. ASSUME NEW x \in Prefixes, Kept(To, x)
        PROVE  IF x \in moved' THEN staged'.saves[x] = progress[To][x]
               ELSE aside' /\ x \in carry' /\ old'[To].saves[x] = progress[To][x]
    BY <1>1, <2>3 DEF Kept
  <2> QED BY <1>1, <1>2, <2>1, <2>2, <2>3, AboutOne
<1>4. Swapped(To)'
  BY <1>1, <1>2 DEF Swapped
<1>5. BackAfterFault'
  BY <1>1, FolderBounds DEF BackAfterFault
<1> QED BY <1>1, <1>2, <1>3, <1>4, <1>5 DEF Swap, Between, Offering, Placed, AtSomebody

\* The new tree takes the name with the saves in it.
LEMMA PlaceSaves ==
  ASSUME IInv, Place("givePlace", "giveOld")
  PROVE  SInv' /\ KeepsAll
<1> USE DEF IInv, FolderTypeOK, SInv, Step, Continue
<1>1. /\ Giving /\ Between /\ Giving' /\ ~Between' /\ ~Taking /\ To' = To /\ Swapped(To)
      /\ at = "givePlace" /\ at' = "giveOld" /\ old' = old /\ kept' = kept
      /\ aside' = aside /\ progress' = progress /\ staged' = None /\ moved' = {}
      /\ crashes' = crashes /\ faults' = faults /\ todo' = todo
      /\ aside => \A x \in carry : old[To].saves[x] = 0
      /\ late' = late
  BY DEF Place, Giving, Taking, Between, Swap, Swapped, To
<1>2. /\ To \in Members /\ To \in Places
  BY <1>1, GivingTo
<1>3. /\ tree'[To] = staged
      /\ \A q \in Members : q # To => tree'[q] = tree[q]
  BY <1>2 DEF Place, TreesTyped, Places
<1>4. ASSUME NEW m \in Members, NEW x \in Prefixes, m = To, Found(m, x),
             progress[m][x] > 0
      PROVE  Found(m, x)'
  <2>1. tree[m].saves[x] # progress[m][x]
    BY <1>1, <1>4, NoneTyped DEF Swapped
  <2> QED BY <1>1, <1>3, <1>4, <2>1 DEF Found
<1>5. ASSUME NEW x \in Prefixes, progress[To][x] > 0, Kept(To, x)
      PROVE  tree'[To].saves[x] = progress[To][x]
  BY <1>1, <1>3, <1>5 DEF Kept
<1>6. Is(tree'[To])
  BY <1>1, <1>3 DEF Swapped
<1>7. Blank' /\ OneFailure' /\ KeepsAll
  BY <1>1, <1>3, <1>4, <1>5, <1>6, AboutOne
<1>8. Emptied(To)'
  BY <1>1 DEF Emptied, Swapped, SwapTyped
<1> QED BY <1>1, <1>7, <1>8 DEF Swap, Between, Offering, Placed, BackAfterFault,
     AtSomebody

\* What was moved aside is removed with nothing in it.
LEMMA DropOldSaves ==
  ASSUME IInv, DropOld("giveOld", "offer")
  PROVE  SInv' /\ KeepsAll
<1> USE DEF IInv, FolderTypeOK, SInv, Step, Continue
<1>1. /\ Giving /\ ~Between /\ ~Giving' /\ ~Between' /\ ~Taking /\ ~Taking'
      /\ at = "giveOld" /\ at' = "offer" /\ tree' = tree /\ kept' = kept
      /\ progress' = progress /\ late' = late
      /\ staged = None /\ moved = {} /\ Emptied(To)
      /\ crashes' = crashes
      /\ faults' = faults \/ faults' = faults + 1
  BY DEF DropOld, Fault, Giving, Taking, Between, Swap, Placed
<1>2. /\ To \in Members /\ To \in Places
  BY <1>1, GivingTo
<1>3. /\ \A q \in Members : q # To => old'[q] = old[q]
      /\ old'[To] = old[To] \/ aside
  BY <1>2 DEF DropOld, TreesTyped, Places
<1>4. ASSUME NEW m \in Members, NEW x \in Prefixes, m = To, Found(m, x),
             progress[m][x] > 0
      PROVE  Found(m, x)' \/ <<m, x>> \in late
  BY <1>1, <1>3, <1>4 DEF Found, Emptied
<1>5. ~Is(tree'[To]) => tree'[To] = None
  BY <1>1, <1>2 DEF Blank
<1>6. ASSUME NEW x \in Prefixes, Kept(To, x)
      PROVE  tree'[To].saves[x] = progress[To][x]
  BY <1>1, <1>6 DEF Kept
<1>7. Blank' /\ OneFailure' /\ KeepsAll
  BY <1>1, <1>3, <1>4, <1>5, <1>6, AboutOne
<1> QED BY <1>1, <1>7 DEF Swap, Between, Offering, Placed, BackAfterFault, AtSomebody

\* On the way back a prefix's saves return to what was moved aside.
LEMMA PutBackSaves ==
  ASSUME IInv, PutBack("giveBack")
  PROVE  SInv' /\ KeepsAll
<1> USE DEF IInv, FolderTypeOK, SInv, Step, Continue
<1>1. /\ Giving /\ Between /\ Giving' /\ Between' /\ ~Taking /\ To' = To /\ Swapped(To)
      /\ at = "giveBack" /\ at' = "giveBack" /\ tree' = tree /\ kept' = kept
      /\ carry' = carry /\ aside' = aside /\ progress' = progress
      /\ crashes' = crashes /\ faults' = faults /\ todo' = todo /\ late' = late
  BY DEF PutBack, Giving, Taking, Between, Swap, To
<1>2. /\ To \in Members /\ To \in Places /\ old[To] \in Tree /\ staged \in Tree
  BY <1>1, GivingTo
<1>3. PICK y \in moved :
        /\ old' = [old EXCEPT ![To].saves[y] = staged.saves[y]]
        /\ staged' = [staged EXCEPT !.saves[y] = 0]
        /\ moved' = moved \ {y}
  BY DEF PutBack
<1>4. /\ y \in Prefixes /\ y \in carry /\ aside
      /\ staged.saves[y] \in 0..MaxPlays /\ 0 \in 0..MaxPlays
  BY <1>1, <1>2, FolderBounds DEF SwapTyped, Tree, Swapped
<1>5. /\ staged'.version = staged.version /\ staged'.saves[y] = 0
      /\ \A x \in Prefixes : x # y => staged'.saves[x] = staged.saves[x]
  BY <1>2, <1>3, <1>4, SavedOne
<1>6. /\ \A q \in Members : q # To => old'[q] = old[q]
      /\ old'[To] = [old[To] EXCEPT !.saves[y] = staged.saves[y]]
  BY <1>2, <1>3 DEF TreesTyped, Places
<1>7. /\ old'[To].version = old[To].version /\ old'[To].saves[y] = staged.saves[y]
      /\ \A x \in Prefixes : x # y => old'[To].saves[x] = old[To].saves[x]
  BY <1>2, <1>4, <1>6, SavedOne
<1>8. ASSUME NEW m \in Members, NEW x \in Prefixes, m = To, Found(m, x),
             progress[m][x] > 0
      PROVE  Found(m, x)'
  <2>1. old[To].saves[y] = 0
    BY <1>1 DEF Swapped
  <2>2. CASE x = y
    BY <1>1, <1>3, <1>7, <1>8, <2>1, <2>2 DEF Found
  <2>3. CASE x # y
    BY <1>1, <1>3, <1>5, <1>7, <1>8, <2>3 DEF Found
  <2> QED BY <2>2, <2>3
<1>9. ASSUME NEW x \in Prefixes, Kept(To, x)
      PROVE  IF x \in moved' THEN staged'.saves[x] = progress[To][x]
             ELSE aside' /\ x \in carry' /\ old'[To].saves[x] = progress[To][x]
  <2>1. CASE x = y
    BY <1>1, <1>3, <1>4, <1>7, <1>9, <2>1 DEF Kept
  <2>2. CASE x # y
    BY <1>1, <1>3, <1>5, <1>7, <1>9, <2>2 DEF Kept
  <2> QED BY <2>1, <2>2
<1>10. ~Is(tree'[To]) => tree'[To] = None
  BY <1>1 DEF Swapped
<1>11. Blank' /\ OneFailure' /\ KeepsAll
  BY <1>1, <1>6, <1>8, <1>9, <1>10, AboutOne
<1>12. Swapped(To)'
  <2>1. Is(staged') /\ (Is(old'[To]) <=> Is(old[To]))
    BY <1>1, <1>5, <1>7 DEF Swapped, Is
  <2>2. \A x \in carry' \ moved' : staged'.saves[x] = 0
    BY <1>1, <1>3, <1>5 DEF Swapped, SwapTyped
  <2>3. \A x \in moved' : old'[To].saves[x] = 0
    BY <1>1, <1>3, <1>7 DEF Swapped, SwapTyped
  <2>4. \A x \in Prefixes \ carry' : old'[To].saves[x] # 0 => <<To, x>> \in late
    BY <1>1, <1>4, <1>7 DEF Swapped
  <2> QED BY <1>1, <1>4, <2>1, <2>2, <2>3, <2>4 DEF Swapped
<1> QED BY <1>1, <1>11, <1>12 DEF Swap, Between, Offering, Placed, BackAfterFault,
     AtSomebody

\* A failure on the way back is the second one.
LEMMA SecondFailure ==
  ASSUME IInv, at = "giveBack", Fault
  PROVE  ~(faults' <= 1)
  BY FolderBounds DEF IInv, FolderTypeOK, SInv, BackAfterFault, Fault

\* The folder gets its name back, or stays aside.
LEMMA RolledBackSaves ==
  ASSUME IInv, RolledBack("giveBack", "offer")
  PROVE  SInv' /\ KeepsAll
<1> USE DEF IInv, FolderTypeOK, SInv, Step, Continue
<1>1. /\ Giving /\ Between /\ ~Giving' /\ ~Between' /\ ~Taking /\ ~Taking'
      /\ Swapped(To) /\ moved = {}
      /\ at = "giveBack" /\ at' = "offer" /\ kept' = kept /\ progress' = progress
      /\ crashes' = crashes /\ late' = late
  BY DEF RolledBack, Giving, Taking, Between, Swap
<1>2. To \in Members /\ To \in Places
  BY <1>1, GivingTo
<1>3. CASE aside /\ tree' = [tree EXCEPT ![To] = old[To]]
                 /\ old' = [old EXCEPT ![To] = None] /\ faults' = faults
  <2>1. /\ tree'[To] = old[To]
        /\ \A q \in Members : q # To => tree'[q] = tree[q] /\ old'[q] = old[q]
    BY <1>2, <1>3 DEF TreesTyped, Places
  <2>2. ASSUME NEW m \in Members, NEW x \in Prefixes, m = To, Found(m, x),
               progress[m][x] > 0
        PROVE  Found(m, x)'
    <3>1. tree[m].saves[x] # progress[m][x]
      BY <1>1, <2>2, NoneTyped DEF Swapped
    <3> QED BY <1>1, <2>1, <2>2, <3>1 DEF Found
  <2>3. ASSUME NEW x \in Prefixes, Kept(To, x)
        PROVE  tree'[To].saves[x] = progress[To][x]
    BY <1>1, <2>1, <2>3 DEF Kept
  <2>4. Is(tree'[To])
    BY <1>1, <1>3, <2>1 DEF Swapped
  <2>5. Blank' /\ OneFailure' /\ KeepsAll
    BY <1>1, <1>3, <2>1, <2>2, <2>3, <2>4, AboutOne
  <2> QED BY <1>1, <2>5 DEF Swap, Between, Offering, Placed, BackAfterFault, AtSomebody
<1>4. CASE /\ tree' = tree /\ old' = old
           /\ \/ ~aside /\ faults' = faults
              \/ faults' = faults + 1 /\ ~(faults' <= 1)
  <2>1. ASSUME NEW m \in Members, NEW x \in Prefixes, m = To, Found(m, x)
        PROVE  Found(m, x)'
    BY <1>1, <1>4, <2>1 DEF Found
  <2>2. ASSUME NEW x \in Prefixes, faults' <= 1, Kept(To, x)
        PROVE  FALSE
    BY <1>1, <1>4, <2>2 DEF Kept, Swapped
  <2>3. tree'[To] = None
    BY <1>1, <1>4 DEF Swapped
  <2>4. Blank' /\ OneFailure' /\ KeepsAll
    BY <1>1, <1>4, <2>1, <2>2, <2>3, AboutOne
  <2> QED BY <1>1, <2>4 DEF Swap, Between, Offering, Placed, BackAfterFault, AtSomebody
<1>5. QED
  BY <1>1, <1>3, <1>4, SecondFailure DEF RolledBack, RenamedBack, Fault

\* The tree that has the saves is kept.
LEMMA PutBackFailsSaves ==
  ASSUME IInv, PutBackFails("giveBack", "offer")
  PROVE  SInv' /\ KeepsAll
<1> USE DEF IInv, FolderTypeOK, SInv, Step, Continue
<1>1. /\ Giving /\ Between /\ ~Giving' /\ ~Between' /\ ~Taking /\ ~Taking'
      /\ Swapped(To)
      /\ at = "giveBack" /\ at' = "offer" /\ tree' = tree /\ old' = old
      /\ progress' = progress /\ staged' = None /\ moved' = {}
      /\ crashes' = crashes /\ late' = late /\ Fault
  BY DEF PutBackFails, Giving, Taking, Between, Swap
<1>2. To \in Members /\ To \in Places
  BY <1>1, GivingTo
<1>3. /\ kept[To] \subseteq kept'[To] /\ staged \in kept'[To]
      /\ \A q \in Members : q # To => kept'[q] = kept[q]
  BY <1>2 DEF PutBackFails, TreesTyped, Places
<1>4. ASSUME NEW m \in Members, NEW x \in Prefixes, m = To, Found(m, x)
      PROVE  Found(m, x)'
  BY <1>1, <1>3, <1>4 DEF Found
<1>5. ~(faults' <= 1) /\ faults' = faults + 1
  BY <1>1, SecondFailure DEF Fault
<1>6. tree'[To] = None
  BY <1>1 DEF Swapped
<1>7. Blank' /\ OneFailure' /\ KeepsAll
  BY <1>1, <1>3, <1>4, <1>5, <1>6, AboutOne
<1> QED BY <1>1, <1>7 DEF Swap, Between, Offering, Placed, BackAfterFault, AtSomebody

-----------------------------------------------------------------------------
(* The specification                                                        *)

LEMMA InitIInv ==
  ASSUME Init
  PROVE  IInv
<1> USE DEF Init
<1>1. FolderTypeOK
  <2>1. NoSaves \in [Prefixes -> 0..MaxPlays]
    BY Numbers DEF NoSaves
  <2>2. TreesTyped /\ SwapTyped
    BY NoneTyped DEF TreesTyped, SwapTyped
  <2>3. RecordTyped
    BY Numbers DEF RecordTyped, Marks
  <2>4. PassTyped
    <3>1. at \in Points /\ stray \in BOOLEAN
      BY DEF Points
    <3>2. todo \in Seq(Members)
      BY EmptySeq
    <3>3. scan \in [Members -> 0..MaxVersion]
      BY Numbers
    <3> QED BY <3>1, <3>2, <3>3 DEF PassTyped
  <2>5. PeopleTyped
    BY <2>1, Numbers DEF PeopleTyped
  <2> QED BY <2>2, <2>3, <2>4, <2>5, Numbers DEF FolderTypeOK
<1>2. AtSomebody /\ Offering /\ Placed /\ Swap /\ BackAfterFault
  BY DEF AtSomebody, Taking, Giving, Offering, Placed, Swap, Between, BackAfterFault
<1>3. \A m \in Members : tree[m] = None /\ progress[m] = NoSaves
  BY DEF Places
<1>4. Blank /\ OneFailure
  BY <1>3 DEF Blank, OneFailure, NoSaves
<1> QED BY <1>1, <1>2, <1>4 DEF IInv, SInv

LEMMA StutterStep ==
  ASSUME IInv, UNCHANGED folderVars
  PROVE  IInv'
<1> USE DEF folderVars
<1>1. FolderTypeOK'
  BY DEF IInv, FolderTypeOK, TreesTyped, RecordTyped, PassTyped, SwapTyped, PeopleTyped
<1>2. /\ To' = To /\ (Between' <=> Between) /\ (Taking' <=> Taking)
      /\ (Giving' <=> Giving)
  BY DEF To, Between, Taking, Giving
<1>3. AtSomebody' /\ Blank' /\ Offering' /\ Placed' /\ BackAfterFault'
  BY <1>2 DEF IInv, SInv, AtSomebody, Blank, Offering, Placed, BackAfterFault
<1>4. Swap'
  BY <1>2 DEF IInv, SInv, Swap, Ready, Swapped, Emptied
<1>5. OneFailure'
  BY <1>2 DEF IInv, SInv, OneFailure, Kept
<1> QED BY <1>1, <1>3, <1>4, <1>5 DEF IInv, SInv

\* A step of a clone, into the pool or into a member's directory.
LEMMA CloneStep ==
  ASSUME IInv, Clone \/ CloneGoesWrong
  PROVE  IInv' /\ KeepsAll
<1>1. CASE \/ Stage("take", "takeAside") \/ Stage("give", "giveAside")
           \/ Clear("takeAside", "takeRename") \/ Clear("giveAside", "giveRename")
           \/ Aside("takeRename", "takeCarry") \/ Aside("giveRename", "giveCarry")
  <2>1. (Taking \/ Giving) /\ FolderTypeOK /\ AtSomebody /\ Placed
    BY <1>1 DEF IInv, SInv, Stage, Clear, Aside, Step, Continue, Taking, Giving
  <2>2. FolderTypeOK'
    BY <1>1, <2>1, CloneTypes DEF Points, Resting
  <2> QED BY <1>1, <2>2, TakingSaves, StageSaves, ClearSaves, AsideSaves DEF IInv
<1>2. CASE \/ Carry("takeCarry") \/ Carry("giveCarry")
           \/ PutBack("takeBack") \/ PutBack("giveBack")
  <2>1. (Taking \/ Giving) /\ FolderTypeOK /\ AtSomebody /\ Placed
    BY <1>2 DEF IInv, SInv, Carry, PutBack, Step, Continue, Taking, Giving
  <2>2. FolderTypeOK'
    BY <1>2, <2>1, CloneTypes DEF Points, Resting
  <2> QED BY <1>2, <2>2, TakingSaves, CarrySaves, PutBackSaves DEF IInv
<1>3. CASE \/ Carried("takeCarry", "takePlace") \/ Carried("giveCarry", "givePlace")
           \/ Place("takePlace", "takeOld") \/ Place("givePlace", "giveOld")
           \/ SwapFails("takeCarry", "takeBack") \/ SwapFails("giveCarry", "giveBack")
           \/ SwapFails("takePlace", "takeBack") \/ SwapFails("givePlace", "giveBack")
  <2>1. (Taking \/ Giving) /\ FolderTypeOK /\ AtSomebody /\ Placed
    BY <1>3 DEF IInv, SInv, Carried, Place, SwapFails, Step, Continue, Taking, Giving
  <2>2. FolderTypeOK'
    BY <1>3, <2>1, CloneTypes DEF Points, Resting
  <2> QED BY <1>3, <2>2, TakingSaves, CarriedSaves, PlaceSaves DEF IInv
<1>4. CASE \/ DropOld("takeOld", "look") \/ DropOld("giveOld", "offer")
           \/ RolledBack("takeBack", "look") \/ RolledBack("giveBack", "offer")
           \/ PutBackFails("takeBack", "look") \/ PutBackFails("giveBack", "offer")
  <2>1. (Taking \/ Giving) /\ FolderTypeOK /\ AtSomebody /\ Placed
    BY <1>4 DEF IInv, SInv, DropOld, RolledBack, PutBackFails, Step, Continue, Taking, Giving
  <2>2. FolderTypeOK'
    BY <1>4, <2>1, CloneTypes DEF Points, Resting
  <2> QED BY <1>4, <2>2, TakingSaves, DropOldSaves, RolledBackSaves,
         PutBackFailsSaves DEF IInv
<1>5. CASE \/ CloneFails("take", "look") \/ CloneFails("give", "offer")
           \/ CloneFails("takeAside", "look") \/ CloneFails("giveAside", "offer")
           \/ CloneFails("takeRename", "look") \/ CloneFails("giveRename", "offer")
  <2>1. (Taking \/ Giving) /\ FolderTypeOK /\ AtSomebody /\ Placed
    BY <1>5 DEF IInv, SInv, CloneFails, Step, Continue, Taking, Giving
  <2>2. FolderTypeOK'
    BY <1>5, <2>1, CloneTypes DEF Points, Resting
  <2> QED BY <1>5, <2>2, TakingSaves, CloneFailsSaves DEF IInv
<1>6. CASE SourceGone
  <2>1. (Taking \/ Giving) /\ FolderTypeOK /\ AtSomebody /\ Placed
    BY <1>6 DEF IInv, SInv, SourceGone, Step, Continue, Taking, Giving
  <2>2. FolderTypeOK'
    BY <1>6, <2>1, CloneTypes DEF Points
  <2> QED BY <1>6, <2>2, TakingSaves DEF IInv
<1> QED BY <1>1, <1>2, <1>3, <1>4, <1>5, <1>6 DEF Clone, CloneGoesWrong

LEMMA NextIInv ==
  ASSUME IInv, Next
  PROVE  IInv' /\ KeepsAll
<1>1. ASSUME NEW m \in Members,
             \/ Change(m) \/ Remove(m) \/ Offer(m)
             \/ \E x \in Prefixes : Play(m, x)
      PROVE  IInv' /\ KeepsAll
  BY <1>1, PeopleTypes, PeopleSaves DEF IInv
<1>2. CASE SyncBegins \/ Look \/ Distribute \/ Offered \/ SyncEnds
  BY <1>2, PassTypes, PassSaves DEF IInv, SInv
<1>3. CASE DaemonRestarts
  BY <1>3, PassTypes, DaemonSaves DEF IInv, SInv
<1> QED BY <1>1, <1>2, <1>3, CloneStep DEF Next, Pass

\* Where a save is at every step of every swap, for any members and prefixes and
\* however many steps fail: what TypeCorrect, SavesStay and NothingLost rest on.
THEOREM Invariance == Spec => []IInv
<1>1. IInv /\ [Next]_folderVars => IInv'
  BY NextIInv, StutterStep
<1> QED BY <1>1, InitIInv, PTL DEF Spec

\* Every variable keeps to its set, and a tree is built only during a clone.
THEOREM TypeCorrect == Spec => []FolderTypeOK
<1>1. IInv => FolderTypeOK
  BY DEF IInv
<1> QED BY <1>1, Invariance, PTL

\* cloneAt and its rollback: between two clones what a member saved last is in its
\* folder, whichever single step failed and whenever people played, unless it had no
\* saves there when a clone listed them.
THEOREM SavesStay == Spec => []SavesStayPut
<1>1. IInv => SavesStayPut
  BY DEF IInv, SInv, SavesStayPut, OneFailure, Kept, Between, Giving
<1> QED BY <1>1, Invariance, PTL

\* cloneAt and its rollback: no step loses a save, however many fail and wherever
\* the daemon goes, but the removal of a leftover under the name a swap needs and of
\* what was first played while the new tree was built.
THEOREM NothingLost == Spec => NoFailureLosesSaves
<1> DEFINE Lossless == \A m \in Members, x \in Prefixes : Keeps(m, x)
<1>1. IInv /\ [Next]_folderVars => [Lossless]_folderVars
  BY NextIInv DEF KeepsAll
<1>2. Spec => [][Lossless]_folderVars
  BY <1>1, Invariance, PTL DEF Spec
<1> QED BY <1>2 DEF NoFailureLosesSaves, Keeps

-----------------------------------------------------------------------------
(* The entries in the launchers (LauncherShares): one that somebody removed *)
(* by hand is not written again, for any members and any number of          *)
(* failures, restarts and deleted seats.                                    *)

\* A value for each member.
PerMember(f) == f = [m \in Members |-> f[m]]

Book(b) == b = [recipe |-> b.recipe, given |-> b.given] /\ PerMember(b.given)

Tidy ==
  /\ PerMember(entry) /\ PerMember(removed) /\ Book(book) /\ Book(disk)
  /\ round = [at |-> round.at, todo |-> round.todo, scans |-> round.scans,
              recipe |-> round.recipe, answer |-> round.answer]
  /\ bounds \in [changes : Nat, deletes : Nat, faults : Nat, crashes : Nat]

\* Who is deleted is not there until the books know.
Apart == seats \subseteq Members /\ up \subseteq seats /\ doing \cap seats = {}

\* The file differs from the book only by a save that failed.
Written == bounds.faults = 0 => disk = book

\* What the daemon knew it had written when somebody removed it is still marked
\* as given, in the file too, and nothing makes the daemon take it back.
Remembered ==
  \A m \in Members : removed[m] = "given" =>
    /\ m \in seats /\ m \in have /\ book.recipe # "none"
    /\ book.given[m] # "no" /\ disk.given[m] # "no"

\* What a round knows of the member it is at.
AtMember == {"member", "unregister", "forget", "register", "note"}
RoundKnows ==
  /\ round.at \in AtMember /\ round.recipe = "none" => book.recipe = "none"
  /\ round.at \in {"unregister", "forget"} /\ m0 \in Members
       => removed[m0] # "given"
  /\ round.at = "register" /\ m0 \in Members => book.given[m0] = "no"
  /\ round.at = "note" => round.answer \in {"written", "left"}

ShareInv == Tidy /\ Apart /\ Written /\ Remembered /\ RoundKnows

LEMMA InitShares == ShareInit => ShareInv
<1> SUFFICES ASSUME ShareInit PROVE ShareInv
  OBVIOUS
<1>1. /\ seats = Members /\ up = {Host} /\ doing = {} /\ disk = book
      /\ book = [recipe |-> "none", given |-> [m \in Members |-> "no"]]
      /\ removed = [m \in Members |-> "no"] /\ entry = [m \in Members |-> "none"]
      /\ bounds = [changes |-> 0, deletes |-> 0, faults |-> 0, crashes |-> 0]
      /\ round = Off
  BY DEF ShareInit
<1>2. Tidy
  BY <1>1 DEF Tidy, PerMember, Book, Off
<1>3. Apart /\ Written /\ Remembered
  BY <1>1, HostIsMember, SharesNames DEF Apart, Written, Remembered
<1>4. RoundKnows
  BY <1>1 DEF RoundKnows, AtMember, Off
<1> QED BY <1>2, <1>3, <1>4 DEF ShareInv

-----------------------------------------------------------------------------
(* What the helpers of its actions do.                                      *)

Bounds == {"changes", "deletes", "faults", "crashes"}

LEMMA SpendOne ==
  ASSUME Tidy, NEW what \in Bounds, NEW max, Spend(what, max)
  PROVE  /\ bounds' \in [changes : Nat, deletes : Nat, faults : Nat, crashes : Nat]
         /\ bounds'.faults = 0 => bounds.faults = 0 /\ what # "faults"
  BY DEF Tidy, Spend, Bounds

LEMMA FaultOne ==
  ASSUME Tidy, Failure
  PROVE  /\ bounds' \in [changes : Nat, deletes : Nat, faults : Nat, crashes : Nat]
         /\ bounds'.faults # 0
  BY SpendOne DEF Failure, Bounds

\* The bounds of a step that may fail.
LEMMA MayFail ==
  ASSUME Tidy, NoFailure \/ Failure
  PROVE  /\ bounds' \in [changes : Nat, deletes : Nat, faults : Nat, crashes : Nat]
         /\ bounds'.faults = 0 => bounds.faults = 0
  BY FaultOne DEF NoFailure, Tidy

\* A save leaves the book in the file, or fails.
LEMMA SaveWrites ==
  ASSUME Tidy, Save
  PROVE  /\ bounds' \in [changes : Nat, deletes : Nat, faults : Nat, crashes : Nat]
         /\ disk' = book' \/ disk' = disk
         /\ Written'
  BY FaultOne DEF Save, NoFailure, Tidy, Written

LEMMA EntryChanges ==
  ASSUME Tidy, NEW m, NEW e, Becomes(m, e)
  PROVE  PerMember(entry)'
  BY DEF Tidy, PerMember, Becomes

\* A round that goes on.
LEMMA NextShape ==
  ASSUME Tidy, round' = NextMember
  PROVE  /\ round' = [at |-> round'.at, todo |-> round'.todo, scans |-> round'.scans,
                      recipe |-> round'.recipe, answer |-> round'.answer]
         /\ round'.at = "off" \/ (round'.at = "member" /\ round'.recipe = round.recipe)
<1>1. CASE Tail(round.todo) = <<>>
  <2>1. round' = Off
    BY <1>1 DEF NextMember
  <2> QED BY <2>1 DEF Off
<1>2. CASE Tail(round.todo) # <<>>
  <2>1. round' = [round EXCEPT !.at = "member", !.todo = Tail(@),
                               !.scans[m0] = "unread", !.answer = "none"]
    BY <1>2 DEF NextMember
  <2> QED BY <2>1 DEF Tidy
<1> QED BY <1>1, <1>2

RoundShaped ==
  round = [at |-> round.at, todo |-> round.todo, scans |-> round.scans,
           recipe |-> round.recipe, answer |-> round.answer]

LEMMA PhaseShape ==
  ASSUME Tidy, NEW p, round' = [round EXCEPT !.at = p]
  PROVE  /\ RoundShaped' /\ round'.at = p /\ round'.todo = round.todo
         /\ round'.recipe = round.recipe /\ round'.answer = round.answer
  BY DEF Tidy, RoundShaped

\* Where the round is at nobody there is nothing to know.
LEMMA AtNobody == round.at \notin AtMember => RoundKnows
  BY DEF RoundKnows, AtMember

LEMMA SoonShape ==
  ASSUME Tidy, Soon
  PROVE  RoundShaped' /\ (round' = round \/ round'.at = "begun")
<1>1. CASE round.at = "off"
  <2>1. round' = [Off EXCEPT !.at = "begun"]
    BY <1>1 DEF Soon
  <2> QED BY <2>1 DEF Off, RoundShaped
<1>2. CASE round.at # "off"
  BY <1>2 DEF Soon, Tidy, RoundShaped
<1> QED BY <1>1, <1>2

-----------------------------------------------------------------------------
(* A round.                                                                 *)

\* A step that changes neither the books nor who is there.
LEMMA RoundFrame ==
  ASSUME ShareInv, UNCHANGED <<book, disk, removed, seats, up, doing>>, have \subseteq have',
         PerMember(entry)', RoundShaped', NoFailure \/ Failure, RoundKnows'
  PROVE  ShareInv'
<1>1. Tidy /\ Tidy' /\ (bounds'.faults = 0 => bounds.faults = 0)
  BY MayFail DEF ShareInv, Tidy, RoundShaped, PerMember, Book
<1>2. Apart' /\ Written' /\ Remembered'
  BY <1>1 DEF ShareInv, Apart, Written, Remembered
<1> QED BY <1>1, <1>2 DEF ShareInv

\* In particular one after which the round is at its next member.
LEMMA GoesToNext ==
  ASSUME ShareInv, round.at \in AtMember, round' = NextMember, book' = book
  PROVE  RoundShaped' /\ RoundKnows'
  BY NextShape DEF ShareInv, RoundKnows, AtMember, RoundShaped

LEMMA RoundLooks ==
  ASSUME ShareInv, RoundBegins \/ Scan \/ TakesRecipes PROVE ShareInv'
<1>0. Tidy
  BY DEF ShareInv
<1>1. CASE RoundBegins
  <2>1. UNCHANGED <<book, disk, removed, seats, up, doing, have, entry, bounds>>
    BY <1>1 DEF RoundBegins, RoundOnly, books
  <2>2. RoundShaped' /\ round'.at \in {"off", "scan"}
    <3>1. ASSUME NEW q, round' = [Off EXCEPT !.at = "scan", !.todo = q]
          PROVE  RoundShaped' /\ round'.at = "scan"
      BY <3>1 DEF Off, RoundShaped
    <3>2. round' = Off => RoundShaped' /\ round'.at = "off"
      BY DEF Off, RoundShaped
    <3> QED BY <1>1, <3>1, <3>2, Zenon DEF RoundBegins
  <2>3. RoundKnows'
    BY <2>2, AtNobody DEF AtMember, RoundKnows
  <2>4. PerMember(entry)'
    BY <1>0, <2>1 DEF Tidy, PerMember
  <2> QED BY <2>1, <2>2, <2>3, <2>4, RoundFrame DEF NoFailure
<1>2. CASE Scan
  <2>1. UNCHANGED <<book, disk, removed, seats, up, doing>> /\ have \subseteq have'
    BY <1>2 DEF Scan, RoundOnly, books
  <2>2. \/ NoFailure /\ (\E e : Becomes(m0, e))
           /\ (\E e : round' = [round EXCEPT !.at = "learn", !.answer = e])
        \/ (NoFailure \/ Failure) /\ entry' = entry /\ round' = Next1
    BY <1>2 DEF Scan
  <2>3. RoundShaped' /\ round'.at \in {"learn", "scan"}
    BY <1>0, <2>2 DEF Next1, Tidy, RoundShaped
  <2>4. RoundKnows'
    BY <2>3 DEF AtMember, RoundKnows
  <2>5. PerMember(entry)'
    BY <1>0, <2>2, EntryChanges DEF Tidy, PerMember
  <2> QED BY <2>1, <2>2, <2>3, <2>4, <2>5, RoundFrame
<1>3. CASE TakesRecipes
  <2>1. UNCHANGED <<book, disk, removed, seats, up, doing, have, entry, bounds>>
    BY <1>3 DEF TakesRecipes, RoundOnly, NothingElse, books
  <2>2. /\ RoundShaped'
        /\ round'.at = "off" \/ (round'.at = "member" /\ round'.recipe = book.recipe)
    <3>1. ASSUME NEW q, round' = [round EXCEPT !.at = "member", !.recipe = book.recipe,
                                               !.todo = q]
          PROVE  RoundShaped' /\ round'.at = "member" /\ round'.recipe = book.recipe
      BY <1>0, <3>1 DEF Tidy, RoundShaped
    <3>2. round' = Off => RoundShaped' /\ round'.at = "off"
      BY DEF Off, RoundShaped
    <3> QED BY <1>3, <3>1, <3>2, Zenon DEF TakesRecipes
  <2>3. RoundKnows'
    BY <2>1, <2>2 DEF AtMember, RoundKnows
  <2>4. PerMember(entry)'
    BY <1>0, <2>1 DEF Tidy, PerMember
  <2> QED BY <2>1, <2>2, <2>3, <2>4, RoundFrame DEF NoFailure
<1> QED BY <1>1, <1>2, <1>3

\* What was noted as removed by hand is not taken back, and nobody is given an
\* entry he was given already.
LEMMA RoundDecides ==
  ASSUME ShareInv, MemberBegins PROVE ShareInv'
<1>0. /\ Tidy /\ round.at = "member" /\ round.at \in AtMember
      /\ UNCHANGED <<book, disk, removed, seats, up, doing, have, entry>>
  BY DEF ShareInv, MemberBegins, NothingElse, RoundOnly, books,
     AtMember
<1>1. PerMember(entry)' /\ have \subseteq have'
  BY <1>0 DEF Tidy, PerMember
<1>2. CASE /\ TakeBack(m0) /\ NoFailure
           /\ round' = [round EXCEPT !.at =
                IF Given(m0) = "written" THEN "unregister" ELSE "forget"]
  <2>1. PICK p \in {"unregister", "forget"} : round' = [round EXCEPT !.at = p]
    BY <1>2
  <2>2. /\ RoundShaped' /\ round'.at = p /\ round'.todo = round.todo
        /\ round'.recipe = round.recipe
    BY <1>0, <2>1, PhaseShape
  <2>3. m0' = m0
    BY <2>2 DEF m0
  <2>4. m0 \in Members => removed[m0] # "given"
    BY <1>0, <1>2 DEF TakeBack, ShareInv, Remembered, RoundKnows
  <2>5. RoundKnows'
    BY <1>0, <2>2, <2>3, <2>4 DEF RoundKnows, ShareInv
  <2> QED BY <1>0, <1>1, <1>2, <2>2, <2>5, RoundFrame
<1>3. CASE Give(m0) /\ NoFailure /\ round' = [round EXCEPT !.at = "register"]
  <2>1. /\ RoundShaped' /\ round'.at = "register" /\ round'.todo = round.todo
        /\ round'.recipe = round.recipe
    BY <1>0, <1>3, PhaseShape
  <2>2. m0' = m0
    BY <2>1 DEF m0
  <2>3. RoundKnows'
    BY <1>0, <1>3, <2>1, <2>2 DEF RoundKnows, ShareInv, Give, Given
  <2> QED BY <1>0, <1>1, <1>3, <2>1, <2>3, RoundFrame
<1>4. CASE round' = NextMember /\ (NoFailure \/ Failure)
  BY <1>0, <1>1, <1>4, GoesToNext, RoundFrame
<1> QED BY <1>2, <1>3, <1>4 DEF MemberBegins, LooksDone

LEMMA RoundReaches ==
  ASSUME ShareInv, Unregister \/ Register PROVE ShareInv'
<1>0. /\ Tidy /\ round.at \in AtMember
      /\ UNCHANGED <<book, disk, removed, seats, up, doing, have>> /\ have \subseteq have'
  BY DEF ShareInv, Unregister, Register, RoundOnly, books, AtMember
<1>1. NoFailure \/ Failure
  BY DEF Unregister, Register
<1>2. PerMember(entry)'
  <2>1. entry' = entry \/ \E e : Becomes(m0, e)
    BY Zenon DEF Unregister, Register
  <2> QED BY <1>0, <2>1, EntryChanges DEF Tidy, PerMember
<1>3. CASE round' = NextMember
  BY <1>0, <1>1, <1>2, <1>3, GoesToNext, RoundFrame
<1>4. CASE Unregister /\ round' = [round EXCEPT !.at = "forget"]
  <2>1. /\ RoundShaped' /\ round'.at = "forget" /\ round'.todo = round.todo
        /\ round'.recipe = round.recipe
    BY <1>0, <1>4, PhaseShape
  <2>2. m0' = m0 /\ round.at = "unregister"
    BY <1>4, <2>1 DEF m0, Unregister
  <2>3. RoundKnows'
    BY <1>0, <2>1, <2>2 DEF RoundKnows, ShareInv
  <2> QED BY <1>0, <1>1, <1>2, <2>1, <2>3, RoundFrame
<1>5. CASE \E a \in {"written", "left"} : round' = [round EXCEPT !.at = "note", !.answer = a]
  <2>1. PICK a \in {"written", "left"} : round' = [round EXCEPT !.at = "note", !.answer = a]
    BY <1>5
  <2>2. RoundShaped' /\ round'.at = "note" /\ round'.answer = a /\ round'.recipe = round.recipe
    BY <1>0, <2>1 DEF Tidy, RoundShaped
  <2>3. RoundKnows'
    BY <1>0, <2>2 DEF RoundKnows, ShareInv
  <2> QED BY <1>0, <1>1, <1>2, <2>2, <2>3, RoundFrame
<1>6. Register => \/ round' = NextMember
                         \/ round' = [round EXCEPT !.at = "note", !.answer = "left"]
                         \/ round' = [round EXCEPT !.at = "note", !.answer = "written"]
  BY Zenon DEF Register, LooksDone
<1>7. Unregister => round' = NextMember \/ round' = [round EXCEPT !.at = "forget"]
  BY Zenon DEF Unregister, LooksDone
<1> QED BY <1>3, <1>4, <1>5, <1>6, <1>7

-----------------------------------------------------------------------------
(* The steps that change the books, or who is there.                        *)

\* What somebody removed is remembered while the folder and the recipe are there.
LEMMA RemovedIsKept ==
  ASSUME Tidy, StillRemoved
  PROVE  /\ PerMember(removed)'
         /\ \A m \in Members : removed'[m] = "given" =>
              removed[m] = "given" /\ m \in have' /\ book'.recipe # "none"
  BY DEF Tidy, PerMember, StillRemoved

\* A step that takes nothing into the memory it does not keep there, and after
\* which the round knows what it did or is at nobody.
LEMMA BookFrame ==
  ASSUME ShareInv, Tidy', Apart', Written',
         \A m \in Members : removed'[m] = "given" =>
           /\ removed[m] = "given" /\ m \in seats' /\ m \in have' /\ book'.recipe # "none"
           /\ book'.given[m] # "no" /\ disk'.given[m] # "no",
         RoundKnows' \/ round' = round,
         book.recipe = "none" => book'.recipe = "none" \/ round' # round,
         \A m \in Members : book.given[m] = "no" => book'.given[m] = "no" \/ round' # round
  PROVE  ShareInv'
<1>1. Remembered'
  BY DEF Remembered
<1>2. CASE RoundKnows'
  BY <1>1, <1>2 DEF ShareInv
<1>3. CASE round' = round
  <2>1. m0' = m0
    BY <1>3 DEF m0
  <2>2. RoundKnows
    BY DEF ShareInv
  <2>3. RoundKnows'
    BY <1>3, <2>1, <2>2 DEF RoundKnows
  <2> QED BY <1>1, <2>3 DEF ShareInv
<1> QED BY <1>2, <1>3

\* One member's mark in the book.
LEMMA MarkOne ==
  ASSUME Tidy, NEW g, book' = [book EXCEPT !.given[m0] = g], Save
  PROVE  /\ Book(book)' /\ Book(disk)' /\ book'.recipe = book.recipe
         /\ disk' = disk \/ disk' = book'
         /\ \A m \in Members :
              book'.given[m] = IF m = m0 THEN g ELSE book.given[m]
<1>1. /\ Book(book)' /\ book'.recipe = book.recipe
      /\ \A m \in Members :
           book'.given[m] = IF m = m0 THEN g ELSE book.given[m]
  BY DEF Tidy, Book, PerMember
<1> QED BY <1>1, SaveWrites DEF Tidy, Book, PerMember

LEMMA RoundForgets == ASSUME ShareInv, Forget PROVE ShareInv'
<1>0. /\ Tidy /\ round.at = "forget" /\ round.at \in AtMember
      /\ UNCHANGED <<seats, up, doing, have, entry>> /\ round' = NextMember
  BY DEF ShareInv, Forget, NothingElse, RoundOnly, LooksDone,
     AtMember
<1>1. Save /\ book' = [book EXCEPT !.given[m0] = "no"] /\ StillRemoved
  BY DEF Forget
<1>2. /\ Book(book)' /\ Book(disk)' /\ book'.recipe = book.recipe
      /\ disk' = disk \/ disk' = book'
      /\ \A m \in Members :
           book'.given[m] = IF m = m0 THEN "no" ELSE book.given[m]
  BY <1>0, <1>1, MarkOne
<1>3. /\ PerMember(removed)'
      /\ \A m \in Members : removed'[m] = "given" =>
           removed[m] = "given" /\ m \in have' /\ book'.recipe # "none"
  BY <1>0, <1>1, RemovedIsKept
<1>4. \A m \in Members : removed[m] = "given" => m # m0
  BY <1>0 DEF ShareInv, RoundKnows
<1>5. RoundShaped' /\ RoundKnows'
  <2>1. RoundShaped' /\ (round'.at = "off" \/ (round'.at = "member" /\ round'.recipe = round.recipe))
    BY <1>0, NextShape DEF RoundShaped
  <2> QED BY <1>0, <1>2, <2>1 DEF ShareInv, RoundKnows, AtMember
<1>6. Tidy'
  <2>1. PerMember(entry)'
    BY <1>0 DEF Tidy, PerMember
  <2> QED BY <1>0, <1>1, <1>2, <1>3, <1>5, <2>1, SaveWrites DEF Tidy, RoundShaped
<1>7. Written' /\ Apart'
  BY <1>0, <1>1, SaveWrites DEF ShareInv, Apart
<1>8. \A m \in Members : removed'[m] = "given" =>
        /\ removed[m] = "given" /\ m \in seats' /\ m \in have' /\ book'.recipe # "none"
        /\ book'.given[m] # "no" /\ disk'.given[m] # "no"
  BY <1>0, <1>2, <1>3, <1>4 DEF ShareInv, Remembered
<1>9. Remembered'
  BY <1>8 DEF Remembered
<1> QED BY <1>5, <1>6, <1>7, <1>9 DEF ShareInv

LEMMA RoundNotes == ASSUME ShareInv, Note PROVE ShareInv'
<1>0. /\ Tidy /\ round.at = "note" /\ round.at \in AtMember
      /\ UNCHANGED <<seats, up, doing, have, entry, removed>> /\ round' = NextMember
  BY DEF ShareInv, Note, NothingElse, RoundOnly, LooksDone,
     AtMember
<1>1. /\ Save /\ book' = [book EXCEPT !.given[m0] = round.answer]
      /\ round.answer # "no"
  BY <1>0 DEF Note, ShareInv, RoundKnows
<1>2. /\ Book(book)' /\ Book(disk)' /\ book'.recipe = book.recipe
      /\ disk' = disk \/ disk' = book'
      /\ \A m \in Members :
           book'.given[m] = IF m = m0 THEN round.answer ELSE book.given[m]
  BY <1>0, <1>1, MarkOne
<1>3. RoundShaped' /\ RoundKnows'
  <2>1. RoundShaped' /\ (round'.at = "off" \/ (round'.at = "member" /\ round'.recipe = round.recipe))
    BY <1>0, NextShape DEF RoundShaped
  <2> QED BY <1>0, <1>2, <2>1 DEF ShareInv, RoundKnows, AtMember
<1>4. Tidy'
  <2>1. PerMember(entry)' /\ PerMember(removed)'
    BY <1>0 DEF Tidy, PerMember
  <2> QED BY <1>0, <1>1, <1>2, <1>3, <2>1, SaveWrites DEF Tidy, RoundShaped
<1>5. Written' /\ Apart'
  BY <1>0, <1>1, SaveWrites DEF ShareInv, Apart
<1>6. Remembered'
  BY <1>0, <1>1, <1>2 DEF ShareInv, Remembered
<1> QED BY <1>3, <1>4, <1>5, <1>6 DEF ShareInv

\* A recipe that is withdrawn ends what was remembered of it.
LEMMA RoundLearns == ASSUME ShareInv, Learn PROVE ShareInv'
<1>0. /\ Tidy /\ round.at = "learn" /\ StillRemoved
      /\ UNCHANGED <<seats, up, doing, have, entry>>
      /\ round' = [Next1 EXCEPT !.scans[m0] = round.answer, !.answer = "none"]
      /\ \E a : book' = [book EXCEPT !.recipe = a]
      /\ IF book' # book THEN Save ELSE UNCHANGED <<disk, bounds>>
  BY DEF ShareInv, Learn, NothingElse, RoundOnly
<1>1. RoundShaped' /\ round'.at = "scan"
  BY <1>0 DEF Tidy, RoundShaped, Next1
<1>2. RoundKnows'
  BY <1>1, AtNobody DEF RoundKnows, AtMember
<1>3. book' = [recipe |-> book'.recipe, given |-> book.given]
  BY <1>0 DEF Tidy, Book
<1>4. Book(book)' /\ book'.given = book.given
  BY <1>0, <1>3 DEF Tidy, Book, PerMember
<1>5. /\ bounds' \in [changes : Nat, deletes : Nat, faults : Nat, crashes : Nat]
      /\ Written' /\ (disk' = disk \/ disk' = book')
  <2>1. CASE book' # book
    BY <1>0, <2>1, SaveWrites
  <2>2. CASE book' = book
    BY <1>0, <2>2 DEF ShareInv, Written, Tidy
  <2> QED BY <2>1, <2>2
<1>6. /\ PerMember(removed)'
      /\ \A m \in Members : removed'[m] = "given" =>
           removed[m] = "given" /\ m \in have' /\ book'.recipe # "none"
  BY <1>0, RemovedIsKept
<1>7. Tidy'
  <2>1. PerMember(entry)' /\ Book(disk)'
    BY <1>0, <1>4, <1>5 DEF Tidy, PerMember, Book
  <2> QED BY <1>1, <1>4, <1>5, <1>6, <2>1 DEF Tidy, RoundShaped
<1>8. Apart'
  BY <1>0 DEF ShareInv, Apart
<1>9. Remembered'
  BY <1>0, <1>4, <1>5, <1>6 DEF ShareInv, Remembered
<1> QED BY <1>2, <1>5, <1>7, <1>8, <1>9 DEF ShareInv

-----------------------------------------------------------------------------
(* Everybody else.                                                          *)

Elsewhere ==
  \/ PassMoves \/ PassReports \/ PressSync \/ MarkAll
  \/ ShareHost
  \/ \E m \in Members :
       \/ TurnOn(m) \/ TurnOff(m) \/ PlayerInstalls(m)
       \/ PlayerOpens(m) \/ PlayerCloses(m)

BoundsKept ==
  /\ bounds' \in [changes : Nat, deletes : Nat, faults : Nat, crashes : Nat]
  /\ bounds'.faults = 0 => bounds.faults = 0

LEMMA SpendKeeps ==
  ASSUME Tidy
  PROVE  /\ Spend("changes", MaxChanges) => BoundsKept
         /\ Spend("deletes", MaxDeletes) => BoundsKept
         /\ Spend("crashes", MaxCrashes) => BoundsKept
         /\ Failure => BoundsKept
         /\ UNCHANGED bounds => BoundsKept
<1>1. Spend("changes", MaxChanges) => BoundsKept
  BY SpendOne DEF Bounds, BoundsKept
<1>2. Spend("deletes", MaxDeletes) => BoundsKept
  BY SpendOne DEF Bounds, BoundsKept
<1>3. Spend("crashes", MaxCrashes) => BoundsKept
  BY SpendOne DEF Bounds, BoundsKept
<1>4. Failure => BoundsKept
  BY FaultOne DEF BoundsKept
<1>5. UNCHANGED bounds => BoundsKept
  BY DEF Tidy, BoundsKept
<1> QED BY <1>1, <1>2, <1>3, <1>4, <1>5

\* Those that leave the books alone and take no folder away.
LEMMA ElsewhereKeeps ==
  ASSUME ShareInv, Elsewhere PROVE ShareInv'
<1>0. Tidy
  BY DEF ShareInv
<1>1. UNCHANGED <<book, disk, removed, seats>> /\ have \subseteq have'
  <2>1. CASE PassMoves
    BY <2>1 DEF PassMoves, books
  <2>2. CASE PassReports
    BY <2>2 DEF PassReports, books, world
  <2>3. CASE PressSync
    BY <2>3 DEF PressSync, books, world
  <2>4. CASE MarkAll
    BY <2>4 DEF MarkAll, books, world
  <2>5. CASE ShareHost
    BY <2>5 DEF ShareHost, books
  <2>6. CASE \E m \in Members :
               \/ TurnOn(m) \/ TurnOff(m) \/ PlayerInstalls(m)
               \/ PlayerOpens(m) \/ PlayerCloses(m)
    BY <2>6 DEF TurnOn, TurnOff, PlayerInstalls, PlayerOpens,
       PlayerCloses, books
  <2> QED BY <2>1, <2>2, <2>3, <2>4, <2>5, <2>6 DEF Elsewhere
<1>2. up' \subseteq seats
  BY <1>1 DEF Elsewhere, PassMoves, PassReports, PressSync, MarkAll,
     ShareHost, TurnOn, TurnOff, PlayerInstalls,
     PlayerOpens, PlayerCloses, world, ShareInv, Apart
<1>3. doing' \subseteq doing \cup {"shared"}
  BY DEF Elsewhere, PassMoves, PassReports, PressSync, MarkAll,
     ShareHost, TurnOn, TurnOff, PlayerInstalls,
     PlayerOpens, PlayerCloses
<1>4. Apart'
  BY <1>1, <1>2, <1>3, HostIsMember, SharesNames DEF ShareInv, Apart
<1>5. BoundsKept
  <2>1. \/ Spend("changes", MaxChanges) \/ Failure \/ UNCHANGED bounds
    BY DEF Elsewhere, PassMoves, PassReports, PressSync, MarkAll,
       ShareHost, TurnOn, TurnOff, PlayerInstalls,
       PlayerOpens, PlayerCloses
  <2> QED BY <1>0, <2>1, SpendKeeps
<1>6. PerMember(entry)'
  <2>1. entry' = entry \/ \E m, e : Becomes(m, e)
    BY Zenon DEF Elsewhere, PassMoves, PassReports, PressSync,
       MarkAll, ShareHost, TurnOn, TurnOff,
       PlayerInstalls, PlayerOpens, PlayerCloses, world
  <2> QED BY <1>0, <2>1, EntryChanges DEF Tidy, PerMember
<1>7. round' = round \/ Soon
  BY DEF Elsewhere, PassMoves, PassReports, PressSync, MarkAll,
     ShareHost, TurnOn, TurnOff, PlayerInstalls,
     PlayerOpens, PlayerCloses
<1>8. RoundShaped' /\ (round' = round \/ round'.at = "begun")
  BY <1>0, <1>7, SoonShape DEF Tidy, RoundShaped
<1>9. RoundKnows' \/ round' = round
  BY <1>8 DEF RoundKnows, AtMember
<1>10. Tidy'
  BY <1>0, <1>1, <1>5, <1>6, <1>8 DEF Tidy, BoundsKept, RoundShaped, PerMember, Book
<1>11. Written'
  BY <1>1, <1>5 DEF ShareInv, Written, BoundsKept
<1>12. \A m \in Members : removed'[m] = "given" =>
         /\ removed[m] = "given" /\ m \in seats' /\ m \in have' /\ book'.recipe # "none"
         /\ book'.given[m] # "no" /\ disk'.given[m] # "no"
  BY <1>1 DEF ShareInv, Remembered
<1> QED BY <1>1, <1>4, <1>9, <1>10, <1>11, <1>12, BookFrame

\* Those that take folders away.
LEMMA FoldersGo ==
  ASSUME ShareInv,
         Uninstall \/ \E m \in Members : PlayerRemovesFolder(m)
  PROVE  ShareInv'
<1>0. /\ Tidy /\ UNCHANGED <<seats, up, book, disk, entry, round>> /\ StillRemoved
      /\ doing' \subseteq doing \cup {"uninstalled"}
  BY DEF ShareInv, Uninstall, PlayerRemovesFolder, books
<1>1. BoundsKept
  <2>1. Spend("changes", MaxChanges)
    BY DEF Uninstall, PlayerRemovesFolder
  <2> QED BY <1>0, <2>1, SpendKeeps
<1>2. /\ PerMember(removed)'
      /\ \A m \in Members : removed'[m] = "given" =>
           removed[m] = "given" /\ m \in have' /\ book'.recipe # "none"
  BY <1>0, RemovedIsKept
<1>3. Tidy'
  BY <1>0, <1>1, <1>2 DEF Tidy, BoundsKept, PerMember, Book
<1>4. Apart' /\ Written'
  BY <1>0, <1>1, HostIsMember, SharesNames DEF ShareInv, Apart, Written, BoundsKept
<1>5. \A m \in Members : removed'[m] = "given" =>
        /\ removed[m] = "given" /\ m \in seats' /\ m \in have' /\ book'.recipe # "none"
        /\ book'.given[m] # "no" /\ disk'.given[m] # "no"
  BY <1>0, <1>2 DEF ShareInv, Remembered
<1> QED BY <1>0, <1>3, <1>4, <1>5, BookFrame

\* What is removed by hand is counted as given where the file says so as well;
\* and the round is not about to take it back.
LEMMA EntryRemoved ==
  ASSUME ShareInv, NEW s \in Members, PlayerRemovesEntry(s) PROVE ShareInv'
<1>0. /\ Tidy /\ UNCHANGED <<seats, up, have, book, disk, doing, round>>
      /\ Becomes(s, "none") /\ s \in up
  BY DEF ShareInv, PlayerRemovesEntry, books
<1>1. BoundsKept
  BY <1>0, SpendKeeps DEF PlayerRemovesEntry
<1>2. /\ PerMember(removed)'
      /\ \A m \in Members : m # s => removed'[m] = removed[m]
  BY <1>0 DEF Tidy, PerMember, PlayerRemovesEntry
<1>3. removed'[s] = "given" =>
        /\ book.given[s] = "written" /\ (disk.given[s] = "written" \/ bounds.faults = 0)
        /\ s \in have /\ book.recipe # "none"
        /\ ~(round.at \in {"unregister", "forget"} /\ s = m0)
  BY <1>0 DEF Tidy, PerMember, PlayerRemovesEntry
<1>4. Tidy'
  <2>1. PerMember(entry)'
    BY <1>0, EntryChanges
  <2> QED BY <1>0, <1>1, <1>2, <2>1 DEF Tidy, BoundsKept, PerMember, Book
<1>5. Apart' /\ Written'
  BY <1>0, <1>1 DEF ShareInv, Apart, Written, BoundsKept
<1>6. Remembered'
  <2>1. ASSUME NEW m \in Members, removed'[m] = "given"
        PROVE  /\ m \in seats' /\ m \in have' /\ book'.recipe # "none"
               /\ book'.given[m] # "no" /\ disk'.given[m] # "no"
    <3>1. CASE m = s
      <4>1. disk.given[s] = "written"
        BY <1>3, <2>1, <3>1 DEF ShareInv, Written
      <4> QED BY <1>0, <1>3, <2>1, <3>1, <4>1 DEF ShareInv, Apart
    <3>2. CASE m # s
      BY <1>0, <1>2, <2>1, <3>2 DEF ShareInv, Remembered
    <3> QED BY <3>1, <3>2
  <2> QED BY <2>1 DEF Remembered
<1>7. RoundKnows'
  <2>1. m0' = m0
    BY <1>0 DEF m0
  <2> QED BY <1>0, <1>2, <1>3, <2>1 DEF ShareInv, RoundKnows
<1> QED BY <1>4, <1>5, <1>6, <1>7 DEF ShareInv

\* A seat that goes, and one of the same name once the books know of it.
LEMMA SeatsComeAndGo ==
  ASSUME ShareInv, NEW s \in Members, Delete(s) \/ Create(s) PROVE ShareInv'
<1>0. Tidy /\ UNCHANGED <<have, book, disk, round>>
  BY DEF ShareInv, Delete, Create, books
<1>1. BoundsKept
  BY <1>0, SpendKeeps DEF Delete, Create
<1>2. CASE Delete(s)
  <2>1. /\ seats' = seats \ {s} /\ up' = up \ {s} /\ doing' = doing \cup {s}
        /\ entry' = [entry EXCEPT ![s] = "none"] /\ removed' = [removed EXCEPT ![s] = "no"]
    BY <1>2 DEF Delete
  <2>2. /\ PerMember(entry)' /\ PerMember(removed)'
        /\ \A m \in Members : removed'[m] = "given" => m # s /\ removed[m] = "given"
    BY <1>0, <2>1 DEF Tidy, PerMember
  <2>3. Tidy'
    BY <1>0, <1>1, <2>2 DEF Tidy, BoundsKept, PerMember, Book
  <2>4. Apart' /\ Written'
    BY <1>0, <1>1, <2>1 DEF ShareInv, Apart, Written, BoundsKept
  <2>5. \A m \in Members : removed'[m] = "given" =>
          /\ removed[m] = "given" /\ m \in seats' /\ m \in have' /\ book'.recipe # "none"
          /\ book'.given[m] # "no" /\ disk'.given[m] # "no"
    BY <1>0, <2>1, <2>2 DEF ShareInv, Remembered
  <2> QED BY <1>0, <2>3, <2>4, <2>5, BookFrame
<1>3. CASE Create(s)
  <2>1. UNCHANGED <<up, doing, entry, removed>> /\ seats' = seats \cup {s} /\ s \notin doing
    BY <1>3 DEF Create
  <2>2. Tidy'
    BY <1>0, <1>1, <2>1 DEF Tidy, BoundsKept, PerMember, Book
  <2>3. Apart' /\ Written'
    BY <1>0, <1>1, <2>1 DEF ShareInv, Apart, Written, BoundsKept
  <2>4. \A m \in Members : removed'[m] = "given" =>
          /\ removed[m] = "given" /\ m \in seats' /\ m \in have' /\ book'.recipe # "none"
          /\ book'.given[m] # "no" /\ disk'.given[m] # "no"
    BY <1>0, <2>1 DEF ShareInv, Remembered
  <2> QED BY <1>0, <2>2, <2>3, <2>4, BookFrame
<1> QED BY <1>2, <1>3

\* The books told that a game or a seat has gone.  What is forgotten of a seat
\* is nothing that was remembered of it: it is not there.
LEMMA BooksAreTold ==
  ASSUME ShareInv,
         ForgetRecipe \/ \E s \in Members : ForgetMember(s)
  PROVE  ShareInv'
<1>0. /\ Tidy /\ UNCHANGED <<seats, up, have, entry>> /\ doing' \subseteq doing /\ Save
  BY DEF ShareInv, ForgetRecipe, ForgetMember, world
<1>1. /\ bounds' \in [changes : Nat, deletes : Nat, faults : Nat, crashes : Nat]
      /\ disk' = book' \/ disk' = disk
      /\ Written'
  BY <1>0, SaveWrites
<1>2. Apart'
  BY <1>0 DEF ShareInv, Apart
<1>3. CASE ForgetRecipe
  <2>1. /\ book' = [book EXCEPT !.recipe = "none"] /\ Soon /\ StillRemoved
    BY <1>3 DEF ForgetRecipe
  <2>2. Book(book)' /\ book'.recipe = "none" /\ book'.given = book.given
    BY <1>0, <2>1 DEF Tidy, Book, PerMember
  <2>3. RoundShaped' /\ (round' = round \/ round'.at = "begun")
    BY <1>0, <2>1, SoonShape
  <2>4. /\ PerMember(removed)'
        /\ \A m \in Members : removed'[m] # "given"
    BY <1>0, <2>1, <2>2, RemovedIsKept
  <2>5. Tidy'
    BY <1>0, <1>1, <2>2, <2>3, <2>4 DEF Tidy, RoundShaped, PerMember, Book
  <2>6. RoundKnows' \/ round' = round
    BY <2>3 DEF RoundKnows, AtMember
  <2> QED BY <1>1, <1>2, <2>2, <2>4, <2>5, <2>6, BookFrame
<1>4. ASSUME NEW s \in Members, ForgetMember(s) PROVE ShareInv'
  <2>1. /\ s \in doing /\ UNCHANGED <<round, removed>>
        /\ book' = [recipe |-> IF book.recipe = s THEN "nobody" ELSE book.recipe,
                    given |-> [book.given EXCEPT ![s] = "no"]]
    BY <1>4 DEF ForgetMember
  <2>2. /\ Book(book)'
        /\ book'.recipe = IF book.recipe = s THEN "nobody" ELSE book.recipe
        /\ \A m \in Members :
             book'.given[m] = IF m = s THEN "no" ELSE book.given[m]
    BY <1>0, <2>1 DEF Tidy, Book, PerMember
  <2>3. (book.recipe = "none") = (book'.recipe = "none")
    BY <2>2, HostIsMember, SharesNames
  <2>4. s \notin seats
    BY <2>1 DEF ShareInv, Apart
  <2>5. Tidy'
    BY <1>0, <1>1, <2>1, <2>2 DEF Tidy, PerMember, Book
  <2>6. \A m \in Members : removed'[m] = "given" =>
          /\ removed[m] = "given" /\ m \in seats' /\ m \in have' /\ book'.recipe # "none"
          /\ book'.given[m] # "no" /\ disk'.given[m] # "no"
    BY <1>0, <1>1, <2>1, <2>2, <2>3, <2>4 DEF ShareInv, Remembered
  <2>7. \A m \in Members : book.given[m] = "no" => book'.given[m] = "no"
    BY <2>2
  <2> QED BY <1>1, <1>2, <2>1, <2>3, <2>5, <2>6, <2>7, BookFrame
<1> QED BY <1>3, <1>4

\* The daemon reads the book again: what it remembers is in the file.
LEMMA Restarts == ASSUME ShareInv, Crash PROVE ShareInv'
<1>0. /\ Tidy /\ UNCHANGED <<seats, up, have, entry, disk>> /\ StillRemoved
      /\ book' = disk /\ doing' = {} /\ round' = Off
  BY DEF ShareInv, Crash, world
<1>1. BoundsKept
  BY <1>0, SpendKeeps DEF Crash
<1>2. /\ PerMember(removed)'
      /\ \A m \in Members : removed'[m] = "given" =>
           removed[m] = "given" /\ m \in have' /\ book'.recipe # "none"
  BY <1>0, RemovedIsKept
<1>3. RoundShaped' /\ RoundKnows'
  BY <1>0 DEF Off, RoundShaped, RoundKnows, AtMember
<1>4. Tidy'
  BY <1>0, <1>1, <1>2, <1>3 DEF Tidy, BoundsKept, RoundShaped, PerMember, Book
<1>5. Apart' /\ Written'
  BY <1>0 DEF ShareInv, Apart, Written
<1>6. Remembered'
  BY <1>0, <1>2 DEF ShareInv, Remembered
<1> QED BY <1>3, <1>4, <1>5, <1>6 DEF ShareInv

LEMMA SharesStutter ==
  ASSUME ShareInv, UNCHANGED shareVars PROVE ShareInv'
<1>1. UNCHANGED <<seats, up, have, entry, book, disk, doing, round, removed, bounds>>
  BY DEF shareVars, world, books
<1>2. m0' = m0
  BY <1>1 DEF m0
<1> QED BY <1>1, <1>2 DEF ShareInv, Tidy, PerMember, Book, Apart, Written, Remembered, RoundKnows

LEMMA NextShares ==
  ASSUME ShareInv, [ShareNext]_shareVars PROVE ShareInv'
<1>1. CASE Round
  BY <1>1, RoundLooks, RoundLearns, RoundDecides, RoundReaches, RoundForgets, RoundNotes
     DEF Round
<1>2. CASE Elsewhere
  BY <1>2, ElsewhereKeeps
<1>3. CASE Uninstall \/ \E m \in Members : PlayerRemovesFolder(m)
  BY <1>3, FoldersGo
<1>4. CASE ForgetRecipe \/ \E s \in Members : ForgetMember(s)
  BY <1>4, BooksAreTold
<1>5. CASE Crash
  BY <1>5, Restarts
<1>6. CASE \E s \in Members : Delete(s) \/ Create(s)
  BY <1>6, SeatsComeAndGo
<1>7. CASE \E s \in Members : PlayerRemovesEntry(s)
  BY <1>7, EntryRemoved
<1>8. CASE UNCHANGED shareVars
  BY <1>8, SharesStutter
<1> QED BY <1>1, <1>2, <1>3, <1>4, <1>5, <1>6, <1>7, <1>8 DEF ShareNext, Elsewhere

-----------------------------------------------------------------------------

\* The books and what players did agree, whatever fails and restarts.
THEOREM SharesInductive == ShareSpec => []ShareInv
<1>1. ShareInit => ShareInv
  BY InitShares
<1>2. ShareInv /\ [ShareNext]_shareVars => ShareInv'
  BY NextShares
<1> QED BY <1>1, <1>2, PTL DEF ShareSpec

\* Only a round's register writes an entry of the daemon's, and only where the
\* book has given none.
LEMMA OnlyRegisterWrites ==
  ASSUME ShareInv, [ShareNext]_shareVars, NEW m \in Members,
         entry[m] = "none", entry'[m] = "ours"
  PROVE  removed[m] # "given"
<1>0. Tidy
  BY DEF ShareInv
<1>1. ASSUME NEW k, NEW e, Becomes(k, e)
      PROVE  entry'[m] = entry[m] \/ (k = m /\ entry'[m] = e)
  BY <1>0, <1>1 DEF Tidy, PerMember, Becomes
<1>2. CASE Register
  <2>1. m = m0 /\ round.at = "register"
    <3>1. entry' = entry \/ \E e : Becomes(m0, e)
      BY <1>2, Zenon DEF Register
    <3> QED BY <1>1, <1>2, <3>1 DEF Register
  <2>2. book.given[m] = "no"
    BY <2>1 DEF ShareInv, RoundKnows
  <2> QED BY <2>2 DEF ShareInv, Remembered
<1>3. CASE Scan
  <2>1. entry' = entry \/ Becomes(m0, entry[m0])
        \/ Becomes(m0, "own")
    BY <1>3 DEF Scan
  <2> QED BY <1>1, <2>1
<1>4. CASE Unregister
  <2>1. entry' = entry \/ Becomes(m0, entry[m0])
        \/ Becomes(m0, "none")
    BY <1>4 DEF Unregister
  <2> QED BY <1>1, <2>1
<1>5. CASE \E k \in Members : Delete(k)
  BY <1>0, <1>5 DEF Tidy, PerMember, Delete
<1>6. CASE ShareHost \/ \E k \in Members :
             PlayerInstalls(k) \/ PlayerRemovesEntry(k)
  <2>1. \E k, e : Becomes(k, e) /\ e \in {"none", "home", "own", "odd"}
    BY <1>6, Zenon DEF ShareHost, PlayerInstalls, PlayerRemovesEntry
  <2> QED BY <1>1, <2>1
<1>7. CASE UNCHANGED entry
  BY <1>7
<1> QED
  BY <1>2, <1>3, <1>4, <1>5, <1>6, <1>7 DEF ShareNext, Round, RoundBegins,
     Learn, TakesRecipes, MemberBegins, Forget, Note,
     NothingElse, PassMoves, PassReports, PressSync,
     Uninstall, ForgetRecipe, MarkAll, Crash, ForgetMember,
     Create, TurnOn, TurnOff, PlayerOpens, PlayerCloses,
     PlayerRemovesFolder, world, shareVars

\* member (share.go:750-754): an entry that somebody removed by hand, where the
\* daemon knew it had written it, stays removed while the folder and its recipe
\* are there, over every failure, restart and deleted seat.
THEOREM RemovedStays == ShareSpec => RemovedStaysRemoved
<1> DEFINE Stays == \A m \in Members :
      entry[m] = "none" /\ entry'[m] = "ours" => removed[m] # "given"
<1>1. ShareInv /\ [ShareNext]_shareVars => [Stays]_shareVars
  BY OnlyRegisterWrites
<1>2. ShareSpec => [][Stays]_shareVars
  BY <1>1, SharesInductive, PTL DEF ShareSpec
<1> QED BY <1>2 DEF RemovedStaysRemoved
=============================================================================
