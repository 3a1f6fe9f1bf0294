------------------------------ MODULE PoolProofs ------------------------------
(***************************************************************************)
(* What was uninstalled everywhere stays out of the pool, for any members, *)
(* watched libraries, builds, failures and crashes, and however Steam and  *)
(* the passes interleave.                                                  *)
(*                                                                         *)
(* A pass looks at the record when it reads a library's manifest and       *)
(* writes the pool's several steps later.  That is safe because only the   *)
(* holder of the lock withholds a title (TakesOnlyAdmitted), it withholds  *)
(* it when the pool has none left (NotesWhenGone), and what is written is  *)
(* what is saved (SavedIsKnown): a crash between two steps brings back      *)
(* nothing else.                                                           *)
(*                                                                         *)
(* That refusals stick and that copies only go forward is proved for       *)
(* passes beside which no library changes: a pass acts on what it read of  *)
(* a library, and a Steam at work there makes both of it untrue.           *)
(***************************************************************************)
EXTENDS Pool, SequenceTheorems, TLAPS

\* Whoever copies or deletes does it at somebody.
AtSomebody == Taking \/ Giving \/ Dropping => todo # <<>>

TakesOnlyAdmitted == Taking => ~withheld

NotesWhenGone == at = "note" => ~Has(Pooled)

SavedIsKnown == saved.withheld => withheld \/ readmitted

PoolHasNone == withheld \/ saved.withheld => ~Has(Pooled) \/ readmitted

IInv ==
  /\ PoolTypeOK
  /\ AtSomebody
  /\ TakesOnlyAdmitted
  /\ NotesWhenGone
  /\ SavedIsKnown
  /\ PoolHasNone

USE DEF Places, people, probe, kept, record, holder

-----------------------------------------------------------------------------
(* The operators *)

LEMMA Roll ==
  /\ Members \subseteq Libraries
  /\ Order \in Seq(Libraries)
  /\ Watched \o Order \in Seq(Libraries)
  /\ <<>> \in Seq(Libraries)
<1>1. Members \subseteq Libraries
  BY DEF Libraries
<1>2. Order \in Seq(Libraries) /\ Watched \in Seq(Libraries)
  BY <1>1, OrderAssumption
<1> QED BY <1>1, <1>2

LEMMA HeadAndTail ==
  ASSUME PlaceTyped, todo # <<>>
  PROVE  Head(todo) \in Libraries /\ Tail(todo) \in Seq(Libraries)
<1>1. todo \in Seq(Libraries)
  BY DEF PlaceTyped
<1> QED BY <1>1

LEMMA WrittenTyped ==
  ASSUME CopiesTyped, NEW p, NEW s \in {"none", "working", "fresh", "settled"},
         NEW b \in 0..MaxBuild
  PROVE  Written(p, s, b) \in [Places -> Copy]
  BY DEF CopiesTyped, Written, Copy

LEMMA FilledTyped ==
  ASSUME CopiesTyped, NEW p, NEW t \in Partial..MaxBuild
  PROVE  Filled(p, t) \in [Places -> Copy]
  BY DEF CopiesTyped, Filled, Copy

LEMMA SmallNumbers ==
  0 \in 0..MaxBuild /\ 0 \in Partial..MaxBuild /\ Partial \in Partial..MaxBuild
  /\ 1..MaxBuild \subseteq 0..MaxBuild /\ 0..MaxBuild \subseteq Partial..MaxBuild
  BY PoolBounds DEF Partial

LEMMA FaultsBounded ==
  ASSUME Bounded, faults' = faults \/ (faults < MaxFaults /\ faults' = faults + 1)
  PROVE  faults' \in 0..MaxFaults
  BY PoolBounds DEF Bounded

\* Also when it follows a fault.
LEMMA SaveBounded ==
  ASSUME Bounded, NEW before \in {faults, faults + 1}, before <= MaxFaults,
         Save(before)
  PROVE  faults' \in 0..MaxFaults
<1>1. faults' = before \/ (before < MaxFaults /\ faults' = before + 1)
  BY DEF Save
<1> QED BY <1>1, PoolBounds DEF Bounded

LEMMA SaveTyped ==
  ASSUME RecordTyped, mark' \in Marks, withheld' \in BOOLEAN,
         NEW before, Save(before)
  PROVE  saved' \in [mark : Marks, withheld : BOOLEAN]
<1>1. [mark |-> mark', withheld |-> withheld'] \in [mark : Marks, withheld : BOOLEAN]
  OBVIOUS
<1> QED BY <1>1, Zenon DEF Save, RecordTyped

-----------------------------------------------------------------------------
(* The steps *)

LEMMA InitIInv == Init => IInv
<1> SUFFICES ASSUME Init PROVE IInv
  OBVIOUS
<1> USE DEF Init, Nothing
<1>1. CopiesTyped
  BY SmallNumbers DEF CopiesTyped, Copy
<1>2. PeopleTyped /\ Bounded
  BY PoolBounds DEF PeopleTyped, Bounded
<1>3. RecordTyped /\ LockTyped
  BY SmallNumbers DEF RecordTyped, Marks, LockTyped
<1>4. PlaceTyped
  BY DEF PlaceTyped, Points
<1>5. AtSomebody /\ TakesOnlyAdmitted /\ NotesWhenGone /\ SavedIsKnown /\ PoolHasNone
  BY DEF AtSomebody, TakesOnlyAdmitted, NotesWhenGone, SavedIsKnown, PoolHasNone,
     Taking, Giving, Dropping, Has
<1> QED BY <1>1, <1>2, <1>3, <1>4, <1>5 DEF IInv, PoolTypeOK

\* The people and their Steams: none of them has the pool's directory.
LEMMA PeopleKeep ==
  ASSUME IInv,
         NEW p \in Libraries,
         Install(p) \/ Update(p) \/ Finish(p) \/ Settle(p)
           \/ (p \in Members /\ UninstallHere(p))
           \/ (p \in Members /\ Play(p)) \/ (p \in Members /\ Quit(p))
  PROVE  IInv'
<1> USE DEF IInv, PoolTypeOK
<1>1. CASE Install(p)
  <2>1. CopiesTyped'
    BY <1>1, SmallNumbers DEF Install, Move, CopiesTyped, Copy
  <2>2. PeopleTyped'
    BY <1>1 DEF Install, Move, PeopleTyped
  <2>3. Bounded'
    BY <1>1, PoolBounds DEF Install, Move, Bounded
  <2>4. (NotesWhenGone /\ PoolHasNone)'
    BY <1>1, PooledAssumption DEF Install, Move, NotesWhenGone, Has,
       PoolHasNone
  <2>5. (RecordTyped /\ LockTyped /\ PlaceTyped /\ AtSomebody /\
     TakesOnlyAdmitted /\ SavedIsKnown)'
    BY <1>1 DEF Install, Move, RecordTyped, Marks, LockTyped, PlaceTyped,
       Points, AtSomebody, Taking, Giving, Dropping, TakesOnlyAdmitted,
       SavedIsKnown
  <2> QED BY <2>1, <2>2, <2>3, <2>4, <2>5
<1>2. CASE Update(p)
  <2>1. CopiesTyped'
    BY <1>2, SmallNumbers DEF Update, Move, CopiesTyped, Copy
  <2>2. Bounded'
    BY <1>2, PoolBounds DEF Update, Move, Bounded
  <2>3. (NotesWhenGone /\ PoolHasNone)'
    BY <1>2, PooledAssumption DEF Update, Move, NotesWhenGone, Has,
       PoolHasNone
  <2>4. (PeopleTyped /\ RecordTyped /\ LockTyped /\ PlaceTyped /\ AtSomebody
     /\ TakesOnlyAdmitted /\ SavedIsKnown)'
    BY <1>2 DEF Update, Move, PeopleTyped, RecordTyped, Marks, LockTyped,
       PlaceTyped, Points, AtSomebody, Taking, Giving, Dropping,
       TakesOnlyAdmitted, SavedIsKnown
  <2> QED BY <2>1, <2>2, <2>3, <2>4
<1>3. CASE Finish(p)
  <2>1. CopiesTyped'
    BY <1>3, SmallNumbers DEF Finish, CopiesTyped, Copy, PeopleTyped
  <2>2. (NotesWhenGone /\ PoolHasNone)'
    BY <1>3, PooledAssumption DEF Finish, NotesWhenGone, Has, PoolHasNone
  <2>3. (PeopleTyped /\ RecordTyped /\ LockTyped /\ PlaceTyped /\ Bounded /\
     AtSomebody /\ TakesOnlyAdmitted /\ SavedIsKnown)'
    BY <1>3 DEF Finish, PeopleTyped, RecordTyped, Marks, LockTyped,
       PlaceTyped, Points, Bounded, AtSomebody, Taking, Giving, Dropping,
       TakesOnlyAdmitted, SavedIsKnown
  <2> QED BY <2>1, <2>2, <2>3
<1>4. CASE Settle(p)
  <2>1. CopiesTyped'
    BY <1>4, SmallNumbers DEF Settle, CopiesTyped, Copy
  <2>2. (NotesWhenGone /\ PoolHasNone)'
    BY <1>4, PooledAssumption DEF Settle, NotesWhenGone, Has, PoolHasNone
  <2>3. (PeopleTyped /\ RecordTyped /\ LockTyped /\ PlaceTyped /\ Bounded /\
     AtSomebody /\ TakesOnlyAdmitted /\ SavedIsKnown)'
    BY <1>4 DEF Settle, PeopleTyped, RecordTyped, Marks, LockTyped,
       PlaceTyped, Points, Bounded, AtSomebody, Taking, Giving, Dropping,
       TakesOnlyAdmitted, SavedIsKnown
  <2> QED BY <2>1, <2>2, <2>3
<1>5. CASE (p \in Members /\ UninstallHere(p))
  <2>1. CopiesTyped'
    BY <1>5, SmallNumbers DEF UninstallHere, Move, Nothing, CopiesTyped, Copy
  <2>2. PeopleTyped'
    BY <1>5 DEF UninstallHere, Move, Nothing, PeopleTyped
  <2>3. Bounded'
    BY <1>5, PoolBounds DEF UninstallHere, Move, Nothing, Bounded
  <2>4. (NotesWhenGone /\ PoolHasNone)'
    BY <1>5, PooledAssumption DEF UninstallHere, Move, Nothing,
       NotesWhenGone, Has, PoolHasNone
  <2>5. (RecordTyped /\ LockTyped /\ PlaceTyped /\ AtSomebody /\
     TakesOnlyAdmitted /\ SavedIsKnown)'
    BY <1>5 DEF UninstallHere, Move, Nothing, RecordTyped, Marks, LockTyped,
       PlaceTyped, Points, AtSomebody, Taking, Giving, Dropping,
       TakesOnlyAdmitted, SavedIsKnown
  <2> QED BY <2>1, <2>2, <2>3, <2>4, <2>5
<1>6. CASE (p \in Members /\ Play(p))
  <2>1. PeopleTyped'
    BY <1>6 DEF Play, Move, PeopleTyped
  <2>2. Bounded'
    BY <1>6, PoolBounds DEF Play, Move, Bounded
  <2>3. (CopiesTyped /\ RecordTyped /\ LockTyped /\ PlaceTyped /\ AtSomebody
     /\ TakesOnlyAdmitted /\ NotesWhenGone /\ SavedIsKnown /\ PoolHasNone)'
    BY <1>6 DEF Play, Move, CopiesTyped, RecordTyped, Marks, LockTyped,
       PlaceTyped, Points, AtSomebody, Taking, Giving, Dropping,
       TakesOnlyAdmitted, NotesWhenGone, Has, SavedIsKnown, PoolHasNone
  <2> QED BY <2>1, <2>2, <2>3
<1>7. CASE (p \in Members /\ Quit(p))
  <2>1. PeopleTyped'
    BY <1>7 DEF Quit, PeopleTyped
  <2>2. (CopiesTyped /\ RecordTyped /\ LockTyped /\ PlaceTyped /\ Bounded /\
     AtSomebody /\ TakesOnlyAdmitted /\ NotesWhenGone /\ SavedIsKnown /\
     PoolHasNone)'
    BY <1>7 DEF Quit, CopiesTyped, RecordTyped, Marks, LockTyped, PlaceTyped,
       Points, Bounded, AtSomebody, Taking, Giving, Dropping,
       TakesOnlyAdmitted, NotesWhenGone, Has, SavedIsKnown, PoolHasNone
  <2> QED BY <2>1, <2>2
<1> QED BY <1>1, <1>2, <1>3, <1>4, <1>5, <1>6, <1>7

\* A pass before and between its copies.
LEMMA PassKeeps ==
  ASSUME IInv,
         Probe \/ SyncBegins \/ Look \/ ReadPool \/ Offered \/ CopyFails
           \/ SyncEnds
  PROVE  IInv'
<1> USE DEF IInv, PoolTypeOK
<1>1. CASE Probe
  <2>1. LockTyped'
    BY <1>1 DEF Probe, LockTyped
  <2>2. (CopiesTyped /\ PeopleTyped /\ RecordTyped /\ PlaceTyped /\ Bounded
     /\ AtSomebody /\ TakesOnlyAdmitted /\ NotesWhenGone /\ SavedIsKnown /\
     PoolHasNone)'
    BY <1>1 DEF Probe, CopiesTyped, PeopleTyped, RecordTyped, Marks,
       PlaceTyped, Points, Bounded, AtSomebody, Taking, Giving, Dropping,
       TakesOnlyAdmitted, NotesWhenGone, Has, SavedIsKnown, PoolHasNone
  <2> QED BY <2>1, <2>2
<1>2. CASE SyncBegins
  <2>1. LockTyped'
    BY <1>2 DEF SyncBegins, LockTyped
  <2>2. PlaceTyped'
    BY <1>2, Roll DEF SyncBegins, PlaceTyped, Points
  <2>3. (AtSomebody /\ TakesOnlyAdmitted /\ NotesWhenGone)'
    BY <1>2 DEF SyncBegins, AtSomebody, Taking, Giving, Dropping,
       TakesOnlyAdmitted, NotesWhenGone, Has
  <2>4. (CopiesTyped /\ PeopleTyped /\ RecordTyped /\ Bounded /\ SavedIsKnown
     /\ PoolHasNone)'
    BY <1>2 DEF SyncBegins, CopiesTyped, PeopleTyped, RecordTyped, Marks,
       Bounded, SavedIsKnown, PoolHasNone, Has
  <2> QED BY <2>1, <2>2, <2>3, <2>4
<1>3. CASE Look
  <2>1. RecordTyped'
    BY <1>3 DEF Look, NextIn, RecordTyped, Marks, Mark
  <2>2. LockTyped'
    BY <1>3, HeadAndTail DEF Look, NextIn, LockTyped, CopiesTyped, Copy,
       WorthTaking
  <2>3. PlaceTyped'
    BY <1>3, HeadAndTail DEF Look, NextIn, PlaceTyped, Points
  <2>4. (AtSomebody /\ TakesOnlyAdmitted /\ NotesWhenGone)'
    BY <1>3 DEF Look, NextIn, AtSomebody, Taking, Giving, Dropping,
       TakesOnlyAdmitted, NotesWhenGone, Has, WorthTaking
  <2>5. SavedIsKnown'
    BY <1>3 DEF Look, NextIn, SavedIsKnown, Mark
  <2>6. (CopiesTyped /\ PeopleTyped /\ Bounded /\ PoolHasNone)'
    BY <1>3 DEF Look, NextIn, CopiesTyped, PeopleTyped, Bounded, PoolHasNone,
       Has
  <2> QED BY <2>1, <2>2, <2>3, <2>4, <2>5, <2>6
<1>4. CASE ReadPool
  <2>1. LockTyped'
    BY <1>4, PooledAssumption DEF ReadPool, Step, LockTyped, CopiesTyped,
       Copy
  <2>2. PlaceTyped'
    BY <1>4, Roll DEF ReadPool, Step, PlaceTyped, Points
  <2>3. (AtSomebody /\ TakesOnlyAdmitted /\ NotesWhenGone)'
    BY <1>4 DEF ReadPool, Step, AtSomebody, Taking, Giving, Dropping,
       TakesOnlyAdmitted, NotesWhenGone, Has
  <2>4. (CopiesTyped /\ PeopleTyped /\ RecordTyped /\ Bounded /\ SavedIsKnown
     /\ PoolHasNone)'
    BY <1>4 DEF ReadPool, Step, CopiesTyped, PeopleTyped, RecordTyped, Marks,
       Bounded, SavedIsKnown, PoolHasNone, Has
  <2> QED BY <2>1, <2>2, <2>3, <2>4
<1>5. CASE Offered
  <2>1. RecordTyped'
    BY <1>5 DEF Offered, NextIn, RecordTyped, Marks
  <2>2. LockTyped'
    BY <1>5 DEF Offered, NextIn, LockTyped
  <2>3. PlaceTyped'
    BY <1>5, HeadAndTail DEF Offered, NextIn, PlaceTyped, Points
  <2>4. (AtSomebody /\ TakesOnlyAdmitted /\ NotesWhenGone)'
    BY <1>5 DEF Offered, NextIn, AtSomebody, Taking, Giving, Dropping,
       TakesOnlyAdmitted, NotesWhenGone, Has
  <2>5. SavedIsKnown'
    BY <1>5 DEF Offered, NextIn, SavedIsKnown
  <2>6. (CopiesTyped /\ PeopleTyped /\ Bounded /\ PoolHasNone)'
    BY <1>5 DEF Offered, NextIn, CopiesTyped, PeopleTyped, Bounded,
       PoolHasNone, Has
  <2> QED BY <2>1, <2>2, <2>3, <2>4, <2>5, <2>6
<1>6. CASE CopyFails
  <2>1. LockTyped'
    BY <1>6, SmallNumbers DEF CopyFails, NextIn, LockTyped
  <2>2. Bounded'
    <3>1. faults' = faults \/ (faults < MaxFaults /\ faults' = faults + 1)
      BY <1>6 DEF CopyFails
    <3>2. moves' = moves /\ crashes' = crashes
      BY <1>6 DEF CopyFails
    <3> QED BY <3>1, <3>2, FaultsBounded DEF Bounded
  <2>3. PlaceTyped'
    BY <1>6, HeadAndTail DEF CopyFails, NextIn, PlaceTyped, Points,
       AtSomebody, Taking, Giving, Dropping
  <2>4. (AtSomebody /\ TakesOnlyAdmitted /\ NotesWhenGone)'
    BY <1>6 DEF CopyFails, NextIn, AtSomebody, Taking, Giving, Dropping,
       TakesOnlyAdmitted, NotesWhenGone, Has
  <2>5. (CopiesTyped /\ PeopleTyped /\ RecordTyped /\ SavedIsKnown /\
     PoolHasNone)'
    BY <1>6 DEF CopyFails, NextIn, CopiesTyped, PeopleTyped, RecordTyped,
       Marks, SavedIsKnown, PoolHasNone, Has
  <2> QED BY <2>1, <2>2, <2>3, <2>4, <2>5
<1>7. CASE SyncEnds
  <2>1. RecordTyped'
    BY <1>7 DEF SyncEnds, Save, RecordTyped, Marks
  <2>2. LockTyped'
    BY <1>7, SmallNumbers DEF SyncEnds, Save, LockTyped
  <2>3. PlaceTyped'
    BY <1>7 DEF SyncEnds, Save, PlaceTyped, Points
  <2>4. (AtSomebody /\ TakesOnlyAdmitted /\ NotesWhenGone)'
    BY <1>7 DEF SyncEnds, Save, AtSomebody, Taking, Giving, Dropping,
       TakesOnlyAdmitted, NotesWhenGone, Has
  <2>5. SavedIsKnown'
    BY <1>7 DEF SyncEnds, Save, SavedIsKnown
  <2>6. Bounded'
    <3>1. faults' \in 0..MaxFaults
      BY <1>7, SaveBounded, PoolBounds DEF SyncEnds, Bounded
    <3> QED BY <1>7, <3>1 DEF SyncEnds, Bounded
  <2>7. (CopiesTyped /\ PeopleTyped /\ PoolHasNone)'
    BY <1>7 DEF SyncEnds, Save, CopiesTyped, PeopleTyped, PoolHasNone, Has
  <2> QED BY <2>1, <2>2, <2>3, <2>4, <2>5, <2>6, <2>7
<1> QED BY <1>1, <1>2, <1>3, <1>4, <1>5, <1>6, <1>7

\* A copy, on its way into the pool or out of it.
LEMMA CopyKeeps ==
  ASSUME IInv,
         Stage("take", "takeAside") \/ Stage("give", "giveAside")
           \/ Aside("takeAside", "takePlace")
           \/ Aside("giveAside", "givePlace")
           \/ Place("takePlace", "takeManifest")
           \/ Place("givePlace", "giveManifest")
           \/ Manifest("takeManifest", "look")
           \/ Manifest("giveManifest", "offer")
  PROVE  IInv'
<1> USE DEF IInv, PoolTypeOK
<1>1. CASE Stage("take", "takeAside")
  <2>1. LockTyped'
    BY <1>1, HeadAndTail, PooledAssumption DEF Stage, Step, LockTyped, From,
       CopiesTyped, Copy, AtSomebody, Taking, Giving, Dropping
  <2>2. PlaceTyped'
    BY <1>1 DEF Stage, Step, PlaceTyped, Points
  <2>3. (AtSomebody /\ TakesOnlyAdmitted /\ NotesWhenGone)'
    BY <1>1 DEF Stage, Step, AtSomebody, Taking, Giving, Dropping,
       TakesOnlyAdmitted, NotesWhenGone, Has
  <2>4. (CopiesTyped /\ PeopleTyped /\ RecordTyped /\ Bounded /\ SavedIsKnown
     /\ PoolHasNone)'
    BY <1>1 DEF Stage, Step, CopiesTyped, PeopleTyped, RecordTyped, Marks,
       Bounded, SavedIsKnown, PoolHasNone, Has
  <2> QED BY <2>1, <2>2, <2>3, <2>4
<1>2. CASE Stage("give", "giveAside")
  <2>1. LockTyped'
    BY <1>2, HeadAndTail, PooledAssumption DEF Stage, Step, LockTyped, From,
       CopiesTyped, Copy, AtSomebody, Taking, Giving, Dropping
  <2>2. PlaceTyped'
    BY <1>2 DEF Stage, Step, PlaceTyped, Points
  <2>3. (AtSomebody /\ TakesOnlyAdmitted /\ NotesWhenGone)'
    BY <1>2 DEF Stage, Step, AtSomebody, Taking, Giving, Dropping,
       TakesOnlyAdmitted, NotesWhenGone, Has
  <2>4. (CopiesTyped /\ PeopleTyped /\ RecordTyped /\ Bounded /\ SavedIsKnown
     /\ PoolHasNone)'
    BY <1>2 DEF Stage, Step, CopiesTyped, PeopleTyped, RecordTyped, Marks,
       Bounded, SavedIsKnown, PoolHasNone, Has
  <2> QED BY <2>1, <2>2, <2>3, <2>4
<1>3. CASE Aside("takeAside", "takePlace")
  <2>1. CopiesTyped'
    BY <1>3, FilledTyped, SmallNumbers DEF Aside, Step, CopiesTyped
  <2>2. PlaceTyped'
    BY <1>3 DEF Aside, Step, PlaceTyped, Points
  <2>3. (AtSomebody /\ TakesOnlyAdmitted /\ NotesWhenGone)'
    BY <1>3 DEF Aside, Step, AtSomebody, Taking, Giving, Dropping,
       TakesOnlyAdmitted, NotesWhenGone, Has
  <2>4. PoolHasNone'
    BY <1>3 DEF Aside, Step, PoolHasNone, Has, Filled, CopiesTyped, Copy
  <2>5. (PeopleTyped /\ RecordTyped /\ LockTyped /\ Bounded /\ SavedIsKnown)'
    BY <1>3 DEF Aside, Step, PeopleTyped, RecordTyped, Marks, LockTyped,
       Bounded, SavedIsKnown
  <2> QED BY <2>1, <2>2, <2>3, <2>4, <2>5
<1>4. CASE Aside("giveAside", "givePlace")
  <2>1. CopiesTyped'
    BY <1>4, FilledTyped, SmallNumbers DEF Aside, Step, CopiesTyped
  <2>2. PlaceTyped'
    BY <1>4 DEF Aside, Step, PlaceTyped, Points
  <2>3. (AtSomebody /\ TakesOnlyAdmitted /\ NotesWhenGone)'
    BY <1>4 DEF Aside, Step, AtSomebody, Taking, Giving, Dropping,
       TakesOnlyAdmitted, NotesWhenGone, Has
  <2>4. PoolHasNone'
    BY <1>4 DEF Aside, Step, PoolHasNone, Has, Filled, CopiesTyped, Copy
  <2>5. (PeopleTyped /\ RecordTyped /\ LockTyped /\ Bounded /\ SavedIsKnown)'
    BY <1>4 DEF Aside, Step, PeopleTyped, RecordTyped, Marks, LockTyped,
       Bounded, SavedIsKnown
  <2> QED BY <2>1, <2>2, <2>3, <2>4, <2>5
<1>5. CASE Place("takePlace", "takeManifest")
  <2>1. CopiesTyped'
    BY <1>5, FilledTyped DEF Place, Step, CopiesTyped, LockTyped
  <2>2. LockTyped'
    BY <1>5, SmallNumbers DEF Place, Step, LockTyped
  <2>3. PlaceTyped'
    BY <1>5 DEF Place, Step, PlaceTyped, Points
  <2>4. (AtSomebody /\ TakesOnlyAdmitted /\ NotesWhenGone)'
    BY <1>5 DEF Place, Step, AtSomebody, Taking, Giving, Dropping,
       TakesOnlyAdmitted, NotesWhenGone, Has
  <2>5. PoolHasNone'
    BY <1>5 DEF Place, Step, PoolHasNone, Has, Filled, CopiesTyped, Copy
  <2>6. (PeopleTyped /\ RecordTyped /\ Bounded /\ SavedIsKnown)'
    BY <1>5 DEF Place, Step, PeopleTyped, RecordTyped, Marks, Bounded,
       SavedIsKnown
  <2> QED BY <2>1, <2>2, <2>3, <2>4, <2>5, <2>6
<1>6. CASE Place("givePlace", "giveManifest")
  <2>1. CopiesTyped'
    BY <1>6, FilledTyped DEF Place, Step, CopiesTyped, LockTyped
  <2>2. LockTyped'
    BY <1>6, SmallNumbers DEF Place, Step, LockTyped
  <2>3. PlaceTyped'
    BY <1>6 DEF Place, Step, PlaceTyped, Points
  <2>4. (AtSomebody /\ TakesOnlyAdmitted /\ NotesWhenGone)'
    BY <1>6 DEF Place, Step, AtSomebody, Taking, Giving, Dropping,
       TakesOnlyAdmitted, NotesWhenGone, Has
  <2>5. PoolHasNone'
    BY <1>6 DEF Place, Step, PoolHasNone, Has, Filled, CopiesTyped, Copy
  <2>6. (PeopleTyped /\ RecordTyped /\ Bounded /\ SavedIsKnown)'
    BY <1>6 DEF Place, Step, PeopleTyped, RecordTyped, Marks, Bounded,
       SavedIsKnown
  <2> QED BY <2>1, <2>2, <2>3, <2>4, <2>5, <2>6
<1>7. CASE Manifest("takeManifest", "look")
  <2>1. CopiesTyped'
    BY <1>7, WrittenTyped DEF Manifest, Step, CopiesTyped, LockTyped, To
  <2>2. RecordTyped'
    BY <1>7 DEF Manifest, Step, RecordTyped, Marks, Mark
  <2>3. PlaceTyped'
    BY <1>7, HeadAndTail DEF Manifest, Step, PlaceTyped, Points, AtSomebody,
       Taking, Giving, Dropping
  <2>4. (AtSomebody /\ TakesOnlyAdmitted /\ NotesWhenGone)'
    BY <1>7 DEF Manifest, Step, AtSomebody, Taking, Giving, Dropping,
       TakesOnlyAdmitted, NotesWhenGone, Has
  <2>5. SavedIsKnown'
    BY <1>7 DEF Manifest, Step, SavedIsKnown, Mark
  <2>6. PoolHasNone'
    BY <1>7 DEF Manifest, Step, PoolHasNone, Has, To, Taking, Written,
       CopiesTyped, TakesOnlyAdmitted, SavedIsKnown
  <2>7. (PeopleTyped /\ LockTyped /\ Bounded)'
    BY <1>7 DEF Manifest, Step, PeopleTyped, LockTyped, Bounded
  <2> QED BY <2>1, <2>2, <2>3, <2>4, <2>5, <2>6, <2>7
<1>8. CASE Manifest("giveManifest", "offer")
  <2>1. CopiesTyped'
    BY <1>8, WrittenTyped DEF Manifest, Step, CopiesTyped, LockTyped, To
  <2>2. RecordTyped'
    BY <1>8 DEF Manifest, Step, RecordTyped, Marks, Mark
  <2>3. PlaceTyped'
    BY <1>8, HeadAndTail DEF Manifest, Step, PlaceTyped, Points, AtSomebody,
       Taking, Giving, Dropping
  <2>4. (AtSomebody /\ TakesOnlyAdmitted /\ NotesWhenGone)'
    BY <1>8 DEF Manifest, Step, AtSomebody, Taking, Giving, Dropping,
       TakesOnlyAdmitted, NotesWhenGone, Has
  <2>5. SavedIsKnown'
    BY <1>8 DEF Manifest, Step, SavedIsKnown, Mark
  <2>6. PoolHasNone'
    BY <1>8, HeadAndTail, PooledAssumption DEF Manifest, Step, PoolHasNone,
       Has, To, Taking, Written, CopiesTyped, AtSomebody, Giving, Dropping
  <2>7. (PeopleTyped /\ LockTyped /\ Bounded)'
    BY <1>8 DEF Manifest, Step, PeopleTyped, LockTyped, Bounded
  <2> QED BY <2>1, <2>2, <2>3, <2>4, <2>5, <2>6, <2>7
<1> QED BY <1>1, <1>2, <1>3, <1>4, <1>5, <1>6, <1>7, <1>8

\* An uninstall, and what the interface does else, a new build and a crash.
LEMMA ButtonsKeep ==
  ASSUME IInv,
         AskUninstall \/ RefuseUninstall \/ BeginUninstall \/ PassOver
           \/ DropManifest \/ DropFiles \/ DropFails \/ ClearFiles
           \/ ClearManifest \/ ClearFails \/ Note \/ Readmit
           \/ (\E m \in Members : Offer(m)) \/ NewBuild \/ DaemonRestarts
  PROVE  IInv'
<1> USE DEF IInv, PoolTypeOK
<1>1. CASE AskUninstall
  <2>1. LockTyped'
    BY <1>1 DEF AskUninstall, LockTyped
  <2>2. PlaceTyped'
    BY <1>1 DEF AskUninstall, PlaceTyped, Points
  <2>3. (AtSomebody /\ TakesOnlyAdmitted /\ NotesWhenGone)'
    BY <1>1 DEF AskUninstall, AtSomebody, Taking, Giving, Dropping,
       TakesOnlyAdmitted, NotesWhenGone, Has
  <2>4. (CopiesTyped /\ PeopleTyped /\ RecordTyped /\ Bounded /\ SavedIsKnown
     /\ PoolHasNone)'
    BY <1>1 DEF AskUninstall, CopiesTyped, PeopleTyped, RecordTyped, Marks,
       Bounded, SavedIsKnown, PoolHasNone, Has
  <2> QED BY <2>1, <2>2, <2>3, <2>4
<1>2. CASE RefuseUninstall
  <2>1. LockTyped'
    BY <1>2 DEF RefuseUninstall, LockTyped
  <2>2. PlaceTyped'
    BY <1>2 DEF RefuseUninstall, PlaceTyped, Points
  <2>3. (AtSomebody /\ TakesOnlyAdmitted /\ NotesWhenGone)'
    BY <1>2 DEF RefuseUninstall, AtSomebody, Taking, Giving, Dropping,
       TakesOnlyAdmitted, NotesWhenGone, Has
  <2>4. (CopiesTyped /\ PeopleTyped /\ RecordTyped /\ Bounded /\ SavedIsKnown
     /\ PoolHasNone)'
    BY <1>2 DEF RefuseUninstall, CopiesTyped, PeopleTyped, RecordTyped,
       Marks, Bounded, SavedIsKnown, PoolHasNone, Has
  <2> QED BY <2>1, <2>2, <2>3, <2>4
<1>3. CASE BeginUninstall
  <2>1. LockTyped'
    BY <1>3, PoolBounds DEF BeginUninstall, LockTyped
  <2>2. PlaceTyped'
    BY <1>3, Roll DEF BeginUninstall, PlaceTyped, Points
  <2>3. (AtSomebody /\ TakesOnlyAdmitted /\ NotesWhenGone)'
    BY <1>3 DEF BeginUninstall, AtSomebody, Taking, Giving, Dropping,
       TakesOnlyAdmitted, NotesWhenGone, Has
  <2>4. (CopiesTyped /\ PeopleTyped /\ RecordTyped /\ Bounded /\ SavedIsKnown
     /\ PoolHasNone)'
    BY <1>3 DEF BeginUninstall, CopiesTyped, PeopleTyped, RecordTyped, Marks,
       Bounded, SavedIsKnown, PoolHasNone, Has
  <2> QED BY <2>1, <2>2, <2>3, <2>4
<1>4. CASE PassOver
  <2>1. PlaceTyped'
    BY <1>4, HeadAndTail DEF PassOver, NextIn, PlaceTyped, Points
  <2>2. (AtSomebody /\ TakesOnlyAdmitted /\ NotesWhenGone)'
    BY <1>4 DEF PassOver, NextIn, AtSomebody, Taking, Giving, Dropping,
       TakesOnlyAdmitted, NotesWhenGone, Has
  <2>3. (CopiesTyped /\ PeopleTyped /\ RecordTyped /\ LockTyped /\ Bounded /\
     SavedIsKnown /\ PoolHasNone)'
    BY <1>4 DEF PassOver, NextIn, CopiesTyped, PeopleTyped, RecordTyped,
       Marks, LockTyped, Bounded, SavedIsKnown, PoolHasNone, Has
  <2> QED BY <2>1, <2>2, <2>3
<1>5. CASE DropManifest
  <2>1. CopiesTyped'
    BY <1>5, WrittenTyped, SmallNumbers DEF DropManifest, CopiesTyped
  <2>2. PeopleTyped'
    BY <1>5 DEF DropManifest, PeopleTyped
  <2>3. PlaceTyped'
    BY <1>5 DEF DropManifest, PlaceTyped, Points
  <2>4. (AtSomebody /\ TakesOnlyAdmitted /\ NotesWhenGone)'
    BY <1>5 DEF DropManifest, AtSomebody, Taking, Giving, Dropping,
       TakesOnlyAdmitted, NotesWhenGone, Has
  <2>5. PoolHasNone'
    BY <1>5 DEF DropManifest, PoolHasNone, Has, Written, CopiesTyped
  <2>6. (RecordTyped /\ LockTyped /\ Bounded /\ SavedIsKnown)'
    BY <1>5 DEF DropManifest, RecordTyped, Marks, LockTyped, Bounded,
       SavedIsKnown
  <2> QED BY <2>1, <2>2, <2>3, <2>4, <2>5, <2>6
<1>6. CASE DropFiles
  <2>1. CopiesTyped'
    BY <1>6, FilledTyped, SmallNumbers DEF DropFiles, NextIn, CopiesTyped
  <2>2. PlaceTyped'
    BY <1>6, HeadAndTail DEF DropFiles, NextIn, PlaceTyped, Points,
       AtSomebody, Taking, Giving, Dropping
  <2>3. (AtSomebody /\ TakesOnlyAdmitted /\ NotesWhenGone)'
    BY <1>6 DEF DropFiles, NextIn, AtSomebody, Taking, Giving, Dropping,
       TakesOnlyAdmitted, NotesWhenGone, Has
  <2>4. PoolHasNone'
    BY <1>6 DEF DropFiles, NextIn, PoolHasNone, Has, Filled, CopiesTyped,
       Copy
  <2>5. (PeopleTyped /\ RecordTyped /\ LockTyped /\ Bounded /\ SavedIsKnown)'
    BY <1>6 DEF DropFiles, NextIn, PeopleTyped, RecordTyped, Marks,
       LockTyped, Bounded, SavedIsKnown
  <2> QED BY <2>1, <2>2, <2>3, <2>4, <2>5
<1>7. CASE DropFails
  <2>1. RecordTyped'
    BY <1>7 DEF DropFails, Save, RecordTyped, Marks
  <2>2. LockTyped'
    BY <1>7, SmallNumbers DEF DropFails, Save, LockTyped
  <2>3. Bounded'
    <3>1. faults' \in 0..MaxFaults
      BY <1>7, SaveBounded, PoolBounds DEF DropFails, Bounded
    <3> QED BY <1>7, <3>1 DEF DropFails, Bounded
  <2>4. PlaceTyped'
    BY <1>7, Roll DEF DropFails, Save, PlaceTyped, Points
  <2>5. (AtSomebody /\ TakesOnlyAdmitted /\ NotesWhenGone)'
    BY <1>7 DEF DropFails, Save, AtSomebody, Taking, Giving, Dropping,
       TakesOnlyAdmitted, NotesWhenGone, Has
  <2>6. SavedIsKnown'
    BY <1>7 DEF DropFails, Save, SavedIsKnown
  <2>7. (CopiesTyped /\ PeopleTyped /\ PoolHasNone)'
    BY <1>7 DEF DropFails, Save, CopiesTyped, PeopleTyped, PoolHasNone, Has
  <2> QED BY <2>1, <2>2, <2>3, <2>4, <2>5, <2>6, <2>7
<1>8. CASE ClearFiles
  <2>1. CopiesTyped'
    BY <1>8, FilledTyped, SmallNumbers DEF ClearFiles, CopiesTyped
  <2>2. PlaceTyped'
    BY <1>8 DEF ClearFiles, PlaceTyped, Points
  <2>3. (AtSomebody /\ TakesOnlyAdmitted)'
    BY <1>8 DEF ClearFiles, AtSomebody, Taking, Giving, Dropping,
       TakesOnlyAdmitted
  <2>4. NotesWhenGone'
    BY <1>8 DEF ClearFiles, NotesWhenGone, Has
  <2>5. PoolHasNone'
    BY <1>8 DEF ClearFiles, PoolHasNone, Has, Filled, CopiesTyped, Copy
  <2>6. (PeopleTyped /\ RecordTyped /\ LockTyped /\ Bounded /\ SavedIsKnown)'
    BY <1>8 DEF ClearFiles, PeopleTyped, RecordTyped, Marks, LockTyped,
       Bounded, SavedIsKnown
  <2> QED BY <2>1, <2>2, <2>3, <2>4, <2>5, <2>6
<1>9. CASE ClearManifest
  <2>1. CopiesTyped'
    BY <1>9, WrittenTyped, SmallNumbers DEF ClearManifest, CopiesTyped
  <2>2. PlaceTyped'
    BY <1>9 DEF ClearManifest, PlaceTyped, Points
  <2>3. (AtSomebody /\ TakesOnlyAdmitted)'
    BY <1>9 DEF ClearManifest, AtSomebody, Taking, Giving, Dropping,
       TakesOnlyAdmitted
  <2>4. NotesWhenGone'
    BY <1>9 DEF ClearManifest, NotesWhenGone, Has, Written, CopiesTyped
  <2>5. PoolHasNone'
    BY <1>9 DEF ClearManifest, PoolHasNone, Has, Written, CopiesTyped
  <2>6. (PeopleTyped /\ RecordTyped /\ LockTyped /\ Bounded /\ SavedIsKnown)'
    BY <1>9 DEF ClearManifest, PeopleTyped, RecordTyped, Marks, LockTyped,
       Bounded, SavedIsKnown
  <2> QED BY <2>1, <2>2, <2>3, <2>4, <2>5, <2>6
<1>10. CASE ClearFails
  <2>1. LockTyped'
    BY <1>10, SmallNumbers DEF ClearFails, LockTyped
  <2>2. Bounded'
    BY <1>10, PoolBounds DEF ClearFails, Bounded
  <2>3. PlaceTyped'
    BY <1>10 DEF ClearFails, PlaceTyped, Points
  <2>4. (AtSomebody /\ TakesOnlyAdmitted /\ NotesWhenGone)'
    BY <1>10 DEF ClearFails, AtSomebody, Taking, Giving, Dropping,
       TakesOnlyAdmitted, NotesWhenGone, Has
  <2>5. (CopiesTyped /\ PeopleTyped /\ RecordTyped /\ SavedIsKnown /\
     PoolHasNone)'
    BY <1>10 DEF ClearFails, CopiesTyped, PeopleTyped, RecordTyped, Marks,
       SavedIsKnown, PoolHasNone, Has
  <2> QED BY <2>1, <2>2, <2>3, <2>4, <2>5
<1>11. CASE Note
  <2>1. PeopleTyped'
    BY <1>11 DEF Note, Save, PeopleTyped
  <2>2. RecordTyped'
    <3>1. mark' \in Marks /\ withheld' \in BOOLEAN /\ readmitted' \in BOOLEAN
      BY <1>11, Zenon DEF Note, RecordTyped, Marks
    <3> QED BY <1>11, <3>1, SaveTyped DEF Note, RecordTyped
  <2>3. LockTyped'
    BY <1>11, SmallNumbers DEF Note, Save, LockTyped
  <2>4. PlaceTyped'
    BY <1>11 DEF Note, Save, PlaceTyped, Points
  <2>5. (AtSomebody /\ TakesOnlyAdmitted /\ NotesWhenGone)'
    BY <1>11 DEF Note, Save, AtSomebody, Taking, Giving, Dropping,
       TakesOnlyAdmitted, NotesWhenGone, Has
  <2>6. SavedIsKnown'
    <3>1. withheld => withheld'
      BY <1>11 DEF Note
    <3>2. ~withheld' => readmitted' = readmitted
      BY <1>11, Zenon DEF Note, RecordTyped
    <3>3. saved'.withheld => withheld' \/ saved.withheld
      BY <1>11 DEF Note, Save
    <3> QED BY <3>1, <3>2, <3>3 DEF SavedIsKnown
  <2>7. PoolHasNone'
    BY <1>11 DEF Note, Save, PoolHasNone, Has, NotesWhenGone
  <2>8. CopiesTyped'
    BY <1>11 DEF Note, CopiesTyped
  <2>9. Bounded'
    <3>1. faults' \in 0..MaxFaults
      BY <1>11, SaveBounded, PoolBounds DEF Note, Bounded
    <3> QED BY <1>11, <3>1 DEF Note, Bounded
  <2> QED BY <2>1, <2>2, <2>3, <2>4, <2>5, <2>6, <2>7, <2>8, <2>9
<1>12. CASE Readmit
  <2>1. Bounded'
    <3>1. faults' \in 0..MaxFaults
      BY <1>12, SaveBounded, PoolBounds DEF Readmit, Bounded
    <3> QED BY <1>12, <3>1 DEF Readmit, Bounded
  <2>2. RecordTyped'
    <3>1. mark' \in Marks /\ withheld' \in BOOLEAN /\ readmitted' \in BOOLEAN
      BY <1>12 DEF Readmit, RecordTyped
    <3> QED BY <1>12, <3>1, SaveTyped DEF Readmit, RecordTyped
  <2>3. (AtSomebody /\ TakesOnlyAdmitted /\ NotesWhenGone)'
    BY <1>12 DEF Readmit, Save, AtSomebody, Taking, Giving, Dropping,
       TakesOnlyAdmitted, NotesWhenGone, Has
  <2>4. SavedIsKnown'
    BY <1>12 DEF Readmit, Save, SavedIsKnown
  <2>5. PoolHasNone'
    BY <1>12 DEF Readmit, Save, PoolHasNone, Has
  <2>6. (CopiesTyped /\ PeopleTyped /\ LockTyped /\ PlaceTyped)'
    BY <1>12 DEF Readmit, Save, CopiesTyped, PeopleTyped, LockTyped,
       PlaceTyped, Points
  <2> QED BY <2>1, <2>2, <2>3, <2>4, <2>5, <2>6
<1>13. CASE (\E m \in Members : Offer(m))
  <2>1. PeopleTyped'
    BY <1>13 DEF Offer, Save, PeopleTyped
  <2>2. Bounded'
    <3>1. faults' \in 0..MaxFaults
      BY <1>13, SaveBounded, PoolBounds DEF Offer, Bounded
    <3> QED BY <1>13, <3>1, PoolBounds DEF Offer, Bounded
  <2>3. RecordTyped'
    BY <1>13 DEF Offer, Save, RecordTyped, Marks
  <2>4. SavedIsKnown'
    BY <1>13 DEF Offer, Save, SavedIsKnown
  <2>5. (CopiesTyped /\ LockTyped /\ PlaceTyped /\ AtSomebody /\
     TakesOnlyAdmitted /\ NotesWhenGone /\ PoolHasNone)'
    BY <1>13 DEF Offer, Save, CopiesTyped, LockTyped, PlaceTyped,
       Points, AtSomebody, Taking, Giving, Dropping, TakesOnlyAdmitted,
       NotesWhenGone, Has, PoolHasNone
  <2> QED BY <2>1, <2>2, <2>3, <2>4, <2>5
<1>14. CASE NewBuild
  <2>1. PeopleTyped'
    BY <1>14, PoolBounds DEF NewBuild, PeopleTyped
  <2>2. (CopiesTyped /\ RecordTyped /\ LockTyped /\ PlaceTyped /\ Bounded /\
     AtSomebody /\ TakesOnlyAdmitted /\ NotesWhenGone /\ SavedIsKnown /\
     PoolHasNone)'
    BY <1>14 DEF NewBuild, CopiesTyped, RecordTyped, Marks, LockTyped,
       PlaceTyped, Points, Bounded, AtSomebody, Taking, Giving, Dropping,
       TakesOnlyAdmitted, NotesWhenGone, Has, SavedIsKnown, PoolHasNone
  <2> QED BY <2>1, <2>2
<1>15. CASE DaemonRestarts
  <2>1. RecordTyped'
    BY <1>15 DEF DaemonRestarts, RecordTyped, Marks
  <2>2. LockTyped'
    BY <1>15, SmallNumbers DEF DaemonRestarts, LockTyped
  <2>3. Bounded'
    BY <1>15, PoolBounds DEF DaemonRestarts, Bounded
  <2>4. PlaceTyped'
    BY <1>15, Roll DEF DaemonRestarts, PlaceTyped, Points
  <2>5. (AtSomebody /\ TakesOnlyAdmitted /\ NotesWhenGone)'
    BY <1>15 DEF DaemonRestarts, AtSomebody, Taking, Giving, Dropping,
       TakesOnlyAdmitted, NotesWhenGone, Has
  <2>6. SavedIsKnown'
    BY <1>15 DEF DaemonRestarts, SavedIsKnown
  <2>7. PoolHasNone'
    BY <1>15 DEF DaemonRestarts, PoolHasNone, Has, SavedIsKnown
  <2>8. (CopiesTyped /\ PeopleTyped)'
    BY <1>15 DEF DaemonRestarts, CopiesTyped, PeopleTyped
  <2> QED BY <2>1, <2>2, <2>3, <2>4, <2>5, <2>6, <2>7, <2>8
<1> QED BY <1>1, <1>2, <1>3, <1>4, <1>5, <1>6, <1>7, <1>8, <1>9, <1>10,
   <1>11, <1>12, <1>13, <1>14, <1>15

LEMMA NextIInv == IInv /\ [Next]_poolVars => IInv'
<1> SUFFICES ASSUME IInv, [Next]_poolVars PROVE IInv'
  OBVIOUS
<1>1. CASE People
  <2>1. CASE \E p \in Libraries : Install(p) \/ Update(p) \/ Finish(p) \/ Settle(p)
    BY <2>1, PeopleKeep
  <2>2. CASE \E m \in Members : UninstallHere(m) \/ Play(m) \/ Quit(m)
    BY <2>2, PeopleKeep, Roll
  <2>3. CASE NewBuild
    BY <2>3, ButtonsKeep
  <2> QED BY <1>1, <2>1, <2>2, <2>3 DEF People
<1>2. CASE Pass
  BY <1>2, PassKeeps, CopyKeeps DEF Pass, Copies
<1>3. CASE Uninstalls \/ Readmit \/ (\E m \in Members : Offer(m)) \/ DaemonRestarts
  BY <1>3, ButtonsKeep DEF Uninstalls
<1>4. CASE UNCHANGED poolVars
  BY <1>4 DEF poolVars, IInv, PoolTypeOK, CopiesTyped, PeopleTyped, RecordTyped,
     LockTyped, PlaceTyped, Bounded, AtSomebody, TakesOnlyAdmitted,
     NotesWhenGone, SavedIsKnown, PoolHasNone, Taking, Giving, Dropping, Has
<1> QED BY <1>1, <1>2, <1>3, <1>4 DEF Next

THEOREM Invariance == Spec => []IInv
  BY InitIInv, NextIInv, PTL DEF Spec

\* Every variable keeps to its set.
THEOREM TypeCorrect == Spec => []PoolTypeOK
<1>1. IInv => PoolTypeOK
  BY DEF IInv
<1> QED BY <1>1, Invariance, PTL

\* The record of an uninstalled title survives every crash, and while it stands
\* the pool has no copy to hand out (harvestFrom, Uninstall, Readmit, save).
THEOREM Withheld == Spec => []WithheldStaysOut
<1>1. IInv => WithheldStaysOut
  BY DEF IInv, WithheldStaysOut, SavedIsKnown, PoolHasNone
<1> QED BY <1>1, Invariance, PTL

-----------------------------------------------------------------------------
(* Forward, and refusals.  Both are about libraries nobody touches while a   *)
(* pass copies from or into them: with Racing a Steam may start an update     *)
(* under a copy, and neither holds.                                           *)

\* Where there is no manifest there is no build, and no build is one Steam has
\* not offered.
NoneIsZero == \A p \in Places : copy[p].state = "none" => copy[p].build = 0
NotAhead == build <= latest /\ \A p \in Places : copy[p].build <= latest

\* What a copy is about to put aside is older than what it brings.
BringsNewer ==
  /\ at \in {"take", "takeAside"} /\ Has(Pooled) /\ copy[Pooled].tree # 0
       => build > copy[Pooled].build
  /\ at \in {"give", "giveAside"} /\ Has(Head(todo))
       => build > copy[Head(todo)].build

\* A refusal is of a title the pool has noted, and no copy is on its way to
\* where it was refused.
RefusedIsMarked == crashes = 0 => \A m \in Members : refused[m] => mark[m] # "none"
GivenToNoRefuser ==
  crashes = 0 /\ Giving => ~refused[Head(todo)] \/ Has(Head(todo))

\* Only members are given anything.
GivesToMembers == at = "offer" \/ Giving => todo \in Seq(Members)

Quiet ==
  NoneIsZero /\ NotAhead /\ BringsNewer /\ RefusedIsMarked /\ GivenToNoRefuser

\* Steam and the people in the seats.
LEMMA PeopleQuiet ==
  ASSUME ~Racing, IInv, Quiet,
         NEW p \in Libraries,
         Install(p) \/ Update(p) \/ Finish(p) \/ Settle(p)
           \/ (p \in Members /\ UninstallHere(p))
           \/ (p \in Members /\ Play(p)) \/ (p \in Members /\ Quit(p))
  PROVE  Quiet'
<1> USE DEF Quiet, IInv, PoolTypeOK, CopiesTyped, Copy, PeopleTyped,
     LockTyped, RecordTyped, Marks, Bounded
<1>1. CASE Install(p)
  <2>1. NoneIsZero'
    BY <1>1 DEF Install, Move, NoneIsZero
  <2>2. NotAhead'
    BY <1>1 DEF Install, Move, NotAhead
  <2>3. BringsNewer'
    BY <1>1, PooledAssumption DEF Install, Move, Apart, Taking, Giving,
       Dropping, BringsNewer, Has
  <2>4. RefusedIsMarked'
    BY <1>1 DEF Install, Move, RefusedIsMarked
  <2>5. GivenToNoRefuser'
    BY <1>1, PooledAssumption DEF Install, Move, Apart, Taking, Giving,
       Dropping, GivenToNoRefuser, RefusedIsMarked, Has
  <2> QED BY <2>1, <2>2, <2>3, <2>4, <2>5
<1>2. CASE Update(p)
  <2>1. NoneIsZero'
    BY <1>2 DEF Update, Move, NoneIsZero
  <2>2. NotAhead'
    BY <1>2 DEF Update, Move, NotAhead
  <2>3. BringsNewer'
    BY <1>2, PooledAssumption DEF Update, Move, Apart, Taking, Giving,
       Dropping, BringsNewer, Has
  <2>4. GivenToNoRefuser'
    BY <1>2, PooledAssumption DEF Update, Move, Apart, Taking, Giving,
       Dropping, GivenToNoRefuser, RefusedIsMarked, Has
  <2>5. (RefusedIsMarked)'
    BY <1>2 DEF Update, Move, RefusedIsMarked
  <2> QED BY <2>1, <2>2, <2>3, <2>4, <2>5
<1>3. CASE Finish(p)
  <2>1. NoneIsZero'
    BY <1>3 DEF Finish, NoneIsZero
  <2>2. NotAhead'
    BY <1>3 DEF Finish, NotAhead
  <2>3. BringsNewer'
    BY <1>3, PooledAssumption DEF Finish, Apart, Taking, Giving, Dropping,
       BringsNewer, Has
  <2>4. GivenToNoRefuser'
    BY <1>3, PooledAssumption DEF Finish, Apart, Taking, Giving, Dropping,
       GivenToNoRefuser, RefusedIsMarked, Has
  <2>5. (RefusedIsMarked)'
    BY <1>3 DEF Finish, RefusedIsMarked
  <2> QED BY <2>1, <2>2, <2>3, <2>4, <2>5
<1>4. CASE Settle(p)
  <2>1. NoneIsZero'
    BY <1>4 DEF Settle, NoneIsZero
  <2>2. NotAhead'
    BY <1>4 DEF Settle, NotAhead
  <2>3. BringsNewer'
    BY <1>4, PooledAssumption DEF Settle, BringsNewer, Has
  <2>4. GivenToNoRefuser'
    BY <1>4 DEF Settle, GivenToNoRefuser, RefusedIsMarked, Giving, Has
  <2>5. (RefusedIsMarked)'
    BY <1>4 DEF Settle, RefusedIsMarked
  <2> QED BY <2>1, <2>2, <2>3, <2>4, <2>5
<1>5. CASE p \in Members /\ UninstallHere(p)
  <2>1. NoneIsZero'
    BY <1>5 DEF UninstallHere, Move, Nothing, NoneIsZero
  <2>2. NotAhead'
    BY <1>5 DEF UninstallHere, Move, Nothing, NotAhead
  <2>3. BringsNewer'
    BY <1>5, PooledAssumption DEF UninstallHere, Move, Nothing, Apart,
       Taking, Giving, Dropping, BringsNewer, Has
  <2>4. RefusedIsMarked'
    BY <1>5 DEF UninstallHere, Move, Nothing, RefusedIsMarked
  <2>5. GivenToNoRefuser'
    BY <1>5, PooledAssumption DEF UninstallHere, Move, Nothing, Apart,
       Taking, Giving, Dropping, GivenToNoRefuser, RefusedIsMarked, Has
  <2> QED BY <2>1, <2>2, <2>3, <2>4, <2>5
<1>6. CASE p \in Members /\ Play(p)
  <2>1. (NoneIsZero /\ NotAhead /\ BringsNewer /\ RefusedIsMarked /\ GivenToNoRefuser)'
    BY <1>6 DEF Play, Move, NoneIsZero, NotAhead, BringsNewer, Has,
       RefusedIsMarked, GivenToNoRefuser, Giving
  <2> QED BY <2>1
<1>7. CASE p \in Members /\ Quit(p)
  <2>1. (NoneIsZero /\ NotAhead /\ BringsNewer /\ RefusedIsMarked /\ GivenToNoRefuser)'
    BY <1>7 DEF Quit, NoneIsZero, NotAhead, BringsNewer, Has,
       RefusedIsMarked, GivenToNoRefuser, Giving
  <2> QED BY <2>1
<1> QED BY <1>1, <1>2, <1>3, <1>4, <1>5, <1>6, <1>7

\* A title is on its way to somebody who has it, or for whom it is not noted.
LEMMA OfferedWhere ==
  ASSUME ~Racing, Offered, at' = "give"
  PROVE  Has(Head(todo)) \/ mark[Head(todo)] = "none"
<1>1. PICK have \in Reads(Head(todo)) :
        IF have THEN build > copy[Head(todo)].build /\ Head(todo) \in free
                ELSE mark[Head(todo)] = "none"
  BY Zenon DEF Offered, NextIn
<1>2. have = Has(Head(todo))
  BY DEF Reads
<1> QED BY <1>1, <1>2

\* A pass before and between its copies.
LEMMA PassQuiet ==
  ASSUME ~Racing, IInv, Quiet, GivesToMembers,
         Probe \/ SyncBegins \/ Look \/ ReadPool \/ Offered \/ CopyFails
           \/ SyncEnds
  PROVE  Quiet'
<1> USE DEF Quiet, IInv, PoolTypeOK, CopiesTyped, Copy, PeopleTyped,
     LockTyped, RecordTyped, Marks, Bounded
<1>1. CASE Probe
  <2>1. (NoneIsZero /\ NotAhead /\ BringsNewer /\ RefusedIsMarked /\ GivenToNoRefuser)'
    BY <1>1 DEF Probe, NoneIsZero, NotAhead, BringsNewer, Has,
       RefusedIsMarked, GivenToNoRefuser, Giving
  <2> QED BY <2>1
<1>2. CASE SyncBegins
  <2>1. BringsNewer'
    BY <1>2 DEF SyncBegins, BringsNewer, Has
  <2>2. GivenToNoRefuser'
    BY <1>2 DEF SyncBegins, GivenToNoRefuser, RefusedIsMarked, Giving, Has
  <2>3. (NoneIsZero /\ NotAhead /\ RefusedIsMarked)'
    BY <1>2 DEF SyncBegins, NoneIsZero, NotAhead, RefusedIsMarked
  <2> QED BY <2>1, <2>2, <2>3
<1>3. CASE Look
  <2>1. NotAhead'
    <3>1. Head(todo) \in Places
      BY <1>3, HeadAndTail DEF Look
    <3>2. build' = build \/ build' = copy[Head(todo)].build
      BY <1>3 DEF Look
    <3>3. copy' = copy /\ latest' = latest
      BY <1>3 DEF Look
    <3> QED BY <3>1, <3>2, <3>3 DEF NotAhead
  <2>2. BringsNewer'
    BY <1>3 DEF Look, NextIn, WorthTaking, BringsNewer, Has
  <2>3. RefusedIsMarked'
    BY <1>3 DEF Look, NextIn, Mark, RefusedIsMarked
  <2>4. GivenToNoRefuser'
    BY <1>3 DEF Look, NextIn, GivenToNoRefuser, RefusedIsMarked, Giving, Has
  <2>5. (NoneIsZero)'
    BY <1>3 DEF Look, NextIn, NoneIsZero
  <2> QED BY <2>1, <2>2, <2>3, <2>4, <2>5
<1>4. CASE ReadPool
  <2>1. NotAhead'
    BY <1>4, PooledAssumption DEF ReadPool, Step, NotAhead
  <2>2. BringsNewer'
    BY <1>4 DEF ReadPool, Step, BringsNewer, Has
  <2>3. GivenToNoRefuser'
    BY <1>4 DEF ReadPool, Step, GivenToNoRefuser, RefusedIsMarked, Giving,
       Has
  <2>4. (NoneIsZero /\ RefusedIsMarked)'
    BY <1>4 DEF ReadPool, Step, NoneIsZero, RefusedIsMarked
  <2> QED BY <2>1, <2>2, <2>3, <2>4
<1>5. CASE Offered
  <2>1. BringsNewer'
    BY <1>5 DEF Offered, NextIn, Reads, BringsNewer, Has
  <2>2. RefusedIsMarked'
    BY <1>5 DEF Offered, NextIn, RefusedIsMarked
  <2>3. GivenToNoRefuser'
    <3> SUFFICES ASSUME crashes = 0, at' = "give"
                 PROVE  ~refused[Head(todo)] \/ Has(Head(todo))
      BY <1>5 DEF Offered, NextIn, GivenToNoRefuser, Giving, Has
    <3>1. Head(todo) \in Members
      BY <1>5 DEF Offered, GivesToMembers
    <3>2. Has(Head(todo)) \/ mark[Head(todo)] = "none"
      BY <1>5, OfferedWhere
    <3> QED BY <3>1, <3>2 DEF RefusedIsMarked
  <2>4. (NoneIsZero /\ NotAhead)'
    BY <1>5 DEF Offered, NextIn, NoneIsZero, NotAhead
  <2> QED BY <2>1, <2>2, <2>3, <2>4
<1>6. CASE CopyFails
  <2>1. BringsNewer'
    BY <1>6 DEF CopyFails, NextIn, Taking, Giving, BringsNewer, Has
  <2>2. GivenToNoRefuser'
    BY <1>6 DEF CopyFails, NextIn, Taking, Giving, GivenToNoRefuser,
       RefusedIsMarked, Has
  <2>3. (NoneIsZero /\ NotAhead /\ RefusedIsMarked)'
    BY <1>6 DEF CopyFails, NextIn, NoneIsZero, NotAhead, RefusedIsMarked
  <2> QED BY <2>1, <2>2, <2>3
<1>7. CASE SyncEnds
  <2>1. NotAhead'
    BY <1>7 DEF SyncEnds, Save, NotAhead
  <2>2. BringsNewer'
    BY <1>7 DEF SyncEnds, Save, BringsNewer, Has
  <2>3. GivenToNoRefuser'
    BY <1>7 DEF SyncEnds, Save, GivenToNoRefuser, RefusedIsMarked, Giving,
       Has
  <2>4. (NoneIsZero /\ RefusedIsMarked)'
    BY <1>7 DEF SyncEnds, Save, NoneIsZero, RefusedIsMarked
  <2> QED BY <2>1, <2>2, <2>3, <2>4
<1> QED BY <1>1, <1>2, <1>3, <1>4, <1>5, <1>6, <1>7

\* A copy, on its way into the pool or out of it.
LEMMA CopyQuiet ==
  ASSUME ~Racing, IInv, Quiet,
         Stage("take", "takeAside") \/ Stage("give", "giveAside")
           \/ Aside("takeAside", "takePlace")
           \/ Aside("giveAside", "givePlace")
           \/ Place("takePlace", "takeManifest")
           \/ Place("givePlace", "giveManifest")
           \/ Manifest("takeManifest", "look")
           \/ Manifest("giveManifest", "offer")
  PROVE  Quiet'
<1> USE DEF Quiet, IInv, PoolTypeOK, CopiesTyped, Copy, PeopleTyped,
     LockTyped, RecordTyped, Marks, Bounded
<1>1. CASE Stage("take", "takeAside")
  <2>1. BringsNewer'
    BY <1>1 DEF Stage, Step, BringsNewer, Has
  <2>2. GivenToNoRefuser'
    BY <1>1 DEF Stage, Step, GivenToNoRefuser, RefusedIsMarked, Giving, Has
  <2>3. (NoneIsZero /\ NotAhead /\ RefusedIsMarked)'
    BY <1>1 DEF Stage, Step, NoneIsZero, NotAhead, RefusedIsMarked
  <2> QED BY <2>1, <2>2, <2>3
<1>2. CASE Stage("give", "giveAside")
  <2>1. BringsNewer'
    BY <1>2 DEF Stage, Step, BringsNewer, Has
  <2>2. GivenToNoRefuser'
    BY <1>2 DEF Stage, Step, GivenToNoRefuser, RefusedIsMarked, Giving, Has
  <2>3. (NoneIsZero /\ NotAhead /\ RefusedIsMarked)'
    BY <1>2 DEF Stage, Step, NoneIsZero, NotAhead, RefusedIsMarked
  <2> QED BY <2>1, <2>2, <2>3
<1>3. CASE Aside("takeAside", "takePlace")
  <2>1. NoneIsZero'
    BY <1>3 DEF Aside, Step, Filled, NoneIsZero
  <2>2. NotAhead'
    BY <1>3 DEF Aside, Step, Filled, NotAhead
  <2>3. BringsNewer'
    BY <1>3 DEF Aside, Step, Filled, BringsNewer, Has
  <2>4. GivenToNoRefuser'
    BY <1>3 DEF Aside, Step, Filled, GivenToNoRefuser, RefusedIsMarked,
       Giving, Has
  <2>5. (RefusedIsMarked)'
    BY <1>3 DEF Aside, Step, Filled, RefusedIsMarked
  <2> QED BY <2>1, <2>2, <2>3, <2>4, <2>5
<1>4. CASE Aside("giveAside", "givePlace")
  <2>1. NoneIsZero'
    BY <1>4 DEF Aside, Step, Filled, NoneIsZero
  <2>2. NotAhead'
    BY <1>4 DEF Aside, Step, Filled, NotAhead
  <2>3. BringsNewer'
    BY <1>4 DEF Aside, Step, Filled, BringsNewer, Has
  <2>4. GivenToNoRefuser'
    BY <1>4 DEF Aside, Step, Filled, GivenToNoRefuser, RefusedIsMarked,
       Giving, Has
  <2>5. (RefusedIsMarked)'
    BY <1>4 DEF Aside, Step, Filled, RefusedIsMarked
  <2> QED BY <2>1, <2>2, <2>3, <2>4, <2>5
<1>5. CASE Place("takePlace", "takeManifest")
  <2>1. NoneIsZero'
    BY <1>5 DEF Place, Step, Filled, NoneIsZero
  <2>2. NotAhead'
    BY <1>5 DEF Place, Step, Filled, NotAhead
  <2>3. BringsNewer'
    BY <1>5 DEF Place, Step, Filled, BringsNewer, Has
  <2>4. GivenToNoRefuser'
    BY <1>5 DEF Place, Step, Filled, GivenToNoRefuser, RefusedIsMarked,
       Giving, Has
  <2>5. (RefusedIsMarked)'
    BY <1>5 DEF Place, Step, Filled, RefusedIsMarked
  <2> QED BY <2>1, <2>2, <2>3, <2>4, <2>5
<1>6. CASE Place("givePlace", "giveManifest")
  <2>1. NoneIsZero'
    BY <1>6 DEF Place, Step, Filled, NoneIsZero
  <2>2. NotAhead'
    BY <1>6 DEF Place, Step, Filled, NotAhead
  <2>3. BringsNewer'
    BY <1>6 DEF Place, Step, Filled, BringsNewer, Has
  <2>4. GivenToNoRefuser'
    BY <1>6 DEF Place, Step, Filled, GivenToNoRefuser, RefusedIsMarked,
       Giving, Has
  <2>5. (RefusedIsMarked)'
    BY <1>6 DEF Place, Step, Filled, RefusedIsMarked
  <2> QED BY <2>1, <2>2, <2>3, <2>4, <2>5
<1>7. CASE Manifest("takeManifest", "look")
  <2>1. NoneIsZero'
    BY <1>7 DEF Manifest, Step, Written, NoneIsZero
  <2>2. NotAhead'
    BY <1>7 DEF Manifest, Step, Written, NotAhead
  <2>3. BringsNewer'
    BY <1>7 DEF Manifest, Step, Written, BringsNewer, Has
  <2>4. RefusedIsMarked'
    BY <1>7 DEF Manifest, Step, Written, Mark, RefusedIsMarked
  <2>5. GivenToNoRefuser'
    BY <1>7 DEF Manifest, Step, Written, GivenToNoRefuser, RefusedIsMarked,
       Giving, Has
  <2> QED BY <2>1, <2>2, <2>3, <2>4, <2>5
<1>8. CASE Manifest("giveManifest", "offer")
  <2>1. NoneIsZero'
    BY <1>8 DEF Manifest, Step, Written, NoneIsZero
  <2>2. NotAhead'
    BY <1>8 DEF Manifest, Step, Written, NotAhead
  <2>3. BringsNewer'
    BY <1>8 DEF Manifest, Step, Written, BringsNewer, Has
  <2>4. RefusedIsMarked'
    BY <1>8 DEF Manifest, Step, Written, Mark, RefusedIsMarked
  <2>5. GivenToNoRefuser'
    BY <1>8 DEF Manifest, Step, Written, GivenToNoRefuser, RefusedIsMarked,
       Giving, Has
  <2> QED BY <2>1, <2>2, <2>3, <2>4, <2>5
<1> QED BY <1>1, <1>2, <1>3, <1>4, <1>5, <1>6, <1>7, <1>8

\* An uninstall, what the interface does else, a new build and a crash.
LEMMA ButtonsQuiet ==
  ASSUME ~Racing, IInv, Quiet,
         AskUninstall \/ RefuseUninstall \/ BeginUninstall \/ PassOver
           \/ DropManifest \/ DropFiles \/ DropFails \/ ClearFiles
           \/ ClearManifest \/ ClearFails \/ Note \/ Readmit
           \/ (\E m \in Members : Offer(m)) \/ NewBuild \/ DaemonRestarts
  PROVE  Quiet'
<1> USE DEF Quiet, IInv, PoolTypeOK, CopiesTyped, Copy, PeopleTyped,
     LockTyped, RecordTyped, Marks, Bounded
<1>1. CASE AskUninstall
  <2>1. BringsNewer'
    BY <1>1 DEF AskUninstall, BringsNewer, Has
  <2>2. GivenToNoRefuser'
    BY <1>1 DEF AskUninstall, GivenToNoRefuser, RefusedIsMarked, Giving, Has
  <2>3. (NoneIsZero /\ NotAhead /\ RefusedIsMarked)'
    BY <1>1 DEF AskUninstall, NoneIsZero, NotAhead, RefusedIsMarked
  <2> QED BY <2>1, <2>2, <2>3
<1>2. CASE RefuseUninstall
  <2>1. BringsNewer'
    BY <1>2 DEF RefuseUninstall, BringsNewer, Has
  <2>2. GivenToNoRefuser'
    BY <1>2 DEF RefuseUninstall, GivenToNoRefuser, RefusedIsMarked, Giving,
       Has
  <2>3. (NoneIsZero /\ NotAhead /\ RefusedIsMarked)'
    BY <1>2 DEF RefuseUninstall, NoneIsZero, NotAhead, RefusedIsMarked
  <2> QED BY <2>1, <2>2, <2>3
<1>3. CASE BeginUninstall
  <2>1. NotAhead'
    BY <1>3 DEF BeginUninstall, NotAhead
  <2>2. BringsNewer'
    BY <1>3 DEF BeginUninstall, BringsNewer, Has
  <2>3. GivenToNoRefuser'
    BY <1>3 DEF BeginUninstall, GivenToNoRefuser, RefusedIsMarked, Giving,
       Has
  <2>4. (NoneIsZero /\ RefusedIsMarked)'
    BY <1>3 DEF BeginUninstall, NoneIsZero, RefusedIsMarked
  <2> QED BY <2>1, <2>2, <2>3, <2>4
<1>4. CASE PassOver
  <2>1. BringsNewer'
    BY <1>4 DEF PassOver, NextIn, BringsNewer, Has
  <2>2. GivenToNoRefuser'
    BY <1>4 DEF PassOver, NextIn, GivenToNoRefuser, RefusedIsMarked, Giving,
       Has
  <2>3. (NoneIsZero /\ NotAhead /\ RefusedIsMarked)'
    BY <1>4 DEF PassOver, NextIn, NoneIsZero, NotAhead, RefusedIsMarked
  <2> QED BY <2>1, <2>2, <2>3
<1>5. CASE DropManifest
  <2>1. NoneIsZero'
    BY <1>5 DEF DropManifest, Written, NoneIsZero
  <2>2. NotAhead'
    BY <1>5 DEF DropManifest, Written, NotAhead
  <2>3. BringsNewer'
    BY <1>5 DEF DropManifest, Written, BringsNewer, Has
  <2>4. RefusedIsMarked'
    BY <1>5 DEF DropManifest, Written, RefusedIsMarked
  <2>5. GivenToNoRefuser'
    BY <1>5 DEF DropManifest, Written, GivenToNoRefuser, RefusedIsMarked,
       Giving, Has
  <2> QED BY <2>1, <2>2, <2>3, <2>4, <2>5
<1>6. CASE DropFiles
  <2>1. NoneIsZero'
    BY <1>6 DEF DropFiles, NextIn, Filled, NoneIsZero
  <2>2. NotAhead'
    BY <1>6 DEF DropFiles, NextIn, Filled, NotAhead
  <2>3. BringsNewer'
    BY <1>6 DEF DropFiles, NextIn, Filled, BringsNewer, Has
  <2>4. GivenToNoRefuser'
    BY <1>6 DEF DropFiles, NextIn, Filled, GivenToNoRefuser, RefusedIsMarked,
       Giving, Has
  <2>5. (RefusedIsMarked)'
    BY <1>6 DEF DropFiles, NextIn, Filled, RefusedIsMarked
  <2> QED BY <2>1, <2>2, <2>3, <2>4, <2>5
<1>7. CASE DropFails
  <2>1. NotAhead'
    BY <1>7 DEF DropFails, Save, NotAhead
  <2>2. BringsNewer'
    BY <1>7 DEF DropFails, Save, BringsNewer, Has
  <2>3. GivenToNoRefuser'
    BY <1>7 DEF DropFails, Save, GivenToNoRefuser, RefusedIsMarked, Giving,
       Has
  <2>4. (NoneIsZero /\ RefusedIsMarked)'
    BY <1>7 DEF DropFails, Save, NoneIsZero, RefusedIsMarked
  <2> QED BY <2>1, <2>2, <2>3, <2>4
<1>8. CASE ClearFiles
  <2>1. NoneIsZero'
    BY <1>8 DEF ClearFiles, Filled, NoneIsZero
  <2>2. NotAhead'
    BY <1>8 DEF ClearFiles, Filled, NotAhead
  <2>3. BringsNewer'
    BY <1>8 DEF ClearFiles, Filled, BringsNewer, Has
  <2>4. GivenToNoRefuser'
    BY <1>8 DEF ClearFiles, Filled, GivenToNoRefuser, RefusedIsMarked,
       Giving, Has
  <2>5. (RefusedIsMarked)'
    BY <1>8 DEF ClearFiles, Filled, RefusedIsMarked
  <2> QED BY <2>1, <2>2, <2>3, <2>4, <2>5
<1>9. CASE ClearManifest
  <2>1. NoneIsZero'
    BY <1>9 DEF ClearManifest, Written, NoneIsZero
  <2>2. NotAhead'
    BY <1>9 DEF ClearManifest, Written, NotAhead
  <2>3. BringsNewer'
    BY <1>9 DEF ClearManifest, Written, BringsNewer, Has
  <2>4. GivenToNoRefuser'
    BY <1>9 DEF ClearManifest, Written, GivenToNoRefuser, RefusedIsMarked,
       Giving, Has
  <2>5. (RefusedIsMarked)'
    BY <1>9 DEF ClearManifest, Written, RefusedIsMarked
  <2> QED BY <2>1, <2>2, <2>3, <2>4, <2>5
<1>10. CASE ClearFails
  <2>1. NotAhead'
    BY <1>10 DEF ClearFails, NotAhead
  <2>2. BringsNewer'
    BY <1>10 DEF ClearFails, BringsNewer, Has
  <2>3. GivenToNoRefuser'
    BY <1>10 DEF ClearFails, GivenToNoRefuser, RefusedIsMarked, Giving, Has
  <2>4. (NoneIsZero /\ RefusedIsMarked)'
    BY <1>10 DEF ClearFails, NoneIsZero, RefusedIsMarked
  <2> QED BY <2>1, <2>2, <2>3, <2>4
<1>11. CASE Note
  <2>1. NotAhead'
    BY <1>11 DEF Note, Save, NotAhead
  <2>2. BringsNewer'
    BY <1>11 DEF Note, Save, BringsNewer, Has
  <2>3. RefusedIsMarked'
    BY <1>11 DEF Note, Save, RefusedIsMarked
  <2>4. GivenToNoRefuser'
    BY <1>11 DEF Note, Save, GivenToNoRefuser, RefusedIsMarked, Giving, Has
  <2>5. (NoneIsZero)'
    BY <1>11 DEF Note, Save, NoneIsZero
  <2> QED BY <2>1, <2>2, <2>3, <2>4, <2>5
<1>12. CASE Readmit
  <2>1. (NoneIsZero /\ NotAhead /\ BringsNewer /\ RefusedIsMarked /\ GivenToNoRefuser)'
    BY <1>12 DEF Readmit, Save, NoneIsZero, NotAhead, BringsNewer,
       Has, RefusedIsMarked, GivenToNoRefuser, Giving
  <2> QED BY <2>1
<1>13. CASE \E m \in Members : Offer(m)
  <2>1. BringsNewer'
    BY <1>13 DEF Offer, Save, BringsNewer, Has
  <2>2. RefusedIsMarked'
    BY <1>13 DEF Offer, Save, RefusedIsMarked
  <2>3. GivenToNoRefuser'
    BY <1>13 DEF Offer, Save, GivenToNoRefuser, RefusedIsMarked,
       Giving, Has
  <2>4. (NoneIsZero /\ NotAhead)'
    BY <1>13 DEF Offer, Save, NoneIsZero, NotAhead
  <2> QED BY <2>1, <2>2, <2>3, <2>4
<1>14. CASE NewBuild
  <2>1. NotAhead'
    BY <1>14 DEF NewBuild, NotAhead
  <2>2. (NoneIsZero /\ BringsNewer /\ RefusedIsMarked /\ GivenToNoRefuser)'
    BY <1>14 DEF NewBuild, NoneIsZero, BringsNewer, Has, RefusedIsMarked,
       GivenToNoRefuser, Giving
  <2> QED BY <2>1, <2>2
<1>15. CASE DaemonRestarts
  <2>1. NotAhead'
    BY <1>15 DEF DaemonRestarts, NotAhead
  <2>2. BringsNewer'
    BY <1>15 DEF DaemonRestarts, BringsNewer, Has
  <2>3. RefusedIsMarked'
    BY <1>15 DEF DaemonRestarts, RefusedIsMarked
  <2>4. GivenToNoRefuser'
    BY <1>15 DEF DaemonRestarts, GivenToNoRefuser, RefusedIsMarked, Giving,
       Has
  <2>5. (NoneIsZero)'
    BY <1>15 DEF DaemonRestarts, NoneIsZero
  <2> QED BY <2>1, <2>2, <2>3, <2>4, <2>5
<1> QED BY <1>1, <1>2, <1>3, <1>4, <1>5, <1>6, <1>7, <1>8, <1>9, <1>10,
   <1>11, <1>12, <1>13, <1>14, <1>15

LEMMA GivesKept == IInv /\ GivesToMembers /\ [Next]_poolVars => GivesToMembers'
<1> SUFFICES ASSUME IInv, GivesToMembers, [Next]_poolVars PROVE GivesToMembers'
  OBVIOUS
<1> USE DEF GivesToMembers, Giving, Step, NextIn
<1>1. CASE People
  BY <1>1 DEF People, Install, Update, Finish, Settle, UninstallHere, Play, Quit,
     Move, NewBuild
<1>2. CASE Probe \/ SyncBegins \/ Look \/ SyncEnds
  BY <1>2 DEF Probe, SyncBegins, Look, SyncEnds
<1>3. CASE ReadPool
  BY <1>3, OrderAssumption DEF ReadPool
<1>4. CASE Offered
  BY <1>4 DEF Offered
<1>5. CASE Copies \/ CopyFails
  BY <1>5 DEF Copies, CopyFails, Stage, Aside, Place, Manifest, Taking, IInv,
     AtSomebody
<1>6. CASE Uninstalls
  BY <1>6 DEF Uninstalls, AskUninstall, RefuseUninstall, BeginUninstall,
     PassOver, DropManifest, DropFiles, DropFails, ClearFiles, ClearManifest,
     ClearFails, Note
<1>7. CASE Readmit \/ (\E m \in Members : Offer(m)) \/ DaemonRestarts
  BY <1>7 DEF Readmit, Offer, DaemonRestarts
<1>8. CASE UNCHANGED poolVars
  BY <1>8 DEF poolVars
<1> QED BY <1>1, <1>2, <1>3, <1>4, <1>5, <1>6, <1>7, <1>8 DEF Next, Pass

LEMMA InitQuiet == Init => Quiet /\ GivesToMembers
  BY PooledAssumption DEF Init, Nothing, Quiet, NoneIsZero, NotAhead, BringsNewer,
     RefusedIsMarked, GivenToNoRefuser, GivesToMembers, Giving

LEMMA NextQuiet ==
  ASSUME ~Racing
  PROVE  IInv /\ Quiet /\ GivesToMembers /\ [Next]_poolVars
           => Quiet' /\ GivesToMembers'
<1> SUFFICES ASSUME IInv, Quiet, GivesToMembers, [Next]_poolVars PROVE Quiet'
  BY GivesKept
<1>1. CASE People
  <2>1. CASE \E p \in Libraries : Install(p) \/ Update(p) \/ Finish(p) \/ Settle(p)
    BY <2>1, PeopleQuiet
  <2>2. CASE \E m \in Members : UninstallHere(m) \/ Play(m) \/ Quit(m)
    BY <2>2, PeopleQuiet, Roll
  <2>3. CASE NewBuild
    BY <2>3, ButtonsQuiet
  <2> QED BY <1>1, <2>1, <2>2, <2>3 DEF People
<1>2. CASE Pass
  BY <1>2, PassQuiet, CopyQuiet DEF Pass, Copies
<1>3. CASE Uninstalls \/ Readmit \/ (\E m \in Members : Offer(m)) \/ DaemonRestarts
  BY <1>3, ButtonsQuiet DEF Uninstalls
<1>4. CASE UNCHANGED poolVars
  BY <1>4 DEF poolVars, Quiet, NoneIsZero, NotAhead, BringsNewer, RefusedIsMarked,
     GivenToNoRefuser, Giving, Has
<1> QED BY <1>1, <1>2, <1>3, <1>4 DEF Next

LEMMA QuietHolds ==
  ASSUME ~Racing
  PROVE  Spec => [](Quiet /\ GivesToMembers)
<1>1. Quiet /\ GivesToMembers /\ IInv /\ [Next]_poolVars
        => (Quiet /\ GivesToMembers)'
  BY NextQuiet
<1> QED BY <1>1, InitQuiet, Invariance, PTL DEF Spec

\* What a title refused somewhere needs to be there again: somebody's install.
LEMMA RefusalStep ==
  ASSUME ~Racing, IInv, Quiet, GivesToMembers, [Next]_poolVars,
         NEW m \in Members, crashes' = 0, refused[m], refused'[m], ~Has(m)
  PROVE  ~Has(m)'
<1> USE DEF Has, IInv, PoolTypeOK, CopiesTyped, Copy, PeopleTyped, Bounded
<1>1. m \in Places /\ m # Pooled /\ copy[m].state = "none"
  BY Roll, PooledAssumption
<1>2. CASE People
  <2>1. ASSUME NEW p \in Libraries, Install(p) PROVE ~Has(m)'
    BY <1>1, <2>1 DEF Install
  <2>2. ASSUME NEW p \in Libraries, Update(p) \/ Finish(p) \/ Settle(p)
        PROVE  ~Has(m)'
    BY <1>1, <2>2 DEF Update, Finish, Settle
  <2>3. ASSUME NEW n \in Members, UninstallHere(n) \/ Play(n) \/ Quit(n)
        PROVE  ~Has(m)'
    BY <1>1, <2>3 DEF UninstallHere, Nothing, Play, Quit
  <2>4. CASE NewBuild
    BY <1>1, <2>4 DEF NewBuild
  <2> QED BY <1>2, <2>1, <2>2, <2>3, <2>4 DEF People
<1>3. CASE Copies
  <2>1. CASE Manifest("giveManifest", "offer")
    <3>1. crashes = 0 /\ Giving /\ To = Head(todo)
      BY <2>1 DEF Manifest, Step, Giving, Taking, To
    <3>2. Head(todo) # m
      BY <1>1, <3>1 DEF Quiet, GivenToNoRefuser
    <3> QED BY <1>1, <2>1, <3>1, <3>2 DEF Manifest, Written
  <2>2. CASE Manifest("takeManifest", "look")
    BY <1>1, <2>2 DEF Manifest, Step, Taking, To, Written
  <2>3. CASE \/ Stage("take", "takeAside") \/ Stage("give", "giveAside")
             \/ Aside("takeAside", "takePlace") \/ Aside("giveAside", "givePlace")
             \/ Place("takePlace", "takeManifest")
             \/ Place("givePlace", "giveManifest")
    BY <1>1, <2>3 DEF Stage, Aside, Place, Filled
  <2> QED BY <1>3, <2>1, <2>2, <2>3 DEF Copies
<1>4. CASE Pass /\ ~Copies
  BY <1>1, <1>4 DEF Pass, Probe, SyncBegins, Look, ReadPool, Offered, CopyFails,
     SyncEnds
<1>5. CASE Uninstalls
  BY <1>1, <1>5 DEF Uninstalls, AskUninstall, RefuseUninstall, BeginUninstall,
     PassOver, DropManifest, DropFiles, DropFails, ClearFiles, ClearManifest,
     ClearFails, Note, Written, Filled
<1>6. CASE Readmit \/ (\E n \in Members : Offer(n)) \/ DaemonRestarts
  BY <1>1, <1>6 DEF Readmit, Offer, DaemonRestarts
<1>7. CASE UNCHANGED poolVars
  BY <1>1, <1>7 DEF poolVars
<1> QED BY <1>2, <1>3, <1>4, <1>5, <1>6, <1>7 DEF Next

\* As long as the daemon has not gone, nothing but somebody's own install or the
\* interface brings a refused title back, whatever passes, failed copies and
\* uninstalls come between (mark and distribute), if no library changes while a
\* pass is at it.
THEOREM RefusalsHold ==
  ASSUME ~Racing
  PROVE  Spec => RefusalsStick
<1> DEFINE Kept == \A m \in Members :
        crashes' = 0 /\ refused[m] /\ refused'[m] /\ ~Has(m) => ~Has(m)'
<1>1. IInv /\ Quiet /\ GivesToMembers /\ [Next]_poolVars => [Kept]_poolVars
  BY RefusalStep
<1> QED BY <1>1, Invariance, QuietHolds, PTL DEF Spec, RefusalsStick

\* A copy that is whole is only replaced by a newer one.
LEMMA ForwardStep ==
  ASSUME ~Racing, IInv, Quiet, [Next]_poolVars,
         NEW p \in Places, Whole(p), copy'[p].build > 0
  PROVE  /\ copy'[p].build >= copy[p].build
         /\ HalfWritten(p)' => build' >= copy[p].build
<1> USE DEF Has, IInv, PoolTypeOK, CopiesTyped, Copy, PeopleTyped, LockTyped
<1>1. /\ copy[p].build \in Nat /\ copy[p].build > 0 /\ Has(p)
      /\ copy[p].tree # 0
      /\ ~HalfWritten(p)
  BY PoolBounds DEF Whole, Quiet, NoneIsZero
<1>2. ASSUME at' = at, todo' = todo PROVE ~HalfWritten(p)'
  BY <1>1, <1>2 DEF HalfWritten, To, Taking
<1>3. CASE People
  <2>1. ~HalfWritten(p)'
    BY <1>2, <1>3 DEF People, Install, Update, Finish, Settle, UninstallHere,
       Play, Quit, Move, NewBuild
  <2>2. ASSUME NEW q \in Libraries, Install(q) \/ Update(q) \/ Finish(q) \/ Settle(q)
        PROVE  copy'[p].build >= copy[p].build
    BY <1>1, <2>2 DEF Install, Update, Finish, Settle, Quiet, NotAhead
  <2>3. ASSUME NEW m \in Members, UninstallHere(m) \/ Play(m) \/ Quit(m)
        PROVE  copy'[p].build >= copy[p].build
    BY <1>1, <2>3 DEF UninstallHere, Nothing, Play, Quit
  <2>4. CASE NewBuild
    BY <1>1, <2>1, <2>4 DEF NewBuild
  <2> QED BY <1>3, <2>1, <2>2, <2>3, <2>4 DEF People
<1>4. CASE Aside("takeAside", "takePlace") \/ Aside("giveAside", "givePlace")
  <2>1. copy'[p].build = copy[p].build /\ build' = build /\ todo' = todo
    BY <1>4 DEF Aside, Filled
  <2>2. CASE Aside("takeAside", "takePlace")
    <3>1. at = "takeAside" /\ at' = "takePlace"
      BY <2>2 DEF Aside, Step
    <3>2. HalfWritten(p)' => p = Pooled
      BY <3>1 DEF HalfWritten, To, Taking
    <3> QED BY <1>1, <2>1, <3>1, <3>2 DEF Quiet, BringsNewer
  <2>3. CASE Aside("giveAside", "givePlace")
    <3>1. at = "giveAside" /\ at' = "givePlace"
      BY <2>3 DEF Aside, Step
    <3>2. HalfWritten(p)' => p = Head(todo)
      BY <2>1, <3>1 DEF HalfWritten, To, Taking
    <3> QED BY <1>1, <2>1, <3>1, <3>2 DEF Quiet, BringsNewer
  <2> QED BY <1>4, <2>2, <2>3
<1>5. CASE Place("takePlace", "takeManifest") \/ Place("givePlace", "giveManifest")
  <2>1. To' = To
    BY <1>5 DEF Place, Step, To, Taking
  <2>2. p # To /\ ~HalfWritten(p)'
    BY <1>1, <1>5, <2>1 DEF Place, Step, HalfWritten
  <2> QED BY <1>1, <1>5, <2>2 DEF Place, Filled
<1>6. CASE Manifest("takeManifest", "look") \/ Manifest("giveManifest", "offer")
  <2>1. p # To
    BY <1>1, <1>6 DEF Manifest, Step, HalfWritten
  <2> QED BY <1>1, <1>6, <2>1 DEF Manifest, Step, Written, HalfWritten
<1>7. CASE Stage("take", "takeAside") \/ Stage("give", "giveAside")
  BY <1>1, <1>7 DEF Stage, Step, HalfWritten
<1>8. CASE Pass /\ ~Copies
  <2>1. copy' = copy
    BY <1>8 DEF Pass, Probe, SyncBegins, Look, ReadPool, Offered, CopyFails, SyncEnds
  <2>2. CASE Probe
    BY <1>1, <1>2, <2>1, <2>2 DEF Probe
  <2>3. CASE SyncBegins \/ Look \/ ReadPool \/ Offered \/ CopyFails \/ SyncEnds
    <3>1. at' \in {"look", "take", "offer", "give", "idle"}
      BY <2>3 DEF SyncBegins, Look, ReadPool, Step, Offered, CopyFails, SyncEnds,
         NextIn
    <3> QED BY <1>1, <2>1, <3>1 DEF HalfWritten
  <2> QED BY <1>8, <2>2, <2>3 DEF Pass
<1>9. CASE Uninstalls
  <2>1. ~HalfWritten(p)'
    BY <1>2, <1>9 DEF Uninstalls, AskUninstall, RefuseUninstall, BeginUninstall,
       PassOver, DropManifest, DropFiles, DropFails, ClearFiles, ClearManifest,
       ClearFails, Note, NextIn, HalfWritten
  <2>2. CASE DropManifest \/ DropFiles \/ ClearFiles \/ ClearManifest
    BY <1>1, <2>1, <2>2 DEF DropManifest, DropFiles, ClearFiles, ClearManifest,
       Written, Filled
  <2>3. CASE copy' = copy
    BY <1>1, <2>1, <2>3
  <2> QED BY <1>9, <2>1, <2>2, <2>3 DEF Uninstalls, AskUninstall, RefuseUninstall,
       BeginUninstall, PassOver, DropFails, ClearFails, Note
<1>10. CASE Readmit \/ (\E m \in Members : Offer(m)) \/ DaemonRestarts
  BY <1>1, <1>2, <1>10 DEF Readmit, Offer, DaemonRestarts, HalfWritten
<1>11. CASE UNCHANGED poolVars
  BY <1>1, <1>2, <1>11 DEF poolVars
<1> QED BY <1>3, <1>4, <1>5, <1>6, <1>7, <1>8, <1>9, <1>10, <1>11
   DEF Next, Pass, Copies

\* A whole copy never goes back to an older build, and is never put aside for
\* one (harvestFrom, distribute and cloneAt), wherever copies fail and the daemon
\* goes, if no library changes while a pass is at it.
THEOREM Forward ==
  ASSUME ~Racing
  PROVE  Spec => OnlyForward
<1> DEFINE Onward == \A p \in Places :
        Whole(p) /\ copy'[p].build > 0 =>
          /\ copy'[p].build >= copy[p].build
          /\ HalfWritten(p)' => build' >= copy[p].build
<1>1. IInv /\ Quiet /\ GivesToMembers /\ [Next]_poolVars => [Onward]_poolVars
  BY ForwardStep
<1> QED BY <1>1, Invariance, QuietHolds, PTL DEF Spec, OnlyForward

=============================================================================
