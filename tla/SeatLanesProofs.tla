-------------------------- MODULE SeatLanesProofs --------------------------
(***************************************************************************)
(* SeatLanes for every set of goroutines and any number of lives of the    *)
(* seat: no reading and no operation share a moment on one runtime, which  *)
(* with the order of their turns is SeatTurns.                             *)
(*                                                                         *)
(* The argument is the one beginSweep's comment makes.  busy keeps every   *)
(* new reading out from the moment of the claim (Owner with Enter's look), *)
(* a reading that was already in holds its lane until it is done (Holds),  *)
(* and quiesce passes a lane only when nobody holds it (Waited).           *)
(*                                                                         *)
(* The last part is the same question about the clients of a seat          *)
(* (StreamWatch).  Whoever ends a stream has looked for its client, and    *)
(* whoever was away then and is here now came after that look (WatchInv).  *)
(***************************************************************************)
EXTENDS SeatLanes, StreamWatch, SequenceTheorems, TLAPS

Inside(g) == pc[g] \in {"locked", "reading", "leaving"}

\* Past Fetch a goroutine has a runtime of its own to work on.
Fetched ==
  \A g \in Goroutines :
    pc[g] = "fetched" \/ Inside(g) \/ InOperation(g) => mine[g] \in Runtimes

\* The operation under way on a runtime is the one busy names.
Owner ==
  \A g \in Goroutines :
    InOperation(g) => job[g] \in Operations /\ busy[mine[g]] = g

\* A reading has its lane from before the look that admits it until after it
\* took its cancel back, and its cancel is there to be called meanwhile.
Holds ==
  \A g \in Goroutines :
    Inside(g) =>
      /\ job[g] \in Readings
      /\ held[mine[g]][LaneOf(job[g])] = g
      /\ pc[g] = "reading" => cancel[mine[g]][LaneOf(job[g])] = g

\* What an operation knows of a reading that is still going through its
\* runtime: it will tell it, or has told it, to stop; and the reading is in
\* none of the lanes the operation has waited for.
Waited ==
  \A g, h \in Goroutines :
    InOperation(g) /\ pc[h] = "reading" /\ mine[h] = mine[g] =>
      /\ over[h] \/ (pc[g] = "claimed" /\ h \in told[g])
      /\ pc[g] # "claimed" =>
           \A k \in 1..3 : k <= at[g] => LaneOf(job[h]) # LaneOrder[k]
      /\ pc[g] \notin {"claimed", "quiesce"} => at[g] = 3

IInv == LaneTypeOK /\ Fetched /\ Owner /\ Holds /\ Waited

USE NobodyAssumption, BoundsAssumption

-----------------------------------------------------------------------------

\* Every reading has one of the lanes an operation waits for.
LEMMA LaneOfReading == \A j \in Readings : LaneOf(j) \in Lanes
  BY DEF Readings, LaneOf, Lanes

LEMMA EveryLaneInOrder ==
  \A l \in Lanes : \E k \in 1..3 : LaneOrder[k] = l
<1>1. LaneOrder[1] = "sweep" /\ LaneOrder[2] = "apps" /\ LaneOrder[3] = "asking"
  BY DEF LaneOrder
<1> QED BY <1>1 DEF Lanes

LEMMA InitIInv == Init => IInv
<1> SUFFICES ASSUME Init PROVE IInv
  OBVIOUS
<1>1. \A g \in Goroutines : pc[g] = "idle"
  BY DEF Init
<1>2. LaneTypeOK
  <2>1. /\ recorded \in BOOLEAN /\ over \in [Goroutines -> BOOLEAN]
        /\ pc \in [Goroutines -> Places]
        /\ job \in [Goroutines -> Readings \cup Operations]
        /\ told \in [Goroutines -> SUBSET Goroutines]
    BY DEF Init, Places, Readings
  <2>2. /\ created \in 0..MaxCreates /\ rt \in 0..MaxRuntimes
        /\ newest \in 0..MaxRuntimes /\ mine \in [Goroutines -> 0..MaxRuntimes]
        /\ at \in [Goroutines -> 0..3]
    BY DEF Init
  <2>3. /\ busy \in [Runtimes -> Goroutines \cup {Nobody}]
        /\ mode \in [Runtimes -> {"other", "stopping", "error"}]
        /\ held \in [Runtimes -> [Lanes -> Goroutines \cup {Nobody}]]
        /\ cancel \in [Runtimes -> [Lanes -> Goroutines \cup {Nobody}]]
    BY DEF Init
  <2> QED BY <2>1, <2>2, <2>3 DEF LaneTypeOK
<1>3. Fetched /\ Owner /\ Holds /\ Waited
  BY <1>1 DEF Fetched, Owner, Holds, Waited, Inside, InOperation
<1> QED BY <1>2, <1>3 DEF IInv

\* What a goroutine forgets keeps its kind.
LEMMA ForgetTypes ==
  ASSUME LaneTypeOK, NEW g \in Goroutines, Forget(g)
  PROVE  /\ job' \in [Goroutines -> Readings \cup Operations]
         /\ mine' \in [Goroutines -> 0..MaxRuntimes]
         /\ told' \in [Goroutines -> SUBSET Goroutines]
         /\ at' \in [Goroutines -> 0..3]
         /\ over' \in [Goroutines -> BOOLEAN]
<1>1. job' \in [Goroutines -> Readings \cup Operations]
  BY DEF LaneTypeOK, Forget, Readings
<1>2. mine' \in [Goroutines -> 0..MaxRuntimes]
  BY DEF LaneTypeOK, Forget
<1>3. told' \in [Goroutines -> SUBSET Goroutines]
  BY DEF LaneTypeOK, Forget
<1>4. at' \in [Goroutines -> 0..3]
  BY DEF LaneTypeOK, Forget
<1>5. over' \in [Goroutines -> BOOLEAN]
  BY DEF LaneTypeOK, Forget
<1> QED BY <1>1, <1>2, <1>3, <1>4, <1>5

\* The steps by which a goroutine comes to a runtime.
LEMMA RegistryIInv ==
  ASSUME IInv, NEW g \in Goroutines,
         Create(g) \/ Look(g) \/ Fetch(g) \/ FetchNothing(g)
  PROVE  IInv'
<1>1. CASE Create(g)
  <2>1. LaneTypeOK'
    BY <1>1 DEF Create, Go, locks, IInv, LaneTypeOK, Places, Readings,
       Operations, Lanes, Runtimes
  <2>2. Fetched'
    BY <1>1 DEF Create, Go, locks, IInv, LaneTypeOK, Fetched, Inside,
       InOperation, Runtimes
  <2>3. Owner'
    BY <1>1 DEF Create, Go, locks, IInv, LaneTypeOK, Fetched, Owner,
       Inside, InOperation
  <2>4. Holds'
    BY <1>1 DEF Create, Go, locks, IInv, LaneTypeOK, Fetched, Holds,
       Inside
  <2>5. Waited'
    BY <1>1 DEF Create, Go, locks, IInv, LaneTypeOK, Fetched, Owner,
       Holds, Waited, Inside, InOperation
  <2> QED BY <2>1, <2>2, <2>3, <2>4, <2>5 DEF IInv
<1>2. CASE Look(g)
  <2>1. LaneTypeOK'
    BY <1>2 DEF Look, Go, registry, locks, IInv, LaneTypeOK, Places,
       Readings, Operations, Lanes, Runtimes
  <2>2. Fetched'
    BY <1>2 DEF Look, Go, registry, locks, IInv, LaneTypeOK, Fetched,
       Inside, InOperation, Runtimes
  <2>3. Owner'
    BY <1>2 DEF Look, Go, registry, locks, IInv, LaneTypeOK, Fetched,
       Owner, Inside, InOperation
  <2>4. Holds'
    BY <1>2 DEF Look, Go, registry, locks, IInv, LaneTypeOK, Fetched,
       Holds, Inside
  <2>5. Waited'
    BY <1>2 DEF Look, Go, registry, locks, IInv, LaneTypeOK, Fetched,
       Owner, Holds, Waited, Inside, InOperation
  <2> QED BY <2>1, <2>2, <2>3, <2>4, <2>5 DEF IInv
<1>3. CASE Fetch(g)
  <2>1. LaneTypeOK'
    BY <1>3 DEF Fetch, Go, RuntimeOf, RuntimeNow, locks, IInv, LaneTypeOK,
       Places, Readings, Operations, Lanes, Runtimes
  <2>2. Fetched'
    BY <1>3 DEF Fetch, Go, RuntimeOf, RuntimeNow, locks, IInv, LaneTypeOK,
       Fetched, Inside, InOperation, Runtimes
  <2>3. Owner'
    BY <1>3 DEF Fetch, Go, RuntimeOf, RuntimeNow, locks, IInv, LaneTypeOK,
       Fetched, Owner, Inside, InOperation
  <2>4. Holds'
    BY <1>3 DEF Fetch, Go, RuntimeOf, RuntimeNow, locks, IInv, LaneTypeOK,
       Fetched, Holds, Inside
  <2>5. Waited'
    BY <1>3 DEF Fetch, Go, RuntimeOf, RuntimeNow, locks, IInv, LaneTypeOK,
       Fetched, Owner, Holds, Waited, Inside, InOperation
  <2> QED BY <2>1, <2>2, <2>3, <2>4, <2>5 DEF IInv
<1>4. CASE FetchNothing(g)
  <2>1. LaneTypeOK'
    BY <1>4 DEF FetchNothing, Go, Return, Forget, registry, locks, IInv,
       LaneTypeOK, Places, Readings, Operations, Lanes, Runtimes
  <2>2. Fetched'
    BY <1>4 DEF FetchNothing, Go, Return, Forget, registry, locks, IInv,
       LaneTypeOK, Fetched, Inside, InOperation, Runtimes
  <2>3. Owner'
    BY <1>4 DEF FetchNothing, Go, Return, Forget, registry, locks, IInv,
       LaneTypeOK, Fetched, Owner, Inside, InOperation
  <2>4. Holds'
    BY <1>4 DEF FetchNothing, Go, Return, Forget, registry, locks, IInv,
       LaneTypeOK, Fetched, Holds, Inside
  <2>5. Waited'
    BY <1>4 DEF FetchNothing, Go, Return, Forget, registry, locks, IInv,
       LaneTypeOK, Fetched, Owner, Holds, Waited, Inside, InOperation
  <2> QED BY <2>1, <2>2, <2>3, <2>4, <2>5 DEF IInv
<1> QED BY <1>1, <1>2, <1>3, <1>4

\* The steps of a reading.
LEMMA EnterIInv ==
  ASSUME IInv, NEW g \in Goroutines,
         Lock(g) \/ LockFails(g) \/ Enter(g) \/ EnterRefused(g) \/
           SweepWrites(g) \/ End(g) \/ Unlock(g)
  PROVE  IInv'
<1>1. CASE Lock(g)
  <2>1. LaneTypeOK'
    BY <1>1 DEF Lock, Go, registry, local, Lane, IInv, LaneTypeOK, Places,
       Readings, Operations, Lanes, Runtimes
  <2>2. Fetched'
    BY <1>1 DEF Lock, Go, registry, local, Lane, IInv, LaneTypeOK,
       Fetched, Inside, InOperation, Runtimes
  <2>3. Owner'
    BY <1>1 DEF Lock, Go, registry, local, Lane, IInv, LaneTypeOK,
       Fetched, Owner, Inside, InOperation
  <2>4. Holds'
    BY <1>1, LaneOfReading DEF Lock, Go, registry, local, Lane, IInv,
       LaneTypeOK, Fetched, Holds, Inside
  <2>5. Waited'
    BY <1>1 DEF Lock, Go, registry, local, Lane, IInv, LaneTypeOK,
       Fetched, Owner, Holds, Waited, Inside, InOperation
  <2> QED BY <2>1, <2>2, <2>3, <2>4, <2>5 DEF IInv
<1>2. CASE LockFails(g)
  <2>1. LaneTypeOK'
    BY <1>2 DEF LockFails, Go, Return, Forget, registry, locks, Lane,
       IInv, LaneTypeOK, Places, Readings, Operations, Lanes, Runtimes
  <2>2. Fetched'
    BY <1>2 DEF LockFails, Go, Return, Forget, registry, locks, Lane,
       IInv, LaneTypeOK, Fetched, Inside, InOperation, Runtimes
  <2>3. Owner'
    BY <1>2 DEF LockFails, Go, Return, Forget, registry, locks, Lane,
       IInv, LaneTypeOK, Fetched, Owner, Inside, InOperation
  <2>4. Holds'
    BY <1>2 DEF LockFails, Go, Return, Forget, registry, locks, Lane,
       IInv, LaneTypeOK, Fetched, Holds, Inside
  <2>5. Waited'
    BY <1>2 DEF LockFails, Go, Return, Forget, registry, locks, Lane,
       IInv, LaneTypeOK, Fetched, Owner, Holds, Waited, Inside,
       InOperation
  <2> QED BY <2>1, <2>2, <2>3, <2>4, <2>5 DEF IInv
<1>3. CASE Enter(g)
  <2>1. LaneTypeOK'
    BY <1>3 DEF Enter, Go, registry, Refused, IInv, LaneTypeOK, Places,
       Readings, Operations, Lanes, Runtimes
  <2>2. Fetched'
    BY <1>3 DEF Enter, Go, registry, Refused, IInv, LaneTypeOK, Fetched,
       Inside, InOperation, Runtimes
  <2>3. Owner'
    BY <1>3 DEF Enter, Go, registry, Refused, IInv, LaneTypeOK, Fetched,
       Owner, Inside, InOperation
  <2>4. Holds'
    BY <1>3, LaneOfReading DEF Enter, Go, registry, Refused, IInv,
       LaneTypeOK, Fetched, Holds, Inside
  <2>5. Waited'
    BY <1>3 DEF Enter, Go, registry, Refused, IInv, LaneTypeOK, Fetched,
       Owner, Holds, Waited, Inside, InOperation
  <2> QED BY <2>1, <2>2, <2>3, <2>4, <2>5 DEF IInv
<1>4. CASE EnterRefused(g)
  <2>1. LaneTypeOK'
    <3>1. Forget(g) /\ UNCHANGED <<recorded, created, rt, newest, mode, cancel>>
      BY <1>4 DEF EnterRefused, Return, registry
    <3>2. pc' \in [Goroutines -> Places]
      BY <1>4 DEF EnterRefused, Return, Go, IInv, LaneTypeOK, Places
    <3>3. /\ held' \in [Runtimes -> [Lanes -> Goroutines \cup {Nobody}]]
         /\ busy' \in [Runtimes -> Goroutines \cup {Nobody}]
      BY <1>4 DEF EnterRefused, locks, IInv, LaneTypeOK
    <3> QED BY <3>1, <3>2, <3>3, ForgetTypes DEF IInv, LaneTypeOK
  <2>2. Fetched'
    BY <1>4 DEF EnterRefused, Go, Return, Forget, registry, Refused, IInv,
       LaneTypeOK, Fetched, Inside, InOperation, Runtimes
  <2>3. Owner'
    BY <1>4 DEF EnterRefused, Go, Return, Forget, registry, Refused, IInv,
       LaneTypeOK, Fetched, Owner, Inside, InOperation
  <2>4. Holds'
    BY <1>4, LaneOfReading DEF EnterRefused, Go, Return, Forget, registry,
       Refused, IInv, LaneTypeOK, Fetched, Holds, Inside
  <2>5. Waited'
    BY <1>4 DEF EnterRefused, Go, Return, Forget, registry, Refused, IInv,
       LaneTypeOK, Fetched, Owner, Holds, Waited, Inside, InOperation
  <2> QED BY <2>1, <2>2, <2>3, <2>4, <2>5 DEF IInv
<1>5. CASE SweepWrites(g)
  <2>1. LaneTypeOK'
    BY <1>5 DEF SweepWrites, RuntimeOf, RuntimeNow, SetMode, locks, local,
       IInv, LaneTypeOK, Places, Readings, Operations, Lanes, Runtimes
  <2>2. Fetched'
    BY <1>5 DEF SweepWrites, RuntimeOf, RuntimeNow, SetMode, locks, local,
       IInv, LaneTypeOK, Fetched, Inside, InOperation, Runtimes
  <2>3. Owner'
    BY <1>5 DEF SweepWrites, RuntimeOf, RuntimeNow, SetMode, locks, local,
       IInv, LaneTypeOK, Fetched, Owner, Inside, InOperation
  <2>4. Holds'
    BY <1>5 DEF SweepWrites, RuntimeOf, RuntimeNow, SetMode, locks, local,
       IInv, LaneTypeOK, Fetched, Holds, Inside
  <2>5. Waited'
    BY <1>5 DEF SweepWrites, RuntimeOf, RuntimeNow, SetMode, locks, local,
       IInv, LaneTypeOK, Fetched, Owner, Holds, Waited, Inside,
       InOperation
  <2> QED BY <2>1, <2>2, <2>3, <2>4, <2>5 DEF IInv
<1>6. CASE End(g)
  <2>1. LaneTypeOK'
    BY <1>6 DEF End, Go, registry, local, IInv, LaneTypeOK, Places,
       Readings, Operations, Lanes, Runtimes
  <2>2. Fetched'
    BY <1>6 DEF End, Go, registry, local, IInv, LaneTypeOK, Fetched,
       Inside, InOperation, Runtimes
  <2>3. Owner'
    BY <1>6 DEF End, Go, registry, local, IInv, LaneTypeOK, Fetched,
       Owner, Inside, InOperation
  <2>4. Holds'
    BY <1>6, LaneOfReading DEF End, Go, registry, local, IInv, LaneTypeOK,
       Fetched, Holds, Inside
  <2>5. Waited'
    BY <1>6 DEF End, Go, registry, local, IInv, LaneTypeOK, Fetched,
       Owner, Holds, Waited, Inside, InOperation
  <2> QED BY <2>1, <2>2, <2>3, <2>4, <2>5 DEF IInv
<1>7. CASE Unlock(g)
  <2>1. LaneTypeOK'
    <3>1. Forget(g) /\ UNCHANGED <<recorded, created, rt, newest, mode, cancel>>
      BY <1>7 DEF Unlock, Return, registry
    <3>2. pc' \in [Goroutines -> Places]
      BY <1>7 DEF Unlock, Return, Go, IInv, LaneTypeOK, Places
    <3>3. /\ held' \in [Runtimes -> [Lanes -> Goroutines \cup {Nobody}]]
         /\ busy' \in [Runtimes -> Goroutines \cup {Nobody}]
      BY <1>7 DEF Unlock, locks, IInv, LaneTypeOK
    <3> QED BY <3>1, <3>2, <3>3, ForgetTypes DEF IInv, LaneTypeOK
  <2>2. Fetched'
    BY <1>7 DEF Unlock, Go, Return, Forget, registry, IInv, LaneTypeOK,
       Fetched, Inside, InOperation, Runtimes
  <2>3. Owner'
    BY <1>7 DEF Unlock, Go, Return, Forget, registry, IInv, LaneTypeOK,
       Fetched, Owner, Inside, InOperation
  <2>4. Holds'
    BY <1>7, LaneOfReading DEF Unlock, Go, Return, Forget, registry, IInv,
       LaneTypeOK, Fetched, Holds, Inside
  <2>5. Waited'
    BY <1>7 DEF Unlock, Go, Return, Forget, registry, IInv, LaneTypeOK,
       Fetched, Owner, Holds, Waited, Inside, InOperation
  <2> QED BY <2>1, <2>2, <2>3, <2>4, <2>5 DEF IInv
<1> QED BY <1>1, <1>2, <1>3, <1>4, <1>5, <1>6, <1>7

\* The steps from the claim to the start of the work.
LEMMA ClaimIInv ==
  ASSUME IInv, NEW g \in Goroutines,
         Claim(g) \/ ClaimRefused(g) \/ Tell(g) \/ AllTold(g) \/
           Quiesce(g) \/ Quiesced(g)
  PROVE  IInv'
<1>1. CASE Claim(g)
  <2>1. {cancel[mine[g]][l] : l \in Lanes} \ {Nobody} \subseteq Goroutines
    BY <1>1 DEF Claim, Go, IInv, LaneTypeOK, Fetched
  <2>2. LaneTypeOK'
    BY <1>1, <2>1 DEF Claim, Go, registry, locks, IInv, LaneTypeOK, Places
  <2>3. Fetched'
    BY <1>1 DEF Claim, Go, IInv, LaneTypeOK, Fetched, Inside, InOperation
  <2>4. Owner'
    BY <1>1 DEF Claim, Go, IInv, LaneTypeOK, Fetched, Owner, InOperation
  <2>5. Holds'
    BY <1>1 DEF Claim, Go, locks, IInv, LaneTypeOK, Holds, Inside
  <2>6. Waited'
    <3>1. \A h \in Goroutines :
            pc[h] = "reading" /\ mine[h] = mine[g] => h \in told'[g]
      <4> SUFFICES ASSUME NEW h \in Goroutines, pc[h] = "reading",
                          mine[h] = mine[g]
                   PROVE  h \in told'[g]
        OBVIOUS
      <4>1. cancel[mine[g]][LaneOf(job[h])] = h /\ LaneOf(job[h]) \in Lanes
        BY LaneOfReading DEF IInv, Holds, Inside
      <4>2. told'[g] = {cancel[mine[g]][l] : l \in Lanes} \ {Nobody}
        BY <1>1 DEF Claim, IInv, LaneTypeOK
      <4> QED BY <4>1, <4>2
    <3>2. /\ pc'[g] = "claimed" /\ mine' = mine /\ over' = over /\ at' = at
          /\ \A h \in Goroutines \ {g} : pc'[h] = pc[h] /\ told'[h] = told[h]
      BY <1>1 DEF Claim, Go, IInv, LaneTypeOK
    <3>3. \A h \in Goroutines \ {g} : InOperation(h) => mine[h] # mine[g]
      BY <1>1 DEF Claim, IInv, Owner
    <3>4. \A d \in Goroutines : InOperation(d)' = (d = g \/ InOperation(d))
      BY <3>2 DEF InOperation
    <3>5. job' = job /\ pc[g] = "fetched"
      BY <1>1 DEF Claim, Go
    <3>6. SUFFICES ASSUME NEW d \in Goroutines, NEW h \in Goroutines,
                          InOperation(d)', pc'[h] = "reading",
                          mine[h] = mine[d]
                   PROVE
                     /\ over[h] \/ (pc'[d] = "claimed" /\ h \in told'[d])
                     /\ pc'[d] # "claimed" =>
                          \A k \in 1..3 :
                            k <= at[d] => LaneOf(job[h]) # LaneOrder[k]
                     /\ pc'[d] \notin {"claimed", "quiesce"} => at[d] = 3
      BY <3>2, <3>5 DEF Waited
    <3>7. pc[h] = "reading"
      BY <3>2, <3>6
    <3>8. CASE d = g
      BY <3>1, <3>2, <3>6, <3>7, <3>8
    <3>9. CASE d # g
      BY <3>2, <3>4, <3>6, <3>7, <3>9 DEF IInv, Waited
    <3> QED BY <3>8, <3>9
  <2> QED BY <2>2, <2>3, <2>4, <2>5, <2>6 DEF IInv
<1>2. CASE ClaimRefused(g)
  <2>1. LaneTypeOK'
    BY <1>2 DEF ClaimRefused, Go, Return, Forget, registry, locks, IInv,
       LaneTypeOK, Places, Readings, Operations, Lanes, Runtimes
  <2>2. Fetched'
    BY <1>2 DEF ClaimRefused, Go, Return, Forget, registry, locks, IInv,
       LaneTypeOK, Fetched, Inside, InOperation, Runtimes
  <2>3. Owner'
    BY <1>2 DEF ClaimRefused, Go, Return, Forget, registry, locks, IInv,
       LaneTypeOK, Fetched, Owner, Inside, InOperation
  <2>4. Holds'
    BY <1>2 DEF ClaimRefused, Go, Return, Forget, registry, locks, IInv,
       LaneTypeOK, Fetched, Holds, Inside
  <2>5. Waited'
    BY <1>2 DEF ClaimRefused, Go, Return, Forget, registry, locks, IInv,
       LaneTypeOK, Fetched, Owner, Holds, Waited, Inside, InOperation
  <2> QED BY <2>1, <2>2, <2>3, <2>4, <2>5 DEF IInv
<1>3. CASE Tell(g)
  <2>1. LaneTypeOK'
    BY <1>3 DEF Tell, registry, locks, IInv, LaneTypeOK, Places, Readings,
       Operations, Lanes, Runtimes
  <2>2. Fetched'
    BY <1>3 DEF Tell, registry, locks, IInv, LaneTypeOK, Fetched, Inside,
       InOperation, Runtimes
  <2>3. Owner'
    BY <1>3 DEF Tell, registry, locks, IInv, LaneTypeOK, Fetched, Owner,
       Inside, InOperation
  <2>4. Holds'
    BY <1>3 DEF Tell, registry, locks, IInv, LaneTypeOK, Fetched, Holds,
       Inside
  <2>5. Waited'
    BY <1>3 DEF Tell, registry, locks, IInv, LaneTypeOK, Fetched, Owner,
       Holds, Waited, Inside, InOperation
  <2> QED BY <2>1, <2>2, <2>3, <2>4, <2>5 DEF IInv
<1>4. CASE AllTold(g)
  <2>1. LaneTypeOK'
    BY <1>4 DEF AllTold, Go, registry, locks, IInv, LaneTypeOK, Places,
       Readings, Operations, Lanes, Runtimes
  <2>2. Fetched'
    BY <1>4 DEF AllTold, Go, registry, locks, IInv, LaneTypeOK, Fetched,
       Inside, InOperation, Runtimes
  <2>3. Owner'
    BY <1>4 DEF AllTold, Go, registry, locks, IInv, LaneTypeOK, Fetched,
       Owner, Inside, InOperation
  <2>4. Holds'
    BY <1>4 DEF AllTold, Go, registry, locks, IInv, LaneTypeOK, Fetched,
       Holds, Inside
  <2>5. Waited'
    BY <1>4 DEF AllTold, Go, registry, locks, IInv, LaneTypeOK, Fetched,
       Owner, Holds, Waited, Inside, InOperation
  <2> QED BY <2>1, <2>2, <2>3, <2>4, <2>5 DEF IInv
<1>5. CASE Quiesce(g)
  <2>1. /\ pc[g] = "quiesce" /\ at[g] \in 0..2
        /\ at' = [at EXCEPT ![g] = at[g] + 1]
        /\ held[mine[g]][LaneOrder[at[g] + 1]] = Nobody
        /\ UNCHANGED <<recorded, created, rt, newest, busy, mode, held, cancel,
                       pc, job, mine, told, over>>
    BY <1>5 DEF Quiesce, registry, locks, IInv, LaneTypeOK
  <2>2. LaneTypeOK'
    <3>1. at' \in [Goroutines -> 0..3]
      BY <2>1 DEF IInv, LaneTypeOK
    <3> QED BY <2>1, <3>1 DEF IInv, LaneTypeOK
  <2>3. Fetched' /\ Owner' /\ Holds'
    BY <2>1 DEF IInv, Fetched, Owner, Holds, Inside, InOperation
  <2>4. Waited'
    <3>1. \A h \in Goroutines :
            pc[h] = "reading" /\ mine[h] = mine[g]
              => LaneOf(job[h]) # LaneOrder[at[g] + 1]
      BY <2>1 DEF IInv, Holds, Inside
    <3>2. \A h \in Goroutines :
            pc[h] = "reading" /\ mine[h] = mine[g] =>
              \A k \in 1..3 : k <= at[g] + 1 => LaneOf(job[h]) # LaneOrder[k]
      <4> SUFFICES ASSUME NEW h \in Goroutines, pc[h] = "reading",
                          mine[h] = mine[g], NEW k \in 1..3, k <= at[g] + 1
                   PROVE  LaneOf(job[h]) # LaneOrder[k]
        OBVIOUS
      <4>1. CASE k = at[g] + 1
        BY <3>1, <4>1
      <4>2. CASE k <= at[g]
        BY <2>1, <4>2 DEF IInv, Waited, InOperation
      <4> QED BY <2>1, <4>1, <4>2
    <3>3. at'[g] = at[g] + 1 /\ \A h \in Goroutines \ {g} : at'[h] = at[h]
      BY <2>1 DEF IInv, LaneTypeOK
    <3> SUFFICES ASSUME NEW d \in Goroutines, NEW h \in Goroutines,
                        InOperation(d), pc[h] = "reading", mine[h] = mine[d]
                 PROVE
                   /\ over[h] \/ (pc[d] = "claimed" /\ h \in told[d])
                   /\ pc[d] # "claimed" =>
                        \A k \in 1..3 :
                          k <= at'[d] => LaneOf(job[h]) # LaneOrder[k]
                   /\ pc[d] \notin {"claimed", "quiesce"} => at'[d] = 3
      BY <2>1 DEF Waited, InOperation
    <3>4. CASE d = g
      BY <2>1, <3>2, <3>3, <3>4 DEF IInv, Waited
    <3>5. CASE d # g
      BY <3>3, <3>5 DEF IInv, Waited
    <3> QED BY <3>4, <3>5
  <2> QED BY <2>2, <2>3, <2>4 DEF IInv
<1>6. CASE Quiesced(g)
  <2>1. LaneTypeOK'
    BY <1>6 DEF Quiesced, Go, registry, locks, local, IInv, LaneTypeOK,
       Places, Readings, Operations, Lanes, Runtimes
  <2>2. Fetched'
    BY <1>6 DEF Quiesced, Go, registry, locks, local, IInv, LaneTypeOK,
       Fetched, Inside, InOperation, Runtimes
  <2>3. Owner'
    BY <1>6 DEF Quiesced, Go, registry, locks, local, IInv, LaneTypeOK,
       Fetched, Owner, Inside, InOperation
  <2>4. Holds'
    BY <1>6 DEF Quiesced, Go, registry, locks, local, IInv, LaneTypeOK,
       Fetched, Holds, Inside
  <2>5. Waited'
    BY <1>6 DEF Quiesced, Go, registry, locks, local, IInv, LaneTypeOK,
       Fetched, Owner, Holds, Waited, Inside, InOperation
  <2> QED BY <2>1, <2>2, <2>3, <2>4, <2>5 DEF IInv
<1> QED BY <1>1, <1>2, <1>3, <1>4, <1>5, <1>6

\* The work itself, and giving the seat up.
LEMMA WorkIInv ==
  ASSUME IInv, NEW g \in Goroutines,
         WorkWrites(g) \/ StopBegins(g) \/ StopSucceeds(g) \/
           StartSucceeds(g) \/ DeleteRecord(g) \/ DropRuntime(g) \/
           WorkFails(g) \/ Release(g) \/ Fail(g)
  PROVE  IInv'
<1>1. CASE WorkWrites(g)
  <2>1. LaneTypeOK'
    BY <1>1 DEF WorkWrites, RuntimeOf, RuntimeNow, SetMode, locks, local,
       IInv, LaneTypeOK, Places, Readings, Operations, Lanes, Runtimes
  <2>2. Fetched'
    BY <1>1 DEF WorkWrites, RuntimeOf, RuntimeNow, SetMode, locks, local,
       IInv, LaneTypeOK, Fetched, Inside, InOperation, Runtimes
  <2>3. Owner'
    BY <1>1 DEF WorkWrites, RuntimeOf, RuntimeNow, SetMode, locks, local,
       IInv, LaneTypeOK, Fetched, Owner, Inside, InOperation
  <2>4. Holds'
    BY <1>1 DEF WorkWrites, RuntimeOf, RuntimeNow, SetMode, locks, local,
       IInv, LaneTypeOK, Fetched, Holds, Inside
  <2>5. Waited'
    BY <1>1 DEF WorkWrites, RuntimeOf, RuntimeNow, SetMode, locks, local,
       IInv, LaneTypeOK, Fetched, Owner, Holds, Waited, Inside,
       InOperation
  <2> QED BY <2>1, <2>2, <2>3, <2>4, <2>5 DEF IInv
<1>2. CASE StopBegins(g)
  <2>1. LaneTypeOK'
    BY <1>2 DEF StopBegins, Go, RuntimeOf, RuntimeNow, SetMode, locks,
       local, IInv, LaneTypeOK, Places, Readings, Operations, Lanes,
       Runtimes
  <2>2. Fetched'
    BY <1>2 DEF StopBegins, Go, RuntimeOf, RuntimeNow, SetMode, locks,
       local, IInv, LaneTypeOK, Fetched, Inside, InOperation, Runtimes
  <2>3. Owner'
    BY <1>2 DEF StopBegins, Go, RuntimeOf, RuntimeNow, SetMode, locks,
       local, IInv, LaneTypeOK, Fetched, Owner, Inside, InOperation
  <2>4. Holds'
    BY <1>2 DEF StopBegins, Go, RuntimeOf, RuntimeNow, SetMode, locks,
       local, IInv, LaneTypeOK, Fetched, Holds, Inside
  <2>5. Waited'
    BY <1>2 DEF StopBegins, Go, RuntimeOf, RuntimeNow, SetMode, locks,
       local, IInv, LaneTypeOK, Fetched, Owner, Holds, Waited, Inside,
       InOperation
  <2> QED BY <2>1, <2>2, <2>3, <2>4, <2>5 DEF IInv
<1>3. CASE StopSucceeds(g)
  <2>1. LaneTypeOK'
    BY <1>3 DEF StopSucceeds, Go, RuntimeOf, RuntimeNow, SetMode, locks,
       local, IInv, LaneTypeOK, Places, Readings, Operations, Lanes,
       Runtimes
  <2>2. Fetched'
    BY <1>3 DEF StopSucceeds, Go, RuntimeOf, RuntimeNow, SetMode, locks,
       local, IInv, LaneTypeOK, Fetched, Inside, InOperation, Runtimes
  <2>3. Owner'
    BY <1>3 DEF StopSucceeds, Go, RuntimeOf, RuntimeNow, SetMode, locks,
       local, IInv, LaneTypeOK, Fetched, Owner, Inside, InOperation
  <2>4. Holds'
    BY <1>3 DEF StopSucceeds, Go, RuntimeOf, RuntimeNow, SetMode, locks,
       local, IInv, LaneTypeOK, Fetched, Holds, Inside
  <2>5. Waited'
    BY <1>3 DEF StopSucceeds, Go, RuntimeOf, RuntimeNow, SetMode, locks,
       local, IInv, LaneTypeOK, Fetched, Owner, Holds, Waited, Inside,
       InOperation
  <2> QED BY <2>1, <2>2, <2>3, <2>4, <2>5 DEF IInv
<1>4. CASE StartSucceeds(g)
  <2>1. LaneTypeOK'
    BY <1>4 DEF StartSucceeds, Go, registry, locks, local, IInv,
       LaneTypeOK, Places, Readings, Operations, Lanes, Runtimes
  <2>2. Fetched'
    BY <1>4 DEF StartSucceeds, Go, registry, locks, local, IInv,
       LaneTypeOK, Fetched, Inside, InOperation, Runtimes
  <2>3. Owner'
    BY <1>4 DEF StartSucceeds, Go, registry, locks, local, IInv,
       LaneTypeOK, Fetched, Owner, Inside, InOperation
  <2>4. Holds'
    BY <1>4 DEF StartSucceeds, Go, registry, locks, local, IInv,
       LaneTypeOK, Fetched, Holds, Inside
  <2>5. Waited'
    BY <1>4 DEF StartSucceeds, Go, registry, locks, local, IInv,
       LaneTypeOK, Fetched, Owner, Holds, Waited, Inside, InOperation
  <2> QED BY <2>1, <2>2, <2>3, <2>4, <2>5 DEF IInv
<1>5. CASE DeleteRecord(g)
  <2>1. LaneTypeOK'
    BY <1>5 DEF DeleteRecord, Go, locks, local, IInv, LaneTypeOK, Places,
       Readings, Operations, Lanes, Runtimes
  <2>2. Fetched'
    BY <1>5 DEF DeleteRecord, Go, locks, local, IInv, LaneTypeOK, Fetched,
       Inside, InOperation, Runtimes
  <2>3. Owner'
    BY <1>5 DEF DeleteRecord, Go, locks, local, IInv, LaneTypeOK, Fetched,
       Owner, Inside, InOperation
  <2>4. Holds'
    BY <1>5 DEF DeleteRecord, Go, locks, local, IInv, LaneTypeOK, Fetched,
       Holds, Inside
  <2>5. Waited'
    BY <1>5 DEF DeleteRecord, Go, locks, local, IInv, LaneTypeOK, Fetched,
       Owner, Holds, Waited, Inside, InOperation
  <2> QED BY <2>1, <2>2, <2>3, <2>4, <2>5 DEF IInv
<1>6. CASE DropRuntime(g)
  <2>1. LaneTypeOK'
    BY <1>6 DEF DropRuntime, Go, locks, local, IInv, LaneTypeOK, Places,
       Readings, Operations, Lanes, Runtimes
  <2>2. Fetched'
    BY <1>6 DEF DropRuntime, Go, locks, local, IInv, LaneTypeOK, Fetched,
       Inside, InOperation, Runtimes
  <2>3. Owner'
    BY <1>6 DEF DropRuntime, Go, locks, local, IInv, LaneTypeOK, Fetched,
       Owner, Inside, InOperation
  <2>4. Holds'
    BY <1>6 DEF DropRuntime, Go, locks, local, IInv, LaneTypeOK, Fetched,
       Holds, Inside
  <2>5. Waited'
    BY <1>6 DEF DropRuntime, Go, locks, local, IInv, LaneTypeOK, Fetched,
       Owner, Holds, Waited, Inside, InOperation
  <2> QED BY <2>1, <2>2, <2>3, <2>4, <2>5 DEF IInv
<1>7. CASE WorkFails(g)
  <2>1. LaneTypeOK'
    BY <1>7 DEF WorkFails, registry, locks, local, Working, IInv,
       LaneTypeOK, Places, Readings, Operations, Lanes, Runtimes
  <2>2. Fetched'
    BY <1>7 DEF WorkFails, registry, locks, local, Working, IInv,
       LaneTypeOK, Fetched, Inside, InOperation, Runtimes
  <2>3. Owner'
    BY <1>7 DEF WorkFails, registry, locks, local, Working, IInv,
       LaneTypeOK, Fetched, Owner, Inside, InOperation
  <2>4. Holds'
    BY <1>7 DEF WorkFails, registry, locks, local, Working, IInv,
       LaneTypeOK, Fetched, Holds, Inside
  <2>5. Waited'
    BY <1>7 DEF WorkFails, registry, locks, local, Working, IInv,
       LaneTypeOK, Fetched, Owner, Holds, Waited, Inside, InOperation
  <2> QED BY <2>1, <2>2, <2>3, <2>4, <2>5 DEF IInv
<1>8. CASE Release(g)
  <2>1. LaneTypeOK'
    <3>1. Forget(g) /\ UNCHANGED <<recorded, created, rt, newest, mode, cancel>>
      BY <1>8 DEF Release, registry, locks
    <3>2. pc' \in [Goroutines -> Places]
      BY <1>8 DEF Release, Return, Go, IInv, LaneTypeOK, Places
    <3>3. /\ held' \in [Runtimes -> [Lanes -> Goroutines \cup {Nobody}]]
         /\ busy' \in [Runtimes -> Goroutines \cup {Nobody}]
      BY <1>8 DEF Release, locks, IInv, LaneTypeOK
    <3> QED BY <3>1, <3>2, <3>3, ForgetTypes DEF IInv, LaneTypeOK
  <2>2. Fetched'
    BY <1>8 DEF Release, Forget, registry, locks, IInv, LaneTypeOK,
       Fetched, Inside, InOperation, Runtimes
  <2>3. Owner'
    BY <1>8 DEF Release, Forget, registry, locks, IInv, LaneTypeOK,
       Fetched, Owner, Inside, InOperation
  <2>4. Holds'
    BY <1>8 DEF Release, Forget, registry, locks, IInv, LaneTypeOK,
       Fetched, Holds, Inside
  <2>5. Waited'
    BY <1>8 DEF Release, Forget, registry, locks, IInv, LaneTypeOK,
       Fetched, Owner, Holds, Waited, Inside, InOperation
  <2> QED BY <2>1, <2>2, <2>3, <2>4, <2>5 DEF IInv
<1>9. CASE Fail(g)
  <2>1. LaneTypeOK'
    BY <1>9 DEF Fail, Go, RuntimeOf, RuntimeNow, SetMode, locks, local,
       IInv, LaneTypeOK, Places, Readings, Operations, Lanes, Runtimes
  <2>2. Fetched'
    BY <1>9 DEF Fail, Go, RuntimeOf, RuntimeNow, SetMode, locks, local,
       IInv, LaneTypeOK, Fetched, Inside, InOperation, Runtimes
  <2>3. Owner'
    BY <1>9 DEF Fail, Go, RuntimeOf, RuntimeNow, SetMode, locks, local,
       IInv, LaneTypeOK, Fetched, Owner, Inside, InOperation
  <2>4. Holds'
    BY <1>9 DEF Fail, Go, RuntimeOf, RuntimeNow, SetMode, locks, local,
       IInv, LaneTypeOK, Fetched, Holds, Inside
  <2>5. Waited'
    BY <1>9 DEF Fail, Go, RuntimeOf, RuntimeNow, SetMode, locks, local,
       IInv, LaneTypeOK, Fetched, Owner, Holds, Waited, Inside,
       InOperation
  <2> QED BY <2>1, <2>2, <2>3, <2>4, <2>5 DEF IInv
<1> QED BY <1>1, <1>2, <1>3, <1>4, <1>5, <1>6, <1>7, <1>8, <1>9

LEMMA StutterIInv == ASSUME IInv, UNCHANGED laneVars PROVE IInv'
  BY DEF laneVars, IInv, LaneTypeOK, Fetched, Owner, Holds, Waited, Inside,
     InOperation

LEMMA NextIInv == IInv /\ [Next]_laneVars => IInv'
<1> SUFFICES ASSUME IInv, [Next]_laneVars PROVE IInv'
  OBVIOUS
<1>1. CASE UNCHANGED laneVars
  BY <1>1, StutterIInv
<1>2. CASE Next
  BY <1>2, RegistryIInv, EnterIInv, ClaimIInv, WorkIInv
     DEF Next, ReadingStep, OperationStep
<1> QED BY <1>1, <1>2

-----------------------------------------------------------------------------

\* The inductive invariant holds of every behaviour.
THEOREM Inductive == Spec => []IInv
  BY InitIInv, NextIInv, PTL DEF Spec

\* Every variable keeps its kind, whatever the bounds.
THEOREM TypeCorrect == Spec => []LaneTypeOK
  BY Inductive, PTL DEF IInv

\* manager.go's claim, enter and quiesce: while an operation works on a runtime
\* nothing reads through it, in any lane, for any number of goroutines.
THEOREM Exclusion == Spec => []NoOverlap
<1>1. IInv => NoOverlap
  <2> SUFFICES ASSUME IInv, NEW g \in Goroutines, NEW h \in Goroutines,
                      Working(g), pc[h] = "reading", mine[h] = mine[g]
               PROVE  FALSE
    BY DEF NoOverlap
  <2>1. InOperation(g) /\ pc[g] \notin {"claimed", "quiesce"}
    BY DEF Working, InOperation
  <2>2. \A k \in 1..3 : LaneOf(job[h]) # LaneOrder[k]
    BY <2>1 DEF IInv, Waited
  <2>3. LaneOf(job[h]) \in Lanes
    BY LaneOfReading DEF IInv, Holds, Inside
  <2> QED BY <2>2, <2>3, EveryLaneInOrder
<1> QED BY <1>1, Inductive, PTL

\* operate runs "exactly one at a time" on one runtime.
THEOREM OneAtATime == Spec => []OneOperation
<1>1. IInv => OneOperation
  BY DEF IInv, Owner, OneOperation
<1> QED BY <1>1, Inductive, PTL

\* claim's cancels miss no reading that is in: quiesce never waits for one that
\* nobody told to stop.
THEOREM EveryReadingTold == Spec => []NobodyReadsUntold
<1>1. IInv => NobodyReadsUntold
  BY DEF IInv, Waited, NobodyReadsUntold
<1> QED BY <1>1, Inductive, PTL

-----------------------------------------------------------------------------
(* On every runtime readings and operations take turns: every step is one of *)
(* SeatTurns' for the runtime it is about, and none for the others.          *)

Reads(h, i) == pc[h] = "reading" /\ mine[h] = i
Works(h, i) == Working(h) /\ mine[h] = i

\* A step that lets nobody into runtime i and nobody out.
LEMMA Aside ==
  ASSUME NEW i \in Runtimes, busy'[i] = busy[i],
         \A h \in Goroutines : Reads(h, i)' <=> Reads(h, i),
         \A h \in Goroutines : Works(h, i)' <=> Works(h, i)
  PROVE  UNCHANGED Turn(i)!vars
<1>1. {h \in Goroutines : Reads(h, i)}' = {h \in Goroutines : Reads(h, i)}
  BY DEF Reads
<1>2. (\E h \in Goroutines : Works(h, i))' <=> \E h \in Goroutines : Works(h, i)
  BY DEF Works, Working
<1> QED BY <1>1, <1>2 DEF Turn!vars, Reads, Works, Working

\* The steps that are nobody's turn.
LEMMA NoTurn ==
  ASSUME IInv, NEW g \in Goroutines, NEW i \in Runtimes,
         \/ Create(g) \/ Look(g) \/ Fetch(g) \/ FetchNothing(g) \/ Lock(g)
         \/ LockFails(g) \/ EnterRefused(g) \/ SweepWrites(g) \/ Unlock(g)
         \/ ClaimRefused(g) \/ Tell(g) \/ AllTold(g) \/ Quiesce(g)
         \/ WorkWrites(g) \/ StopBegins(g) \/ DeleteRecord(g) \/ Fail(g)
  PROVE  UNCHANGED Turn(i)!vars
<1>1. busy' = busy
  BY DEF Create, Look, Fetch, FetchNothing, Lock, LockFails, EnterRefused,
     SweepWrites, Unlock, ClaimRefused, Tell, AllTold, Quiesce, WorkWrites,
     StopBegins, DeleteRecord, Fail
<1>2. \A h \in Goroutines \ {g} : pc'[h] = pc[h] /\ mine'[h] = mine[h]
  BY DEF Create, Look, Fetch, FetchNothing, Lock, LockFails, EnterRefused,
     SweepWrites, Unlock, ClaimRefused, Tell, AllTold, Quiesce, WorkWrites,
     StopBegins, DeleteRecord, Fail, Return, Forget, Go, local, IInv, LaneTypeOK
<1>3. \/ mine'[g] = mine[g] /\ pc'[g] = pc[g]
      \/ mine'[g] = mine[g] /\ Working(g) /\ Working(g)'
      \/ /\ pc[g] # "reading" /\ ~Working(g)
         /\ pc'[g] # "reading" /\ ~Working(g)'
  BY DEF Create, Look, Fetch, FetchNothing, Lock, LockFails, EnterRefused,
     SweepWrites, Unlock, ClaimRefused, Tell, AllTold, Quiesce, WorkWrites,
     StopBegins, DeleteRecord, Fail, Return, Go, local, Working, IInv,
     LaneTypeOK
<1>4. \A h \in Goroutines : Reads(h, i)' <=> Reads(h, i)
  BY <1>2, <1>3 DEF Reads, Working
<1>5. \A h \in Goroutines : Works(h, i)' <=> Works(h, i)
  BY <1>2, <1>3 DEF Works, Working
<1> QED BY <1>1, <1>4, <1>5, Aside

\* What does not move a goroutine of runtime i leaves i alone.
LEMMA Elsewhere ==
  ASSUME NEW g \in Goroutines, NEW i \in Runtimes, mine[g] # i,
         mine'[g] # i \/ (pc'[g] # "reading" /\ ~Working(g)'),
         busy'[i] = busy[i],
         \A h \in Goroutines \ {g} : pc'[h] = pc[h] /\ mine'[h] = mine[h]
  PROVE  UNCHANGED Turn(i)!vars
<1>1. \A h \in Goroutines : Reads(h, i)' <=> Reads(h, i)
  BY DEF Reads
<1>2. \A h \in Goroutines : Works(h, i)' <=> Works(h, i)
  BY DEF Works, Working
<1> QED BY <1>1, <1>2, Aside

\* A reading begins and ends.
LEMMA ReadingTurn ==
  ASSUME IInv, NEW g \in Goroutines, NEW i \in Runtimes, Enter(g) \/ End(g)
  PROVE  [Turn(i)!Next]_(Turn(i)!vars)
<1>1. /\ mine[g] \in Runtimes /\ UNCHANGED <<busy, mine>>
      /\ \A h \in Goroutines \ {g} : pc'[h] = pc[h]
      /\ ~Working(g) /\ ~Working(g)'
  BY DEF Enter, End, Go, local, IInv, LaneTypeOK, Fetched, Inside, Working
<1>2. CASE mine[g] # i
  BY <1>1, <1>2, Elsewhere
<1>3. ASSUME mine[g] = i PROVE Turn(i)!Next
  <2> DEFINE readers == {h \in Goroutines : pc[h] = "reading" /\ mine[h] = i}
             works   == \E h \in Goroutines : Working(h) /\ mine[h] = i
  <2>1. works' <=> works
    BY <1>1 DEF Working
  <2>2. CASE Enter(g)
    <3>1. busy[i] = Nobody /\ pc[g] = "locked" /\ pc'[g] = "reading"
      BY <1>3, <2>2 DEF Enter, Refused, Go, IInv, LaneTypeOK
    <3>2. readers' = readers \cup {g}
      BY <1>1, <1>3, <3>1
    <3>3. Turn(i)!Enter
      BY <1>1, <2>1, <3>1, <3>2 DEF Turn!Enter
    <3> QED BY <3>3 DEF Turn!Next
  <2>3. CASE End(g)
    <3>1. pc[g] = "reading" /\ pc'[g] = "leaving"
      BY <2>3 DEF End, Go, IInv, LaneTypeOK
    <3>2. g \in readers /\ readers' = readers \ {g}
      BY <1>1, <1>3, <3>1
    <3>3. Turn(i)!Leave
      BY <1>1, <2>1, <3>2 DEF Turn!Leave
    <3> QED BY <3>3 DEF Turn!Next
  <2> QED BY <2>2, <2>3
<1> QED BY <1>2, <1>3

\* An operation claims the seat, begins its work, is done with it and lets go.
LEMMA OperationTurn ==
  ASSUME IInv, NEW g \in Goroutines, NEW i \in Runtimes,
         \/ Claim(g) \/ Quiesced(g) \/ StopSucceeds(g) \/ StartSucceeds(g)
         \/ DropRuntime(g) \/ WorkFails(g) \/ Release(g)
  PROVE  [Turn(i)!Next]_(Turn(i)!vars)
<1>1. /\ mine[g] \in Runtimes
      /\ \A h \in Goroutines \ {g} : pc'[h] = pc[h] /\ mine'[h] = mine[h]
      /\ \A k \in Runtimes \ {mine[g]} : busy'[k] = busy[k]
      /\ pc[g] # "reading" /\ pc'[g] # "reading"
  BY DEF Claim, Quiesced, StopSucceeds, StartSucceeds, DropRuntime, WorkFails,
     Release, Forget, Go, local, Working, IInv, LaneTypeOK, Fetched,
     InOperation
<1>2. mine'[g] = mine[g] \/ ~Working(g)'
  BY DEF Claim, Quiesced, StopSucceeds, StartSucceeds, DropRuntime, WorkFails,
     Release, Forget, Go, local, Working, IInv, LaneTypeOK
<1>3. CASE mine[g] # i
  BY <1>1, <1>2, <1>3, Elsewhere
<1>4. ASSUME mine[g] = i PROVE Turn(i)!Next
  <2> DEFINE readers == {h \in Goroutines : pc[h] = "reading" /\ mine[h] = i}
             works   == \E h \in Goroutines : Working(h) /\ mine[h] = i
  <2>1. readers' = readers
    BY <1>1
  <2>2. InOperation(g) =>
          busy[i] # Nobody /\ \A h \in Goroutines \ {g} :
                               ~(Working(h) /\ mine[h] = i)
    BY <1>4 DEF IInv, Owner, Working, InOperation
  <2>3. CASE Claim(g)
    <3>1. busy[i] = Nobody /\ busy'[i] = g
      BY <1>1, <1>4, <2>3 DEF Claim, IInv, LaneTypeOK
    <3>2. ~Working(g) /\ ~Working(g)'
      BY <2>3 DEF Claim, Go, Working, IInv, LaneTypeOK
    <3>3. works' <=> works
      BY <1>1, <3>2 DEF Working
    <3>4. Turn(i)!Claim
      BY <2>1, <3>1, <3>3 DEF Turn!Claim
    <3> QED BY <3>4 DEF Turn!Next
  <2>4. CASE Quiesced(g)
    <3>1. /\ pc[g] = "quiesce" /\ pc'[g] = "work" /\ at[g] = 3
          /\ UNCHANGED <<busy, mine>>
      BY <2>4 DEF Quiesced, Go, local, IInv, LaneTypeOK
    <3>2. busy[i] # Nobody /\ ~works
      BY <2>2, <3>1 DEF InOperation, Working
    <3>3. readers = {}
      <4> SUFFICES ASSUME NEW h \in readers PROVE FALSE
        OBVIOUS
      <4>1. \A k \in 1..3 : LaneOf(job[h]) # LaneOrder[k]
        BY <1>4, <3>1 DEF IInv, Waited, InOperation
      <4>2. LaneOf(job[h]) \in Lanes
        BY LaneOfReading DEF IInv, Holds, Inside
      <4> QED BY <4>1, <4>2, EveryLaneInOrder
    <3>4. works'
      BY <1>4, <3>1 DEF Working
    <3>5. Turn(i)!Work
      BY <2>1, <3>1, <3>2, <3>3, <3>4 DEF Turn!Work
    <3> QED BY <3>5 DEF Turn!Next
  <2>5. CASE StopSucceeds(g) \/ StartSucceeds(g) \/ DropRuntime(g) \/ WorkFails(g)
    <3>1. Working(g) /\ ~Working(g)' /\ busy' = busy
      BY <2>5 DEF StopSucceeds, StartSucceeds, DropRuntime, WorkFails, Go,
         Working, IInv, LaneTypeOK
    <3>2. works /\ ~works'
      BY <1>1, <1>4, <2>2, <3>1 DEF Working, InOperation
    <3>3. Turn(i)!Done
      BY <2>1, <3>1, <3>2 DEF Turn!Done
    <3> QED BY <3>3 DEF Turn!Next
  <2>6. CASE Release(g)
    <3>1. InOperation(g) /\ ~Working(g) /\ ~Working(g)' /\ busy'[i] = Nobody
      BY <1>1, <1>4, <2>6 DEF Release, Working, InOperation, IInv, LaneTypeOK
    <3>2. busy[i] # Nobody /\ ~works /\ ~works'
      BY <1>1, <2>2, <3>1 DEF Working
    <3>3. Turn(i)!GiveUp
      BY <2>1, <3>1, <3>2 DEF Turn!GiveUp
    <3> QED BY <3>3 DEF Turn!Next
  <2> QED BY <2>3, <2>4, <2>5, <2>6
<1> QED BY <1>3, <1>4

LEMMA EveryStepATurn ==
  ASSUME IInv, [Next]_laneVars, NEW i \in Runtimes
  PROVE  [Turn(i)!Next]_(Turn(i)!vars)
<1>1. CASE UNCHANGED laneVars
  BY <1>1 DEF laneVars, Turn!vars, Working
<1>2. CASE Next
  BY <1>2, NoTurn, ReadingTurn, OperationTurn
     DEF Next, ReadingStep, OperationStep
<1> QED BY <1>1, <1>2

\* manager.go's claim, enter, quiesce and release together: on every runtime
\* SeatLanes implements SeatTurns, which SeatLifecycle goes by, for any number
\* of goroutines, of lanes' holders and of lives of the seat.
THEOREM Turns == Spec => TakesTurns
<1>1. Init => \A i \in Runtimes : Turn(i)!Init
  BY DEF Init, Turn!Init, Working
<1>2. IInv /\ [Next]_laneVars
        => [\A i \in Runtimes : [Turn(i)!Next]_(Turn(i)!vars)]_laneVars
  BY EveryStepATurn
<1> QED BY <1>1, <1>2, Inductive, PTL DEF Spec, TakesTurns

-----------------------------------------------------------------------------
(* Who streams from a seat and what the daemon believes (StreamWatch), for  *)
(* any number of connections, operations and lost lines, and any number of  *)
(* goroutines that wait for ports.                                          *)

Lines == {"connected", "disconnected"}
WatchTyped ==
  /\ said \in Seq(Lines) /\ seen \in {"idle", "busy", "unknown"}
  /\ letgo \in [Waiters -> {"none", "look", "sure", "close"}]

\* Who is there has an application.
HereHasApp == client = "here" => app

\* Whoever is about to end streams and finds somebody there was looked at
\* before he came.
CameAfterTheLook ==
  client = "here" =>
    /\ \A v \in Waiters : letgo[v] \in {"sure", "close"} => v \in late
    /\ sweep = "close" => "sweep" \in late

\* The journal has yet to tell that somebody came.
Announced == \E i \in 1..Len(said) : said[i] = "connected"

\* There is a word of its coming that the daemon has not read, or that was lost.
Unheard == Announced \/ "line" \in excused

\* A client that is counted away is, or has come back unheard, or what counts it away is
\* older than what Sunshine said.  The same of what the sweep has seen and not judged.
LongGone ==
  /\ quiet = "recent" => Idle \/ Unheard \/ outdated = "quiet"
  /\ quiet = "older" => Unheard \/ outdated = "quiet"
  /\ quiet = "long" => client = "away" \/ Unheard \/ outdated = "quiet"
  /\ sweep = "judge" /\ seen = "idle" => Idle \/ Unheard \/ outdated = "look"

WatchInv == WatchTyped /\ HereHasApp /\ CameAfterTheLook /\ LongGone

LEMMA InitWatch == WatchInit => WatchInv
<1> SUFFICES ASSUME WatchInit PROVE WatchInv
  OBVIOUS
<1>1. said = <<>> /\ said \in Seq(Lines)
  BY EmptySeq DEF WatchInit
<1> QED BY <1>1 DEF WatchInit, WatchInv, WatchTyped, HereHasApp, CameAfterTheLook, LongGone, Idle

LEMMA LinesAnnounce ==
  ASSUME said \in Seq(Lines), NEW line \in Lines, said' = Append(said, line)
  PROVE  /\ said' \in Seq(Lines)
         /\ Announced \/ line = "connected" => Announced'
<1>1. said' \in Seq(Lines) /\ Len(said') = Len(said) + 1 /\ Len(said) \in Nat
      /\ said'[Len(said) + 1] = line
      /\ \A i \in 1..Len(said) : said'[i] = said[i]
  OBVIOUS
<1> QED BY <1>1 DEF Announced

LEMMA LinesAreRead ==
  ASSUME said \in Seq(Lines), said # <<>>, said' = Tail(said)
  PROVE  /\ said' \in Seq(Lines)
         /\ Announced /\ Head(said) # "connected" => Announced'
<1>1. /\ said' \in Seq(Lines) /\ Len(said) \in Nat /\ Len(said') = Len(said) - 1
      /\ Head(said) = said[1]
      /\ \A i \in 1..(Len(said) - 1) : said'[i] = said[i + 1]
  OBVIOUS
<1>2. ASSUME NEW i \in 1..Len(said), said[i] = "connected", Head(said) # "connected"
      PROVE  Announced'
  <2>1. i - 1 \in 1..(Len(said) - 1) /\ (i - 1) + 1 = i
    BY <1>1, <1>2
  <2>2. said'[i - 1] = said[i]
    BY <1>1, <2>1
  <2> QED BY <1>1, <1>2, <2>1, <2>2 DEF Announced
<1> QED BY <1>1, <1>2 DEF Announced

LEMMA JournalSays ==
  ASSUME said \in Seq(Lines), NEW line \in Lines, Journal(line)
  PROVE  /\ said' \in Seq(Lines)
         /\ Announced => Announced'
         /\ "line" \in excused => "line" \in excused'
         /\ line = "connected" => Announced' \/ "line" \in excused'
<1>1. CASE said' = Append(said, line) /\ UNCHANGED excused
  BY <1>1, LinesAnnounce
<1>2. CASE UNCHANGED said /\ excused' = excused \cup {"line"}
  BY <1>2 DEF Announced
<1> QED BY <1>1, <1>2 DEF Journal

-----------------------------------------------------------------------------
(* The client, the journal and the time.                                    *)

LEMMA ClientMoves ==
  ASSUME WatchInv, Connect \/ Leave \/ PortsClose \/ GracePasses
  PROVE  WatchInv'
<1> USE DEF WatchInv
<1>1. CASE Connect
  <2>1. /\ client' = "here" /\ app' = TRUE /\ UNCHANGED <<letgo, quiet, sweep, seen>>
        /\ late' = late \cup AboutToEnd /\ Journal("connected")
    BY <1>1 DEF Connect, beliefs, letVars, sweepVars
  <2>2. said' \in Seq(Lines) /\ (Announced' \/ "line" \in excused')
    BY <2>1, JournalSays DEF WatchTyped, Lines
  <2>3. CameAfterTheLook'
    BY <2>1 DEF CameAfterTheLook, AboutToEnd
  <2> QED BY <2>1, <2>2, <2>3 DEF WatchTyped, HereHasApp, LongGone, Unheard
<1>2. CASE Leave
  <2>1. client' = "gone" /\ client = "here"
        /\ UNCHANGED <<letgo, quiet, sweep, seen, outdated>>
        /\ Journal("disconnected")
    BY <1>2 DEF Leave, beliefs, letVars, sweepVars
  <2>2. /\ said' \in Seq(Lines)
        /\ Announced => Announced'
        /\ "line" \in excused => "line" \in excused'
    BY <2>1, JournalSays DEF WatchTyped, Lines
  <2> QED BY <2>1, <2>2 DEF WatchTyped, HereHasApp, LongGone, CameAfterTheLook, Unheard, Idle
<1>3. CASE PortsClose
  BY <1>3 DEF PortsClose, beliefs, letVars, sweepVars, WatchTyped,
     HereHasApp, CameAfterTheLook, LongGone, Unheard, Announced, Idle
<1>4. CASE GracePasses
  <2>1. /\ UNCHANGED <<app, said, letgo, late, sweep, seen, outdated, excused>>
        /\ \/ client = "left" /\ client' = "away" /\ UNCHANGED quiet
           \/ /\ quiet = "older" \/ (quiet = "recent" /\ client # "left")
              /\ quiet' = "long" /\ UNCHANGED client
    BY <1>4 DEF GracePasses, letVars, sweepVars
  <2> QED BY <2>1
          DEF WatchTyped, HereHasApp, CameAfterTheLook, LongGone, Unheard, Announced, Idle
<1> QED BY <1>1, <1>2, <1>3, <1>4

LEMMA JournalIsRead ==
  ASSUME WatchInv, SunshineSaid PROVE WatchInv'
<1> USE DEF WatchInv
<1>1. /\ said # <<>> /\ said' = Tail(said)
      /\ UNCHANGED <<client, app, sweep, seen, late, excused>>
  BY DEF SunshineSaid, SaidElsewhere, clientVars, sweepVars
<1>2. said' \in Seq(Lines) /\ (Announced /\ Head(said) # "connected" => Announced')
  BY <1>1, LinesAreRead DEF WatchTyped
<1>3. CASE Head(said) = "connected" /\ quiet' = "none" /\ Outdates /\ UNCHANGED letgo
  BY <1>1, <1>2, <1>3 DEF WatchTyped, HereHasApp, CameAfterTheLook, LongGone,
     Outdates
<1>4. CASE Head(said) = "disconnected" /\ Departure /\ UNCHANGED <<streaming, quiet, outdated>>
  <2>1. PICK v : letgo' = [letgo EXCEPT ![v] = "look"]
    BY <1>4 DEF Departure
  <2>2. letgo' \in [Waiters -> {"none", "look", "sure", "close"}]
    BY <2>1 DEF WatchTyped
  <2>3. \A w \in Waiters : letgo'[w] \in {"sure", "close"} => letgo'[w] = letgo[w]
    BY <2>1 DEF WatchTyped
  <2>4. CameAfterTheLook'
    BY <1>1, <2>3 DEF CameAfterTheLook
  <2> QED BY <1>1, <1>2, <1>4, <2>2, <2>4
          DEF WatchTyped, HereHasApp, LongGone, Unheard, Idle
<1> QED BY <1>3, <1>4 DEF SunshineSaid

-----------------------------------------------------------------------------
(* Those who may end a stream.                                              *)

LEMMA WaiterMoves ==
  ASSUME WatchInv, LetGo PROVE WatchInv'
<1> USE DEF WatchInv
<1>1. PICK v \in Waiters : LetGoLooks(v) \/ LetGoAsksAgain(v) \/ LetGoCloses(v)
  BY DEF LetGo
<1>2. UNCHANGED <<said, quiet, sweep, seen, outdated, excused>>
  BY <1>1 DEF LetGoLooks, LetGoAsksAgain, LetGoCloses, beliefs,
     sweepVars
<1>3. PICK step \in {"none", "look", "sure", "close"} : letgo' = [letgo EXCEPT ![v] = step]
  <2>1. \/ letgo' = [letgo EXCEPT ![v] = "none"] \/ letgo' = [letgo EXCEPT ![v] = "sure"]
        \/ letgo' = [letgo EXCEPT ![v] = "close"]
    BY <1>1 DEF LetGoLooks, LetGoAsksAgain, LetGoCloses, LetGoEnds
  <2> QED BY <2>1
<1>4. WatchTyped'
  BY <1>2, <1>3 DEF WatchTyped
<1>5. \A w \in Waiters \ {v} : letgo'[w] = letgo[w]
  BY <1>3 DEF WatchTyped
<1>6. letgo'[v] = step
  BY <1>3 DEF WatchTyped
<1>7. CASE LetGoLooks(v)
  <2>1. UNCHANGED <<client, app>> /\ late' = late \ {v}
    BY <1>7 DEF LetGoLooks, clientVars
  <2>2. letgo'[v] \in {"sure", "close"} => client # "here"
    <3>1. \/ letgo' = [letgo EXCEPT ![v] = "none"]
          \/ Idle /\ letgo' = [letgo EXCEPT ![v] = "sure"]
      BY <1>7 DEF LetGoLooks, LetGoEnds
    <3> QED BY <3>1 DEF WatchTyped, Idle
  <2>3. v # "sweep"
    BY StreamWaits
  <2> QED BY <1>2, <1>4, <1>5, <2>1, <2>2, <2>3
          DEF HereHasApp, CameAfterTheLook, LongGone, Unheard, Announced, Idle
<1>8. CASE LetGoAsksAgain(v)
  <2>1. UNCHANGED <<client, app, late>> /\ letgo[v] = "sure"
    BY <1>8 DEF LetGoAsksAgain, clientVars
  <2> QED BY <1>2, <1>4, <1>5, <2>1
          DEF HereHasApp, CameAfterTheLook, LongGone, Unheard, Announced, Idle
<1>9. CASE LetGoCloses(v)
  <2>1. /\ late' = late
        /\ UNCHANGED <<client, app>> \/ client' # "here"
        /\ client = "here" \/ UNCHANGED client
    BY <1>9 DEF LetGoCloses, AppCloses
  <2>2. letgo' = [letgo EXCEPT ![v] = "none"]
    BY <1>9 DEF LetGoCloses, LetGoEnds
  <2>3. letgo'[v] = "none"
    BY <2>2 DEF WatchTyped
  <2> QED BY <1>2, <1>4, <1>5, <2>1, <2>3
          DEF HereHasApp, CameAfterTheLook, LongGone, Unheard, Announced, Idle
<1> QED BY <1>1, <1>7, <1>8, <1>9

LEMMA SweepMoves ==
  ASSUME WatchInv, Sweep PROVE WatchInv'
<1> USE DEF WatchInv
<1>1. UNCHANGED <<said, letgo>>
  BY DEF Sweep, SweepReads, SweepCancelled, SweepJudges,
     SessionEnded, SessionEndedCloses, SessionEndedPutsBack, letVars
<1>2. CASE SweepReads \/ SweepCancelled
  <2>1. /\ UNCHANGED <<client, app, quiet, late>> /\ sweep' # "close"
        /\ outdated' = "quiet" <=> outdated = "quiet"
        /\ "line" \in excused => "line" \in excused'
        /\ sweep' = "judge" /\ seen' = "idle" => Idle
        /\ seen' \in {"idle", "busy", "unknown"}
    BY <1>2 DEF SweepReads, SweepCancelled, Looks, clientVars, beliefs
  <2> QED BY <1>1, <2>1
          DEF WatchTyped, HereHasApp, CameAfterTheLook, LongGone, Unheard, Announced, Idle
<1>3. CASE SweepJudges
  <2>1. UNCHANGED <<client, app, late, excused>> /\ sweep' # "close" /\ seen' = "unknown"
    BY <1>3 DEF SweepJudges, clientVars
  <2>2. /\ sweep = "judge" /\ sweep' # "judge"
        /\ outdated' = CASE quiet' = "none" -> "none"
                         [] outdated = "look" -> "quiet"
                         [] OTHER -> outdated
        /\ quiet' = "none" \/ quiet' = quiet \/ (quiet' = "recent" /\ seen = "idle")
    BY <1>3 DEF SweepJudges, Observe, WatchTyped
  <2> QED BY <1>1, <2>1, <2>2
          DEF WatchTyped, HereHasApp, CameAfterTheLook, LongGone, Unheard, Announced, Idle
<1>4. CASE SessionEnded
  <2>1. /\ UNCHANGED <<client, app, quiet, outdated>> /\ late' = late \ {"sweep"}
        /\ sweep' # "judge" /\ seen' = seen
        /\ "line" \in excused => "line" \in excused'
    BY <1>4 DEF SessionEnded, clientVars, beliefs
  <2>2. sweep' = "close" => client # "here"
    BY <1>4 DEF SessionEnded, Looks, Idle
  <2>3. \A v \in Waiters : v \in late => v \in late'
    BY <2>1, StreamWaits
  <2> QED BY <1>1, <2>1, <2>2, <2>3
          DEF WatchTyped, HereHasApp, CameAfterTheLook, LongGone, Unheard,
             Announced, Idle
<1>5. CASE SessionEndedCloses
  <2>1. /\ UNCHANGED <<quiet, late, outdated, seen>> /\ sweep' = "size"
        /\ "line" \in excused => "line" \in excused'
        /\ UNCHANGED <<client, app>> \/ client' # "here"
        /\ client = "here" \/ UNCHANGED client
    BY <1>5 DEF SessionEndedCloses, Call, AppCloses, beliefs
  <2> QED BY <1>1, <2>1
          DEF WatchTyped, HereHasApp, CameAfterTheLook, LongGone, Unheard, Announced, Idle
<1>6. CASE SessionEndedPutsBack
  <2>1. /\ UNCHANGED <<client, app, quiet, late, outdated, seen>> /\ sweep' = "off"
        /\ "line" \in excused => "line" \in excused'
    BY <1>6 DEF SessionEndedPutsBack, Call, beliefs
  <2> QED BY <1>1, <2>1
          DEF WatchTyped, HereHasApp, CameAfterTheLook, LongGone, Unheard, Announced, Idle
<1> QED BY <1>2, <1>3, <1>4, <1>5, <1>6 DEF Sweep

LEMMA UpkeepMoves ==
  ASSUME WatchInv, OpClaims \/ Operation PROVE WatchInv'
<1> USE DEF WatchInv
<1>1. UNCHANGED <<said, letgo, quiet, sweep, seen, late, outdated, excused>>
  BY DEF OpClaims, Operation, OpBegins, OpRestartsSession,
     beliefs, letVars, sweepVars
<1>2. /\ UNCHANGED <<client, app>> \/ client' # "here"
      /\ client = "here" \/ UNCHANGED client
  BY DEF OpClaims, Operation, OpBegins, OpRestartsSession,
     clientVars
<1> QED BY <1>1, <1>2
        DEF WatchTyped, HereHasApp, CameAfterTheLook, LongGone, Unheard, Announced, Idle

\* What a sweep and a goroutine that waits for ports know, and what the daemon
\* believes of a client that was gone.
THEOREM WatchInductive ==
  WatchSpec => []WatchInv
<1>1. ASSUME WatchInv, UNCHANGED watchVars PROVE WatchInv'
  BY <1>1 DEF WatchInv, WatchTyped, HereHasApp, CameAfterTheLook, LongGone,
     Unheard, Announced, Idle, watchVars, clientVars, beliefs, letVars,
     sweepVars
<1>2. WatchInv /\ [WatchNext]_watchVars => WatchInv'
  BY <1>1, ClientMoves, JournalIsRead, WaiterMoves, SweepMoves, UpkeepMoves DEF
     WatchNext
<1> QED BY <1>2, InitWatch, PTL DEF WatchSpec

\* A stream counts as over only when the client had been away for a whole grace, unless its
\* return is told by a line of Sunshine's journal that has not been read or was lost, or was
\* read between the first idle look and its judging: observeStream ends it only where quiet
\* is older than sessionGrace, and sunshineSaid clears quiet.
THEOREM GraceIsGiven ==
  WatchSpec => EndsAfterTheGrace
<1> DEFINE Over == streaming /\ ~streaming'
                     => client = "away" \/ said # <<>> \/ "line" \in excused
                          \/ outdated = "quiet"
<1>1. WatchInv /\ [WatchNext]_watchVars => Over
  <2> SUFFICES ASSUME WatchInv, [WatchNext]_watchVars, streaming, ~streaming'
               PROVE  client = "away" \/ said # <<>> \/ "line" \in excused
                        \/ outdated = "quiet"
    OBVIOUS
  <2>1. SweepJudges
    <3>1. ~(Connect \/ Leave \/ PortsClose \/ GracePasses)
      BY DEF Connect, Leave, PortsClose, GracePasses, beliefs
    <3>2. ~SunshineSaid
      BY DEF SunshineSaid
    <3>3. ~LetGo
      BY DEF LetGo, LetGoLooks, LetGoAsksAgain, LetGoCloses,
         beliefs
    <3>4. ~(OpClaims \/ Operation)
      BY DEF OpClaims, Operation, OpBegins, OpRestartsSession,
         beliefs
    <3>5. ~(SweepReads \/ SweepCancelled \/ SessionEnded
            \/ SessionEndedCloses \/ SessionEndedPutsBack)
      BY DEF SweepReads, SweepCancelled, SessionEnded,
         SessionEndedCloses, SessionEndedPutsBack, beliefs
    <3>6. ~UNCHANGED watchVars
      BY DEF watchVars, beliefs
    <3> QED BY <3>1, <3>2, <3>3, <3>4, <3>5, <3>6 DEF WatchNext, Sweep
  <2>2. quiet = "long"
    BY <2>1 DEF SweepJudges, Observe, Ended
  <2>3. said = <<>> => ~Announced
    BY DEF Announced
  <2> QED BY <2>2, <2>3 DEF WatchInv, LongGone, Unheard
<1> QED BY <1>1, WatchInductive, PTL DEF WatchSpec, EndsAfterTheGrace

\* Whoever ends somebody's stream looked for him before he connected: letGo and
\* sessionEnded both ask for the ports, and for what the journal said meanwhile,
\* as the last thing before they close the application.
THEOREM NobodyIsCutOff ==
  WatchSpec => NobodyIsCutOffOnOldNews
<1> DEFINE Cut ==
      client = "here" /\ ~app' =>
        \/ UNCHANGED <<sweep, letgo, op>>
        \/ sweep = "close" /\ "sweep" \in late
        \/ \E v \in Waiters : letgo[v] = "close" /\ v \in late
        \/ op = "updates"
<1>1. WatchInv /\ [WatchNext]_watchVars => Cut
  <2> SUFFICES ASSUME WatchInv, [WatchNext]_watchVars, client = "here", ~app'
               PROVE  Cut
    OBVIOUS
  <2>1. app
    BY DEF WatchInv, HereHasApp
  <2>2. CASE Leave \/ Connect
    BY <2>2 DEF Leave, Connect, letVars, sweepVars
  <2>3. CASE LetGo
    <3>1. PICK v \in Waiters : letgo[v] = "close"
      BY <2>1, <2>3 DEF LetGo, LetGoLooks, LetGoAsksAgain,
         LetGoCloses, clientVars
    <3> QED BY <3>1 DEF WatchInv, CameAfterTheLook
  <2>4. CASE Sweep
    <3>1. sweep = "close"
      BY <2>1, <2>4 DEF Sweep, SweepReads, SweepCancelled,
         SweepJudges, SessionEnded, SessionEndedCloses,
         SessionEndedPutsBack, clientVars
    <3> QED BY <3>1 DEF WatchInv, CameAfterTheLook
  <2>5. CASE OpClaims \/ Operation
    BY <2>1, <2>5 DEF OpClaims, Operation, OpBegins,
       OpRestartsSession, clientVars
  <2>6. ~(PortsClose \/ GracePasses \/ SunshineSaid)
    BY <2>1 DEF PortsClose, GracePasses, SunshineSaid,
       SaidElsewhere, clientVars
  <2>7. ~UNCHANGED watchVars
    BY <2>1 DEF watchVars, clientVars
  <2> QED BY <2>2, <2>3, <2>4, <2>5, <2>6, <2>7 DEF WatchNext
<1> QED BY <1>1, WatchInductive, PTL DEF WatchSpec, NobodyIsCutOffOnOldNews
=============================================================================
