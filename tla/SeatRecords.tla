---------------------------- MODULE SeatRecords ----------------------------
(***************************************************************************)
(* What the daemon remembers of one seat (src/internal/seat/seat.go Store, *)
(* secrets.go and manager.go): its record, its secrets and the bookkeeping *)
(* of the shared library, while people create, change and delete it and an *)
(* operation builds it from a copy of the record that is minutes old by    *)
(* the time the build ends.                                                *)
(*                                                                         *)
(* Some settings only a build can apply: changing one of them marks the    *)
(* record as not built.  The others are applied to the container by the    *)
(* request that changes them, after it has let go of the record.           *)
(***************************************************************************)
EXTENDS Naturals

CONSTANTS
  Clients,      \* the requests that may be under way at once
  Settings,     \* what only a build applies: address, gateway, resolution
  MaxChanges,   \* bound: how many changes are asked for
  MaxLane,      \* bound: how many builds and deletions are begun
  MaxFaults,    \* bound: how many steps fail
  MaxCrashes    \* bound: how often the daemon goes and comes back

ASSUME RecordBounds ==
  MaxChanges \in Nat /\ MaxLane \in Nat /\ MaxFaults \in Nat /\ MaxCrashes \in Nat
ASSUME RecordSettings == Settings # {}
ASSUME RecordClients == "free" \notin Clients /\ "lane" \notin Clients

VARIABLES
  record,    \* seats/<name>.json
  secrets,   \* secrets/<name>.json: which password, 0 is none
  books,     \* whether the library and the carriers have a record of the seat
  container, \* what the container was built with, and what was applied to it
  recordMu,  \* who holds it
  client,    \* per request, how far it is and the copy it has
  lane,      \* what the seat is in the middle of
  copy,      \* the record the lane works from
  wanted,    \* what people have saved
  fresh,     \* whether this seat was created and never built
  changes, turns, faults, crashes

recVars == <<record, secrets, books, container, recordMu, client, lane, copy,
             wanted, fresh, changes, turns, faults, crashes>>

bounds == <<changes, turns, faults, crashes>>

Seats == [there : BOOLEAN, settings : Settings, attached : BOOLEAN, built : BOOLEAN]

Blank      == CHOOSE s \in Settings : TRUE
NoSeat     == [there |-> FALSE, settings |-> Blank, attached |-> FALSE, built |-> FALSE]
Idle       == [at |-> "idle", seat |-> NoSeat]
NoMachine  == [there |-> FALSE, settings |-> Blank, attached |-> FALSE, password |-> 0]
Definition(s) == <<s.there, s.settings, s.attached>>

Init ==
  /\ record = NoSeat /\ wanted = NoSeat /\ copy = NoSeat
  /\ secrets = 0 /\ books = FALSE /\ fresh = FALSE
  /\ container = NoMachine
  /\ recordMu = "free"
  /\ client = [c \in Clients |-> Idle]
  /\ lane = "idle"
  /\ changes = 0 /\ turns = 0 /\ faults = 0 /\ crashes = 0

Fault == faults < MaxFaults /\ faults' = faults + 1

\* Mutated: nobody waits for the record.
LockAnyway(me) == recordMu' = me

Lock(me) == recordMu = "free" /\ recordMu' = me

Unlock == recordMu' = "free"

-----------------------------------------------------------------------------
(* Requests *)

Asks(c) ==
  /\ client[c].at = "idle"
  /\ changes < MaxChanges /\ changes' = changes + 1

\* A name that is taken, a seat that is not there, or settings that are not
\* valid: nothing is written.
Refused(c) ==
  /\ client[c].at = "idle" /\ recordMu = "free"
  /\ UNCHANGED recVars

\* createRecord, which finds the name free
CreateReads(c) ==
  /\ Asks(c)
  /\ Lock(c)
  /\ ~record.there
  /\ client' = [client EXCEPT ![c] = [at |-> "create", seat |-> NoSeat]]
  /\ UNCHANGED <<record, secrets, books, container, lane, copy, wanted, fresh,
                 turns, faults, crashes>>

CreateWrites(c) ==
  /\ client[c].at = "create"
  /\ \E s \in Settings, on \in BOOLEAN :
       record' = [there |-> TRUE, settings |-> s, attached |-> on, built |-> FALSE]
  /\ Unlock
  /\ client' = [client EXCEPT ![c] = Idle]
  /\ wanted' = record' /\ fresh' = TRUE
  /\ UNCHANGED <<secrets, books, container, lane, copy, bounds>>

\* changeRecord
ChangeReads(c) ==
  /\ Asks(c)
  /\ Lock(c)
  /\ record.there
  /\ client' = [client EXCEPT ![c] = [at |-> "change", seat |-> record]]
  /\ UNCHANGED <<record, secrets, books, container, lane, copy, wanted, fresh,
                 turns, faults, crashes>>

\* Mutated: a change of address is not something to build for.
RebuiltForNothing(before, after) == FALSE

\* needsProvisioning
NeedsBuild(before, after) == after.settings # before.settings

\* What is written of a copy some settings of which are changed.
Changed(mine, s, on) ==
  [mine EXCEPT !.settings = s, !.attached = on,
               !.built = @ /\ ~NeedsBuild(mine, [mine EXCEPT !.settings = s])]

ChangeWrites(c) ==
  /\ client[c].at = "change"
  /\ \E s \in Settings, on \in BOOLEAN :
       LET mine == client[c].seat IN
       /\ record' = Changed(mine, s, on)
       /\ client' = [client EXCEPT ![c] = IF on # mine.attached
                       THEN [at |-> "apply", seat |-> Changed(mine, s, on)] ELSE Idle]
       /\ wanted' = [wanted EXCEPT !.settings = IF s = mine.settings THEN @ ELSE s,
                                   !.attached = IF on = mine.attached THEN @ ELSE on]
  /\ Unlock
  /\ UNCHANGED <<secrets, books, container, lane, copy, fresh, bounds>>

\* applyLibrary and applyNetwork, with the copy the request has: a seat without
\* a container is left to its build.
Apply(c) ==
  /\ client[c].at = "apply"
  /\ \/ /\ container' = IF container.there
                          THEN [container EXCEPT !.attached = client[c].seat.attached]
                          ELSE container
        /\ UNCHANGED faults
     \/ Fault /\ UNCHANGED container
  /\ client' = [client EXCEPT ![c] = Idle]
  /\ UNCHANGED <<record, secrets, books, recordMu, lane, copy, wanted, fresh,
                 changes, turns, crashes>>

-----------------------------------------------------------------------------
(* A build *)

LaneStep(from, to) ==
  /\ lane = from
  /\ lane' = to
  /\ UNCHANGED <<client, changes, crashes>>

LaneBegins(to) ==
  /\ LaneStep("idle", to)
  /\ turns < MaxLane /\ turns' = turns + 1
  /\ record.there

BuildBegins ==
  /\ LaneBegins("secrets")
  /\ copy' = record
  /\ UNCHANGED <<record, secrets, books, container, recordMu, wanted, fresh, faults>>

\* Mutated: every build has a password of its own.
Anew == turns

\* ensureSecrets: generated once and then kept.
Password == IF secrets > 0 THEN secrets ELSE turns

SecretsEnsured ==
  /\ LaneStep("secrets", "run")
  /\ secrets' = Password
  /\ UNCHANGED <<record, books, container, recordMu, copy, wanted, fresh, turns, faults>>

\* Provisioner.Run, which builds or adopts the container.
BuildRuns ==
  /\ LaneStep("run", "built")
  /\ container' = [there |-> TRUE, settings |-> copy.settings,
                   attached |-> copy.attached, password |-> secrets]
  /\ UNCHANGED <<record, secrets, books, recordMu, copy, wanted, fresh, turns, faults>>

BuildFails ==
  /\ LaneStep("run", "idle")
  /\ Fault
  /\ UNCHANGED <<record, secrets, books, container, recordMu, copy, wanted, fresh, turns>>

\* Mutated: the copy the build started from is written back.
CopyBuilt == [copy EXCEPT !.built = TRUE]

\* What recordBuilt writes, under recordMu: the record as it is now, current only
\* if the build was of the settings it now has.
AsBuilt == [record EXCEPT !.built = @ \/ ~NeedsBuild(copy, record)]

BuiltRecorded ==
  /\ LaneStep("built", "session")
  /\ recordMu = "free" /\ record.there
  /\ record' = AsBuilt
  /\ fresh' = FALSE
  /\ UNCHANGED <<secrets, books, container, recordMu, copy, wanted, turns, faults>>

\* The session runs, and the library and the launchers in it are kept books of.
SessionBegins ==
  /\ LaneStep("session", "idle")
  /\ books' = (books \/ container.attached)
  /\ UNCHANGED <<record, secrets, container, recordMu, copy, wanted, fresh, turns, faults>>

-----------------------------------------------------------------------------
(* A deletion *)

DeleteBegins ==
  /\ LaneBegins("container")
  /\ UNCHANGED <<record, secrets, books, container, recordMu, copy, wanted, fresh, faults>>

DeleteContainer ==
  /\ LaneStep("container", "record")
  /\ container' \in {container, NoMachine}
  /\ UNCHANGED <<record, secrets, books, recordMu, copy, wanted, fresh, turns, faults>>

DeleteFails ==
  /\ \E from \in {"container", "record", "delete secrets"} : LaneStep(from, "idle")
  /\ Fault
  /\ UNCHANGED <<record, secrets, books, container, recordMu, copy, wanted, fresh, turns>>

DeleteRecord ==
  /\ LaneStep("record", "delete secrets")
  /\ recordMu = "free"
  /\ record' = NoSeat /\ wanted' = NoSeat /\ fresh' = FALSE
  /\ UNCHANGED <<secrets, books, container, recordMu, copy, turns, faults>>

DeleteSecrets ==
  /\ LaneStep("delete secrets", "books")
  /\ secrets' = 0
  /\ UNCHANGED <<record, books, container, recordMu, copy, wanted, fresh, turns, faults>>

NoBooks == FALSE

\* Pool.Forget and forgetMember
DeleteBooks ==
  /\ LaneStep("books", "idle")
  /\ books' = NoBooks
  /\ UNCHANGED <<record, secrets, container, recordMu, copy, wanted, fresh, turns, faults>>

\* A record is written to one side and renamed, so no write is ever half done.
DaemonRestarts ==
  /\ crashes < MaxCrashes /\ crashes' = crashes + 1
  /\ recordMu' = "free"
  /\ client' = [c \in Clients |-> Idle]
  /\ lane' = "idle" /\ copy' = NoSeat
  /\ UNCHANGED <<record, secrets, books, container, wanted, fresh, changes, turns, faults>>

Next ==
  \/ \E c \in Clients :
       CreateReads(c) \/ CreateWrites(c) \/ ChangeReads(c) \/ ChangeWrites(c) \/ Apply(c)
       \/ Refused(c)
  \/ BuildBegins \/ SecretsEnsured \/ BuildRuns \/ BuildFails
  \/ BuiltRecorded \/ SessionBegins
  \/ DeleteBegins \/ DeleteContainer \/ DeleteRecord \/ DeleteSecrets \/ DeleteBooks
  \/ DeleteFails
  \/ DaemonRestarts

\* Every request and every operation goes on until it has ended.
Works ==
  \/ \E c \in Clients : CreateWrites(c) \/ ChangeWrites(c) \/ Apply(c)
  \/ SecretsEnsured \/ BuildRuns \/ BuiltRecorded \/ SessionBegins
  \/ DeleteContainer \/ DeleteRecord \/ DeleteSecrets \/ DeleteBooks

Spec == Init /\ [][Next]_recVars /\ WF_recVars(Works)

-----------------------------------------------------------------------------
(* Properties *)

Building == lane \in {"secrets", "run", "built", "session"}
Holding(c) == client[c].at \in {"create", "change"}

Machines == [there : BOOLEAN, settings : Settings, attached : BOOLEAN, password : 0..MaxLane]
Requests == [at : {"idle", "create", "change", "apply"}, seat : Seats]

FilesTyped ==
  /\ record \in Seats /\ wanted \in Seats
  /\ secrets \in 0..MaxLane /\ books \in BOOLEAN /\ fresh \in BOOLEAN
  /\ container \in Machines

RequestsTyped ==
  /\ client \in [Clients -> Requests]
  /\ recordMu \in Clients \cup {"free"}

LaneTyped ==
  /\ copy \in Seats
  /\ lane \in {"idle", "secrets", "run", "built", "session",
               "container", "record", "delete secrets", "books"}

Bounded ==
  /\ changes \in 0..MaxChanges /\ turns \in 0..MaxLane
  /\ faults \in 0..MaxFaults /\ crashes \in 0..MaxCrashes

Locked == \A c \in Clients : Holding(c) <=> recordMu = c

\* The one who holds the record is the one who reads and writes it.
RecordTypeOK == FilesTyped /\ RequestsTyped /\ LaneTyped /\ Bounded /\ Locked

\* recordMu: "the last writer wins" no longer.  The record is what was saved: no
\* change is undone by a build or by another request, and a seat that was
\* deleted does not come back.
RecordIsWhatWasSaved == Definition(record) = Definition(wanted)

\* recordBuilt: "the seat is only called current if it was built with the
\* settings it now has."
CurrentIsBuilt ==
  record.built /\ container.there => container.settings = record.settings

\* ensureSecrets: a container that is built again comes back with the password
\* the devices were paired with, which is the one that is stored.
PasswordIsKept ==
  record.built /\ container.there => container.password = secrets

-----------------------------------------------------------------------------
(* What the comments say and the code does not do *)

\* Delete: a seat created again under the name starts without what the library
\* and the launchers knew of the one that had it.
NewSeatsAreNew == record.there /\ fresh /\ lane = "idle" => ~books

\* Update: what is applied right away is in the container, once whoever saved it
\* and whoever builds it have finished.
AppliedRightAway ==
  /\ lane = "idle" /\ \A c \in Clients : client[c].at # "apply"
  /\ record.there /\ ~fresh /\ container.there
  => container.attached = record.attached
=============================================================================
