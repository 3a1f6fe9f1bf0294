-------------------------- MODULE SeatRecordsProofs --------------------------
(***************************************************************************)
(* The record is what people saved, and says current only of a container   *)
(* that was built with the settings it has: for any number of requests at  *)
(* once, any settings, builds, deletions, failures and restarts.           *)
(*                                                                         *)
(* Who holds recordMu holds the record as it is (Held), so what is written *)
(* is the record with one change (RecordIsWhatWasSaved).  While a build is *)
(* under way a record that still says built has the settings of the copy   *)
(* the build works from, because a change of settings takes built away and *)
(* only the end of the build gives it back (Worked).                       *)
(***************************************************************************)
EXTENDS SeatRecords, TLAPS

\* A request that holds the record has read it as it is.
Held ==
  \A c \in Clients :
    /\ client[c].at = "change" => client[c].seat = record /\ record.there
    /\ client[c].at = "create" => ~record.there

\* What the record says of the container, and what a build in the middle of its
\* work will make it say.
Worked ==
  /\ record.built /\ container.there =>
       /\ container.settings = record.settings
       /\ container.password = secrets /\ secrets > 0
  /\ lane \in {"secrets", "run", "built"} =>
       turns > 0 /\ (record.built => record.settings = copy.settings)
  /\ lane \in {"run", "built"} => secrets > 0
  /\ lane = "built" =>
       container.settings = copy.settings /\ container.password = secrets
  /\ lane \in {"delete secrets", "books"} => ~record.built

IInv == RecordTypeOK /\ Held /\ RecordIsWhatWasSaved /\ Worked

LEMMA BlankIsOne == Blank \in Settings
  BY RecordSettings DEF Blank

LEMMA NoneTyped == NoSeat \in Seats /\ Idle \in Requests /\ NoMachine \in Machines
                   /\ 0 \in 0..MaxLane
  BY BlankIsOne, RecordBounds DEF NoSeat, Idle, NoMachine, Seats, Requests, Machines

LEMMA InitIInv == Init => IInv
<1> SUFFICES ASSUME Init PROVE IInv
  OBVIOUS
<1> USE NoneTyped, RecordBounds, RecordClients DEF Init
<1>1. FilesTyped
  BY DEF FilesTyped
<1>4. RequestsTyped /\ LaneTyped
  BY DEF RequestsTyped, LaneTyped
<1>5. Bounded
  BY DEF Bounded
<1>2. Locked /\ Held
  BY DEF Locked, Held, Holding, Idle
<1>3. RecordIsWhatWasSaved /\ Worked
  BY DEF RecordIsWhatWasSaved, Worked, NoSeat
<1> QED BY <1>1, <1>2, <1>3, <1>4, <1>5 DEF IInv, RecordTypeOK

-----------------------------------------------------------------------------
(* Requests *)

LEMMA CreateReadsKeeps ==
  ASSUME IInv, NEW c \in Clients, CreateReads(c)
  PROVE  IInv'
<1> USE NoneTyped, RecordBounds, RecordClients DEF IInv, RecordTypeOK, recVars, bounds, CreateReads, Asks, Lock
<1>1. FilesTyped'
  BY DEF FilesTyped, RequestsTyped, LaneTyped, Bounded, Seats, Machines, Requests
<1>2. RequestsTyped'
  BY DEF FilesTyped, RequestsTyped, Seats, Requests
<1>3. LaneTyped'
  BY DEF FilesTyped, LaneTyped
<1>4. Locked'
  BY DEF Locked, Holding, RequestsTyped, Idle
<1>5. Held'
  BY DEF Held, Locked, Holding, RequestsTyped, Idle
<1>6. RecordIsWhatWasSaved'
  BY DEF RecordIsWhatWasSaved, Definition, FilesTyped, LaneTyped, Seats, NeedsBuild, Held
<1>7. Worked'
  BY DEF Worked, FilesTyped, RequestsTyped, LaneTyped, Bounded, Seats, Machines, NeedsBuild, Held, NoSeat, NoMachine
<1>8. Bounded'
  BY DEF Bounded
<1> QED BY <1>1, <1>2, <1>3, <1>4, <1>5, <1>6, <1>7, <1>8

LEMMA CreateWritesKeeps ==
  ASSUME IInv, NEW c \in Clients, CreateWrites(c)
  PROVE  IInv'
<1> USE NoneTyped, RecordBounds, RecordClients DEF IInv, RecordTypeOK, recVars, bounds, CreateWrites, Unlock
<1>0. PICK s \in Settings, on \in BOOLEAN :
        record' = [there |-> TRUE, settings |-> s, attached |-> on, built |-> FALSE]
  OBVIOUS
<1>9. record' \in Seats /\ record'.built = FALSE /\ wanted' = record'
  BY <1>0 DEF Seats
<1>1. FilesTyped'
  BY <1>9 DEF FilesTyped
<1>2. RequestsTyped'
  BY DEF FilesTyped, RequestsTyped, Seats, Requests
<1>3. LaneTyped'
  BY DEF FilesTyped, LaneTyped
<1>4. Locked'
  BY DEF Locked, Holding, RequestsTyped, Idle
<1>5. Held'
  BY DEF Held, Locked, Holding, RequestsTyped, Idle
<1>6. RecordIsWhatWasSaved'
  BY DEF RecordIsWhatWasSaved, Definition, FilesTyped, LaneTyped, Seats, NeedsBuild, Held
<1>7. Worked'
  BY <1>9 DEF Worked
<1>8. Bounded'
  BY DEF Bounded
<1> QED BY <1>1, <1>2, <1>3, <1>4, <1>5, <1>6, <1>7, <1>8

LEMMA ChangeReadsKeeps ==
  ASSUME IInv, NEW c \in Clients, ChangeReads(c)
  PROVE  IInv'
<1> USE NoneTyped, RecordBounds, RecordClients DEF IInv, RecordTypeOK, recVars, bounds, ChangeReads, Asks, Lock
<1>1. FilesTyped'
  BY DEF FilesTyped, RequestsTyped, LaneTyped, Bounded, Seats, Machines, Requests
<1>2. RequestsTyped'
  BY DEF FilesTyped, RequestsTyped, Seats, Requests
<1>3. LaneTyped'
  BY DEF FilesTyped, LaneTyped
<1>4. Locked'
  BY DEF Locked, Holding, RequestsTyped, Idle
<1>5. Held'
  BY DEF Held, Locked, Holding, RequestsTyped, Idle
<1>6. RecordIsWhatWasSaved'
  BY DEF RecordIsWhatWasSaved, Definition, FilesTyped, LaneTyped, Seats, NeedsBuild, Held
<1>7. Worked'
  BY DEF Worked, FilesTyped, RequestsTyped, LaneTyped, Bounded, Seats, Machines, NeedsBuild, Held, NoSeat, NoMachine
<1>8. Bounded'
  BY DEF Bounded
<1> QED BY <1>1, <1>2, <1>3, <1>4, <1>5, <1>6, <1>7, <1>8

LEMMA ChangeWritesKeeps ==
  ASSUME IInv, NEW c \in Clients, ChangeWrites(c)
  PROVE  IInv'
<1> DEFINE mine == client[c].seat
<1>1. PICK s \in Settings, on \in BOOLEAN :
        /\ record' = Changed(mine, s, on)
        /\ client' = [client EXCEPT ![c] = IF on # mine.attached
                        THEN [at |-> "apply", seat |-> Changed(mine, s, on)] ELSE Idle]
        /\ wanted' = [wanted EXCEPT !.settings = IF s = mine.settings THEN @ ELSE s,
                                    !.attached = IF on = mine.attached THEN @ ELSE on]
  BY DEF ChangeWrites
<1>2. /\ UNCHANGED <<secrets, books, container, lane, copy, fresh, bounds>>
      /\ recordMu' = "free" /\ recordMu = c /\ client[c].at = "change"
      /\ mine = record /\ record.there
  BY DEF ChangeWrites, Unlock, IInv, RecordTypeOK, Held, Locked, Holding
<1>3. mine \in Seats /\ wanted \in Seats
  BY <1>2 DEF IInv, RecordTypeOK, FilesTyped
<1>4. /\ Changed(mine, s, on) \in Seats
      /\ Changed(mine, s, on).there = mine.there
      /\ Changed(mine, s, on).settings = s /\ Changed(mine, s, on).attached = on
      /\ Changed(mine, s, on).built => mine.built /\ s = mine.settings
  BY <1>3 DEF Changed, NeedsBuild, Seats
<1> HIDE DEF mine
<1>5. FilesTyped'
  BY <1>1, <1>2, <1>3, <1>4 DEF IInv, RecordTypeOK, FilesTyped, Seats
<1>6. RequestsTyped'
  BY <1>1, <1>2, <1>4, NoneTyped DEF IInv, RecordTypeOK, RequestsTyped, Requests
<1>7. LaneTyped' /\ Bounded'
  BY <1>2 DEF IInv, RecordTypeOK, LaneTyped, Bounded, bounds
<1>8. \A d \in Clients : client'[d] = client[d] \/ d = c
  BY <1>1 DEF IInv, RecordTypeOK, RequestsTyped
<1>9. client'[c].at \in {"apply", "idle"}
  BY <1>1 DEF IInv, RecordTypeOK, RequestsTyped, Idle
<1>10. Locked' /\ Held'
  BY <1>2, <1>8, <1>9, RecordClients
  DEF IInv, RecordTypeOK, Locked, Held, Holding
<1>11. RecordIsWhatWasSaved'
  BY <1>1, <1>2, <1>3, <1>4
  DEF IInv, RecordIsWhatWasSaved, Definition, Seats
<1>12. Worked'
  BY <1>1, <1>2, <1>4 DEF IInv, Worked, bounds
<1> QED BY <1>5, <1>6, <1>7, <1>10, <1>11, <1>12 DEF IInv, RecordTypeOK

LEMMA ApplyKeeps ==
  ASSUME IInv, NEW c \in Clients, Apply(c)
  PROVE  IInv'
<1> USE NoneTyped, RecordBounds, RecordClients DEF IInv, RecordTypeOK, recVars, bounds, Apply, Fault
<1> HIDE DEF IInv, RecordTypeOK
<1>9. FilesTyped /\ RequestsTyped
  BY DEF IInv, RecordTypeOK
<1>10. client[c].seat.attached \in BOOLEAN
  BY <1>9 DEF RequestsTyped, Requests, Seats
<1>11. container' = container
       \/ container' = [container EXCEPT !.attached = client[c].seat.attached]
  OBVIOUS
<1>12. container' \in Machines
  <2>1. container \in Machines
    BY <1>9 DEF FilesTyped
  <2> QED BY <1>10, <1>11, <2>1 DEF Machines
<1>13. UNCHANGED <<record, secrets, books, wanted, fresh>>
  OBVIOUS
<1>1. FilesTyped'
  <2> HIDE DEF Apply
  <2> QED BY <1>9, <1>12, <1>13 DEF FilesTyped
<1> USE DEF IInv, RecordTypeOK
<1>2. RequestsTyped'
  BY DEF FilesTyped, RequestsTyped, Seats, Requests
<1>3. LaneTyped'
  BY DEF FilesTyped, LaneTyped
<1>4. Locked'
  BY DEF Locked, Holding, RequestsTyped, Idle
<1>5. Held'
  BY DEF Held, Locked, Holding, RequestsTyped, Idle
<1>6. RecordIsWhatWasSaved'
  BY DEF RecordIsWhatWasSaved, Definition, FilesTyped, LaneTyped, Seats, NeedsBuild, Held
<1>7. Worked'
  BY DEF Worked, FilesTyped, RequestsTyped, LaneTyped, Bounded, Seats, Machines, NeedsBuild, Held, NoSeat, NoMachine
<1>8. Bounded'
  BY DEF Bounded
<1> QED BY <1>1, <1>2, <1>3, <1>4, <1>5, <1>6, <1>7, <1>8

LEMMA RefusedKeeps ==
  ASSUME IInv, NEW c \in Clients, Refused(c)
  PROVE  IInv'
<1> USE NoneTyped, RecordBounds, RecordClients DEF IInv, RecordTypeOK, recVars, bounds, Refused
<1>1. FilesTyped'
  BY DEF FilesTyped, RequestsTyped, LaneTyped, Bounded, Seats, Machines, Requests
<1>2. RequestsTyped'
  BY DEF FilesTyped, RequestsTyped, Seats, Requests
<1>3. LaneTyped'
  BY DEF FilesTyped, LaneTyped
<1>4. Locked'
  BY DEF Locked, Holding, RequestsTyped, Idle
<1>5. Held'
  BY DEF Held, Locked, Holding, RequestsTyped, Idle
<1>6. RecordIsWhatWasSaved'
  BY DEF RecordIsWhatWasSaved, Definition, FilesTyped, LaneTyped, Seats, NeedsBuild, Held
<1>7. Worked'
  BY DEF Worked, FilesTyped, RequestsTyped, LaneTyped, Bounded, Seats, Machines, NeedsBuild, Held, NoSeat, NoMachine
<1>8. Bounded'
  BY DEF Bounded
<1> QED BY <1>1, <1>2, <1>3, <1>4, <1>5, <1>6, <1>7, <1>8

-----------------------------------------------------------------------------
(* Builds, deletions, restarts *)

LEMMA BuildBeginsKeeps ==
  ASSUME IInv, BuildBegins
  PROVE  IInv'
<1> USE NoneTyped, RecordBounds, RecordClients DEF IInv, RecordTypeOK, recVars, bounds, BuildBegins, LaneBegins, LaneStep
<1>1. FilesTyped'
  BY DEF FilesTyped, RequestsTyped, LaneTyped, Bounded, Seats, Machines, Requests
<1>2. RequestsTyped'
  BY DEF FilesTyped, RequestsTyped, Seats, Requests
<1>3. LaneTyped'
  BY DEF FilesTyped, LaneTyped
<1>4. Locked'
  BY DEF Locked, Holding, RequestsTyped, Idle
<1>5. Held'
  BY DEF Held, Locked, Holding, RequestsTyped, Idle
<1>6. RecordIsWhatWasSaved'
  BY DEF RecordIsWhatWasSaved, Definition, FilesTyped, LaneTyped, Seats, NeedsBuild, Held
<1>7. Worked'
  BY DEF Worked, FilesTyped, RequestsTyped, LaneTyped, Bounded, Seats, Machines, NeedsBuild, Held, NoSeat, NoMachine
<1>8. Bounded'
  BY DEF Bounded
<1> QED BY <1>1, <1>2, <1>3, <1>4, <1>5, <1>6, <1>7, <1>8

LEMMA SecretsEnsuredKeeps ==
  ASSUME IInv, SecretsEnsured
  PROVE  IInv'
<1> USE NoneTyped, RecordBounds, RecordClients DEF IInv, RecordTypeOK, recVars, bounds, SecretsEnsured, LaneStep, Password
<1>1. FilesTyped'
  BY DEF FilesTyped, RequestsTyped, LaneTyped, Bounded, Seats, Machines, Requests
<1>2. RequestsTyped'
  BY DEF FilesTyped, RequestsTyped, Seats, Requests
<1>3. LaneTyped'
  BY DEF FilesTyped, LaneTyped
<1>4. Locked'
  BY DEF Locked, Holding, RequestsTyped, Idle
<1>5. Held'
  BY DEF Held, Locked, Holding, RequestsTyped, Idle
<1>6. RecordIsWhatWasSaved'
  BY DEF RecordIsWhatWasSaved, Definition, FilesTyped, LaneTyped, Seats, NeedsBuild, Held
<1>7. Worked'
  BY DEF Worked, FilesTyped, RequestsTyped, LaneTyped, Bounded, Seats, Machines, NeedsBuild, Held, NoSeat, NoMachine
<1>8. Bounded'
  BY DEF Bounded
<1> QED BY <1>1, <1>2, <1>3, <1>4, <1>5, <1>6, <1>7, <1>8

LEMMA BuildRunsKeeps ==
  ASSUME IInv, BuildRuns
  PROVE  IInv'
<1> USE NoneTyped, RecordBounds, RecordClients DEF IInv, RecordTypeOK, recVars, bounds, BuildRuns, LaneStep
<1>1. FilesTyped'
  BY DEF FilesTyped, RequestsTyped, LaneTyped, Bounded, Seats, Machines, Requests
<1>2. RequestsTyped'
  BY DEF FilesTyped, RequestsTyped, Seats, Requests
<1>3. LaneTyped'
  BY DEF FilesTyped, LaneTyped
<1>4. Locked'
  BY DEF Locked, Holding, RequestsTyped, Idle
<1>5. Held'
  BY DEF Held, Locked, Holding, RequestsTyped, Idle
<1>6. RecordIsWhatWasSaved'
  BY DEF RecordIsWhatWasSaved, Definition, FilesTyped, LaneTyped, Seats, NeedsBuild, Held
<1>7. Worked'
  BY DEF Worked, FilesTyped, RequestsTyped, LaneTyped, Bounded, Seats, Machines, NeedsBuild, Held, NoSeat, NoMachine
<1>8. Bounded'
  BY DEF Bounded
<1> QED BY <1>1, <1>2, <1>3, <1>4, <1>5, <1>6, <1>7, <1>8

LEMMA BuildFailsKeeps ==
  ASSUME IInv, BuildFails
  PROVE  IInv'
<1> USE NoneTyped, RecordBounds, RecordClients DEF IInv, RecordTypeOK, recVars, bounds, BuildFails, LaneStep, Fault
<1>1. FilesTyped'
  BY DEF FilesTyped, RequestsTyped, LaneTyped, Bounded, Seats, Machines, Requests
<1>2. RequestsTyped'
  BY DEF FilesTyped, RequestsTyped, Seats, Requests
<1>3. LaneTyped'
  BY DEF FilesTyped, LaneTyped
<1>4. Locked'
  BY DEF Locked, Holding, RequestsTyped, Idle
<1>5. Held'
  BY DEF Held, Locked, Holding, RequestsTyped, Idle
<1>6. RecordIsWhatWasSaved'
  BY DEF RecordIsWhatWasSaved, Definition, FilesTyped, LaneTyped, Seats, NeedsBuild, Held
<1>7. Worked'
  BY DEF Worked, FilesTyped, RequestsTyped, LaneTyped, Bounded, Seats, Machines, NeedsBuild, Held, NoSeat, NoMachine
<1>8. Bounded'
  BY DEF Bounded
<1> QED BY <1>1, <1>2, <1>3, <1>4, <1>5, <1>6, <1>7, <1>8

LEMMA BuiltRecordedKeeps ==
  ASSUME IInv, BuiltRecorded
  PROVE  IInv'
<1> USE NoneTyped, RecordBounds, RecordClients DEF IInv, RecordTypeOK, recVars, bounds, BuiltRecorded, LaneStep, AsBuilt
<1>1. FilesTyped'
  BY DEF FilesTyped, RequestsTyped, LaneTyped, Bounded, Seats, Machines, Requests
<1>2. RequestsTyped'
  BY DEF FilesTyped, RequestsTyped, Seats, Requests
<1>3. LaneTyped'
  BY DEF FilesTyped, LaneTyped
<1>4. Locked'
  BY DEF Locked, Holding, RequestsTyped, Idle
<1>5. Held'
  BY DEF Held, Locked, Holding, RequestsTyped, Idle
<1>6. RecordIsWhatWasSaved'
  BY DEF RecordIsWhatWasSaved, Definition, FilesTyped, LaneTyped, Seats, NeedsBuild, Held
<1>7. Worked'
  BY DEF Worked, FilesTyped, RequestsTyped, LaneTyped, Bounded, Seats, Machines, NeedsBuild, Held, NoSeat, NoMachine
<1>8. Bounded'
  BY DEF Bounded
<1> QED BY <1>1, <1>2, <1>3, <1>4, <1>5, <1>6, <1>7, <1>8

LEMMA SessionBeginsKeeps ==
  ASSUME IInv, SessionBegins
  PROVE  IInv'
<1> USE NoneTyped, RecordBounds, RecordClients DEF IInv, RecordTypeOK, recVars, bounds, SessionBegins, LaneStep
<1>1. FilesTyped'
  BY DEF FilesTyped, RequestsTyped, LaneTyped, Bounded, Seats, Machines, Requests
<1>2. RequestsTyped'
  BY DEF FilesTyped, RequestsTyped, Seats, Requests
<1>3. LaneTyped'
  BY DEF FilesTyped, LaneTyped
<1>4. Locked'
  BY DEF Locked, Holding, RequestsTyped, Idle
<1>5. Held'
  BY DEF Held, Locked, Holding, RequestsTyped, Idle
<1>6. RecordIsWhatWasSaved'
  BY DEF RecordIsWhatWasSaved, Definition, FilesTyped, LaneTyped, Seats, NeedsBuild, Held
<1>7. Worked'
  BY DEF Worked, FilesTyped, RequestsTyped, LaneTyped, Bounded, Seats, Machines, NeedsBuild, Held, NoSeat, NoMachine
<1>8. Bounded'
  BY DEF Bounded
<1> QED BY <1>1, <1>2, <1>3, <1>4, <1>5, <1>6, <1>7, <1>8

LEMMA DeleteBeginsKeeps ==
  ASSUME IInv, DeleteBegins
  PROVE  IInv'
<1> USE NoneTyped, RecordBounds, RecordClients DEF IInv, RecordTypeOK, recVars, bounds, DeleteBegins, LaneBegins, LaneStep
<1>1. FilesTyped'
  BY DEF FilesTyped, RequestsTyped, LaneTyped, Bounded, Seats, Machines, Requests
<1>2. RequestsTyped'
  BY DEF FilesTyped, RequestsTyped, Seats, Requests
<1>3. LaneTyped'
  BY DEF FilesTyped, LaneTyped
<1>4. Locked'
  BY DEF Locked, Holding, RequestsTyped, Idle
<1>5. Held'
  BY DEF Held, Locked, Holding, RequestsTyped, Idle
<1>6. RecordIsWhatWasSaved'
  BY DEF RecordIsWhatWasSaved, Definition, FilesTyped, LaneTyped, Seats, NeedsBuild, Held
<1>7. Worked'
  BY DEF Worked, FilesTyped, RequestsTyped, LaneTyped, Bounded, Seats, Machines, NeedsBuild, Held, NoSeat, NoMachine
<1>8. Bounded'
  BY DEF Bounded
<1> QED BY <1>1, <1>2, <1>3, <1>4, <1>5, <1>6, <1>7, <1>8

LEMMA DeleteContainerKeeps ==
  ASSUME IInv, DeleteContainer
  PROVE  IInv'
<1> USE NoneTyped, RecordBounds, RecordClients DEF IInv, RecordTypeOK, recVars, bounds, DeleteContainer, LaneStep, NoMachine
<1>1. FilesTyped'
  BY DEF FilesTyped, RequestsTyped, LaneTyped, Bounded, Seats, Machines, Requests
<1>2. RequestsTyped'
  BY DEF FilesTyped, RequestsTyped, Seats, Requests
<1>3. LaneTyped'
  BY DEF FilesTyped, LaneTyped
<1>4. Locked'
  BY DEF Locked, Holding, RequestsTyped, Idle
<1>5. Held'
  BY DEF Held, Locked, Holding, RequestsTyped, Idle
<1>6. RecordIsWhatWasSaved'
  BY DEF RecordIsWhatWasSaved, Definition, FilesTyped, LaneTyped, Seats, NeedsBuild, Held
<1>7. Worked'
  BY DEF Worked, FilesTyped, RequestsTyped, LaneTyped, Bounded, Seats, Machines, NeedsBuild, Held, NoSeat, NoMachine
<1>8. Bounded'
  BY DEF Bounded
<1> QED BY <1>1, <1>2, <1>3, <1>4, <1>5, <1>6, <1>7, <1>8

LEMMA DeleteRecordKeeps ==
  ASSUME IInv, DeleteRecord
  PROVE  IInv'
<1> USE NoneTyped, RecordBounds, RecordClients DEF IInv, RecordTypeOK, recVars, bounds, DeleteRecord, LaneStep, NoSeat
<1>1. FilesTyped'
  BY DEF FilesTyped, RequestsTyped, LaneTyped, Bounded, Seats, Machines, Requests
<1>2. RequestsTyped'
  BY DEF FilesTyped, RequestsTyped, Seats, Requests
<1>3. LaneTyped'
  BY DEF FilesTyped, LaneTyped
<1>4. Locked'
  BY DEF Locked, Holding, RequestsTyped, Idle
<1>5. Held'
  BY DEF Held, Locked, Holding, RequestsTyped, Idle
<1>6. RecordIsWhatWasSaved'
  BY DEF RecordIsWhatWasSaved, Definition, FilesTyped, LaneTyped, Seats, NeedsBuild, Held
<1>7. Worked'
  BY DEF Worked, FilesTyped, RequestsTyped, LaneTyped, Bounded, Seats, Machines, NeedsBuild, Held, NoSeat, NoMachine
<1>8. Bounded'
  BY DEF Bounded
<1> QED BY <1>1, <1>2, <1>3, <1>4, <1>5, <1>6, <1>7, <1>8

LEMMA DeleteSecretsKeeps ==
  ASSUME IInv, DeleteSecrets
  PROVE  IInv'
<1> USE NoneTyped, RecordBounds, RecordClients DEF IInv, RecordTypeOK, recVars, bounds, DeleteSecrets, LaneStep
<1>1. FilesTyped'
  BY DEF FilesTyped, RequestsTyped, LaneTyped, Bounded, Seats, Machines, Requests
<1>2. RequestsTyped'
  BY DEF FilesTyped, RequestsTyped, Seats, Requests
<1>3. LaneTyped'
  BY DEF FilesTyped, LaneTyped
<1>4. Locked'
  BY DEF Locked, Holding, RequestsTyped, Idle
<1>5. Held'
  BY DEF Held, Locked, Holding, RequestsTyped, Idle
<1>6. RecordIsWhatWasSaved'
  BY DEF RecordIsWhatWasSaved, Definition, FilesTyped, LaneTyped, Seats, NeedsBuild, Held
<1>7. Worked'
  BY DEF Worked, FilesTyped, RequestsTyped, LaneTyped, Bounded, Seats, Machines, NeedsBuild, Held, NoSeat, NoMachine
<1>8. Bounded'
  BY DEF Bounded
<1> QED BY <1>1, <1>2, <1>3, <1>4, <1>5, <1>6, <1>7, <1>8

LEMMA DeleteBooksKeeps ==
  ASSUME IInv, DeleteBooks
  PROVE  IInv'
<1> USE NoneTyped, RecordBounds, RecordClients DEF IInv, RecordTypeOK, recVars, bounds, DeleteBooks, LaneStep, NoBooks
<1>1. FilesTyped'
  BY DEF FilesTyped, RequestsTyped, LaneTyped, Bounded, Seats, Machines, Requests
<1>2. RequestsTyped'
  BY DEF FilesTyped, RequestsTyped, Seats, Requests
<1>3. LaneTyped'
  BY DEF FilesTyped, LaneTyped
<1>4. Locked'
  BY DEF Locked, Holding, RequestsTyped, Idle
<1>5. Held'
  BY DEF Held, Locked, Holding, RequestsTyped, Idle
<1>6. RecordIsWhatWasSaved'
  BY DEF RecordIsWhatWasSaved, Definition, FilesTyped, LaneTyped, Seats, NeedsBuild, Held
<1>7. Worked'
  BY DEF Worked, FilesTyped, RequestsTyped, LaneTyped, Bounded, Seats, Machines, NeedsBuild, Held, NoSeat, NoMachine
<1>8. Bounded'
  BY DEF Bounded
<1> QED BY <1>1, <1>2, <1>3, <1>4, <1>5, <1>6, <1>7, <1>8

LEMMA DeleteFailsKeeps ==
  ASSUME IInv, DeleteFails
  PROVE  IInv'
<1> USE NoneTyped, RecordBounds, RecordClients DEF IInv, RecordTypeOK, recVars, bounds, DeleteFails, LaneStep, Fault
<1>1. FilesTyped'
  BY DEF FilesTyped, RequestsTyped, LaneTyped, Bounded, Seats, Machines, Requests
<1>2. RequestsTyped'
  BY DEF FilesTyped, RequestsTyped, Seats, Requests
<1>3. LaneTyped'
  BY DEF FilesTyped, LaneTyped
<1>4. Locked'
  BY DEF Locked, Holding, RequestsTyped, Idle
<1>5. Held'
  BY DEF Held, Locked, Holding, RequestsTyped, Idle
<1>6. RecordIsWhatWasSaved'
  BY DEF RecordIsWhatWasSaved, Definition, FilesTyped, LaneTyped, Seats, NeedsBuild, Held
<1>7. Worked'
  BY DEF Worked, FilesTyped, RequestsTyped, LaneTyped, Bounded, Seats, Machines, NeedsBuild, Held, NoSeat, NoMachine
<1>9. /\ changes' = changes /\ crashes' = crashes /\ turns' = turns
      /\ faults < MaxFaults /\ faults' = faults + 1
  OBVIOUS
<1> HIDE DEF DeleteFails, LaneStep, Fault
<1>8. Bounded'
  BY <1>9 DEF Bounded
<1> QED BY <1>1, <1>2, <1>3, <1>4, <1>5, <1>6, <1>7, <1>8

LEMMA DaemonRestartsKeeps ==
  ASSUME IInv, DaemonRestarts
  PROVE  IInv'
<1> USE NoneTyped, RecordBounds, RecordClients DEF IInv, RecordTypeOK, recVars, bounds, DaemonRestarts, NoSeat
<1>1. FilesTyped'
  BY DEF FilesTyped, RequestsTyped, LaneTyped, Bounded, Seats, Machines, Requests
<1>2. RequestsTyped'
  BY DEF FilesTyped, RequestsTyped, Seats, Requests
<1>3. LaneTyped'
  BY DEF FilesTyped, LaneTyped
<1>4. Locked'
  BY DEF Locked, Holding, RequestsTyped, Idle
<1>5. Held'
  BY DEF Held, Locked, Holding, RequestsTyped, Idle
<1>6. RecordIsWhatWasSaved'
  BY DEF RecordIsWhatWasSaved, Definition, FilesTyped, LaneTyped, Seats, NeedsBuild, Held
<1>7. Worked'
  BY DEF Worked, FilesTyped, RequestsTyped, LaneTyped, Bounded, Seats, Machines, NeedsBuild, Held, NoSeat, NoMachine
<1>8. Bounded'
  BY DEF Bounded
<1> QED BY <1>1, <1>2, <1>3, <1>4, <1>5, <1>6, <1>7, <1>8

-----------------------------------------------------------------------------
(* Together *)

LEMMA NextIInv == IInv /\ [Next]_recVars => IInv'
<1> SUFFICES ASSUME IInv, [Next]_recVars PROVE IInv'
  OBVIOUS
<1>1. CASE \E c \in Clients : CreateReads(c) \/ CreateWrites(c)
  BY <1>1, CreateReadsKeeps, CreateWritesKeeps
<1>2. CASE \E c \in Clients : ChangeReads(c) \/ ChangeWrites(c)
  BY <1>2, ChangeReadsKeeps, ChangeWritesKeeps
<1>3. CASE \E c \in Clients : Apply(c) \/ Refused(c)
  BY <1>3, ApplyKeeps, RefusedKeeps
<1>4. CASE BuildBegins \/ SecretsEnsured \/ BuildRuns \/ BuildFails
           \/ BuiltRecorded \/ SessionBegins
  BY <1>4, BuildBeginsKeeps, SecretsEnsuredKeeps, BuildRunsKeeps,
     BuildFailsKeeps, BuiltRecordedKeeps, SessionBeginsKeeps
<1>5. CASE DeleteBegins \/ DeleteContainer \/ DeleteRecord \/ DeleteSecrets
           \/ DeleteBooks \/ DeleteFails
  BY <1>5, DeleteBeginsKeeps, DeleteContainerKeeps, DeleteRecordKeeps,
     DeleteSecretsKeeps, DeleteBooksKeeps, DeleteFailsKeeps
<1>6. CASE DaemonRestarts
  BY <1>6, DaemonRestartsKeeps
<1>7. CASE UNCHANGED recVars
  BY <1>7 DEF recVars, IInv, RecordTypeOK, FilesTyped, RequestsTyped, LaneTyped,
     Bounded, Locked, Holding, Held, RecordIsWhatWasSaved,
     Definition, Worked
<1> QED BY <1>1, <1>2, <1>3, <1>4, <1>5, <1>6, <1>7 DEF Next

\* The inductive invariant holds of every behaviour.
THEOREM Inductive == Spec => []IInv
  BY InitIInv, NextIInv, PTL DEF Spec

\* No change is undone by a build or another request and no deleted seat comes
\* back, for any number of requests at once.
THEOREM NothingLost == Spec => []RecordIsWhatWasSaved
<1>1. IInv => RecordIsWhatWasSaved
  BY DEF IInv
<1> QED BY <1>1, Inductive, PTL

\* recordBuilt calls a seat current only if its container has its settings.
THEOREM Current == Spec => []CurrentIsBuilt
<1>1. IInv => CurrentIsBuilt
  BY DEF IInv, Worked, CurrentIsBuilt
<1> QED BY <1>1, Inductive, PTL

\* The password of a container that is built again is the one that is stored.
THEOREM Paired == Spec => []PasswordIsKept
<1>1. IInv => PasswordIsKept
  BY DEF IInv, Worked, PasswordIsKept
<1> QED BY <1>1, Inductive, PTL
=============================================================================
