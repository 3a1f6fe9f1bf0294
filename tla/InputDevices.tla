---------------------------- MODULE InputDevices ----------------------------
(***************************************************************************)
(* Which seat a virtual input device belongs to                            *)
(* (src/spike/m2-input-broker: broker.py, device_owner.py,                 *)
(* uhid_observer.py).                                                      *)
(*                                                                         *)
(* The kernel makes every seat's devices on the host.  One observer writes *)
(* down which container made each uhid device, and one broker per seat     *)
(* looks twice a second at what there is, decides what is its seat's,      *)
(* takes that off the host's desktop, puts it into the seat and says so    *)
(* there.  A device counts once here, with all of its nodes.  The kernel   *)
(* hands the numbers of nodes and descriptors out again, and a broker      *)
(* knows what it has attached by the node.                                 *)
(***************************************************************************)
EXTENDS Integers, FiniteSets

CONSTANTS
  Seats,
  Host,       \* a process on the host, which makes devices of its own
  Watched,    \* bound: the seats whose brokers run; two brokers share no more than marks
  Tagging,    \* the seats whose Sunshine writes the seat's name into a device's
  MaxDevices, \* bound: how many devices are made
  MaxNodes,   \* bound: how many of them there are at once
  MaxTroubles \* bound: how many of the observer and the brokers have ended, each of
              \* them once, and at how many nodes Incus has refused what was asked

Makers  == Seats \cup {Host}
Devices == 1..MaxDevices
Nodes   == 1..MaxNodes
None    == 0

ASSUME DevicesMakers ==
  Host \notin Seats /\ "unknown" \notin Makers /\ Tagging \subseteq Seats /\ Watched \subseteq Seats
ASSUME DevicesBounds == MaxDevices \in Nat /\ MaxNodes \in Nat /\ MaxTroubles \in Nat

VARIABLES
  device,   \* per device, who made it, through what, where it is, its number if it is uhid
  observer, \* where uhid_observer.py is
  claimed,  \* Observer.known: the uhid devices that are nobody's claim any more
  looking,  \* the creations the probe saw whose threads look for the device
  record,   \* uhid-owners.json: per uhid device, its maker
  losing,   \* the devices claimed since prune listed what is alive, which it forgets
  broker,   \* per seat, where its broker is
  found,    \* per seat, the devices of the scan
  current,  \* per seat and node, the device a pass takes for the seat's
  known,    \* per seat and node, the same of the pass before
  todo,     \* per seat, the nodes the pass has yet to attach
  seen,     \* per seat, _uhid_seen: the descriptors of the pass before
  attached, \* per seat, the nodes Incus has put into the container
  told,     \* per seat and node, the device the programs there know of
  memory,   \* per seat and node, what state_path remembers of the last pass
  refused,  \* history: per seat, the nodes whose last call to Incus was refused
  alone,    \* the creation no other has come near of
  sure,     \* the devices that say who made them: by their descriptor, or in the
            \* record, with nothing between their making and their claim, until
            \* prune loses that
  sighted,  \* per seat, which of them a pass has found
  ended     \* which of the observer (Host) and the brokers have ended once

observing   == <<observer, claimed, looking, record, losing>>
pass        == <<broker, found, current, known, todo, seen>>
inSeats     == <<attached, told, memory, refused>>
certain     == <<alone, sure>>
deviceVars  == <<device, observing, pass, sighted, inSeats, certain, ended>>

\* The nodes where Incus has refused a seat the last call.
RefusedAt == UNION {refused[s] : s \in Seats}

\* Whether one more of the observer and the brokers may end.
MayEnd == Cardinality(ended) + Cardinality(RefusedAt) < MaxTroubles

Nothing  == [n \in Nodes |-> None]
NoDevice == [made |-> Host, by |-> "none", at |-> "none", node |-> None, slot |-> None,
             number |-> None]

DeviceInit ==
  /\ device = [d \in Devices |-> NoDevice]
  /\ observer = "off" /\ claimed = {} /\ looking = {}
  /\ record = [d \in Devices |-> "unknown"] /\ losing = {}
  /\ broker = [s \in Seats |-> "off"]
  /\ found = [s \in Seats |-> {}] /\ todo = [s \in Seats |-> {}]
  /\ current = [s \in Seats |-> Nothing]
  /\ known = current
  /\ seen = [s \in Seats |-> {}]
  /\ attached = [s \in Seats |-> {}] /\ refused = attached
  /\ told = current /\ memory = current
  /\ alone = {} /\ sure = {} /\ ended = {}
  /\ sighted = [s \in Seats |-> {}]

-----------------------------------------------------------------------------
(* The kernel and whoever makes devices: external *)

There(d) == device[d].at = "there"
Open(d)  == device[d].by = "uhid" /\ device[d].at \in {"making", "there"}

\* What is at a node now, nothing if it is free.
At(n) == IF \E d \in Devices : There(d) /\ device[d].node = n
         THEN CHOOSE d \in Devices : There(d) /\ device[d].node = n ELSE None

Free(n) == \A d \in Devices : device[d].at \in {"making", "there"} => device[d].node # n

Lowest(S) == CHOOSE x \in S : \A y \in S : x <= y

\* (pid, fd) of the creating descriptor, which is its maker's lowest free one.
Slot(c) == Lowest({x \in Devices :
             \A d \in Devices : Open(d) /\ device[d].made = c => device[d].slot # x})

NewDevice == Lowest({d \in Devices : device[d].at = "none"})

\* uhid_devices, in sysfs once they are numbered, and those nobody has claimed:
\* fresh in claim, whose order is that of the numbers.
Uhids     == {d \in Devices : There(d) /\ device[d].by = "uhid"}
Unclaimed == Uhids \ claimed
Oldest(d) == \A e \in Unclaimed : device[d].number <= device[e].number

\* Nothing else is on its way to being claimed.
Clear ==
  /\ looking = {} /\ Unclaimed = {}
  /\ \A d \in Devices : Open(d) => There(d)

\* UHID_CREATE2, with the probe at its entry.  Nothing reads the probe before
\* bpftrace says it is attached, but it has fired.
MakeUhid(c) ==
  /\ \E d \in Devices : device[d].at = "none"
  /\ \E n \in Nodes : Free(n)
  /\ device' = [device EXCEPT ![NewDevice] =
       [made |-> c, by |-> "uhid", at |-> "making", slot |-> Slot(c),
        node |-> Lowest({n \in Nodes : Free(n)}), number |-> None]]
  /\ looking' = IF observer \in {"attached", "live"} THEN looking \cup {NewDevice} ELSE looking
  /\ alone' = IF observer = "live" /\ Clear THEN {NewDevice} ELSE {}
  /\ UNCHANGED <<observer, claimed, record, losing, pass, sighted, inSeats, sure, ended>>

Numbered(d) ==
  /\ device[d].at = "making"
  /\ device' = [device EXCEPT ![d].at = "there", ![d].number =
       Cardinality({e \in Devices : device[e].number # None}) + 1]
  /\ UNCHANGED <<observing, pass, sighted, inSeats, certain, ended>>

\* A uinput device is there at once, and its descriptor says which it is.
MakeUinput(c) ==
  /\ \E d \in Devices : device[d].at = "none"
  /\ \E n \in Nodes : Free(n)
  /\ device' = [device EXCEPT ![NewDevice] =
       [made |-> c, by |-> "uinput", at |-> "there", slot |-> None,
        node |-> Lowest({n \in Nodes : Free(n)}), number |-> None]]
  /\ sure' = sure \cup {NewDevice}
  /\ UNCHANGED <<observing, pass, sighted, inSeats, alone, ended>>

\* The descriptor is closed, or the creation failed.  Its number never comes
\* again, so it makes no difference when prune forgets one that is gone.
Unmake(d) ==
  /\ device[d].at \in {"making", "there"}
  /\ device' = [device EXCEPT ![d].at = "gone"]
  /\ claimed' = claimed \ {d} /\ record' = [record EXCEPT ![d] = "unknown"]
  /\ sure' = sure \ {d} /\ sighted' = [s \in Seats |-> sighted[s] \ {d}]
  /\ losing' = losing \ {d}
  /\ UNCHANGED <<observer, looking, pass, inSeats, alone, ended>>

Kernel ==
  \/ \E c \in Makers : MakeUhid(c) \/ MakeUinput(c)
  \/ \E d \in Devices : Numbered(d) \/ Unmake(d)

-----------------------------------------------------------------------------
(* uhid_observer.py *)

Quiet == UNCHANGED <<device, pass, sighted, inSeats>>

\* main and __init__: the record begins empty, and run withdraws what the last
\* observer said of itself.
ObserverStarts ==
  /\ observer = "off"
  /\ observer' = "starting"
  /\ claimed' = Uhids
  /\ record' = [d \in Devices |-> "unknown"]
  /\ UNCHANGED <<looking, losing, certain, ended>> /\ Quiet

ProbeAttached ==
  /\ observer = "starting"
  /\ observer' = "attached"
  /\ UNCHANGED <<claimed, looking, record, losing, certain, ended>> /\ Quiet

\* announce: what appeared before it was made unseen, or its thread finds it
\* claimed.
Announce ==
  /\ observer = "attached"
  /\ observer' = "live"
  /\ claimed' = claimed \cup Uhids
  /\ UNCHANGED <<looking, record, losing, certain, ended>> /\ Quiet

\* claim, on the thread of the creation of d: the oldest that is nobody's yet.  The
\* thread that reads bpftrace may be in prune, with a list from before that was there.
Claim(d) ==
  /\ observer = "live" /\ d \in looking
  /\ \E hid \in Unclaimed :
       /\ Oldest(hid)
       /\ claimed' = claimed \cup {hid}
       /\ record' = [record EXCEPT ![hid] = device[d].made]
       /\ losing' \in {losing, losing \cup {hid}}
  /\ looking' = looking \ {d}
  /\ sure' = sure \cup (alone \cap {d}) /\ alone' = alone \ {d}
  /\ UNCHANGED <<observer, ended>> /\ Quiet

\* Two seconds are long enough for the kernel to number what it was asked for.
GiveUp(d) ==
  /\ observer = "live" /\ d \in looking
  /\ Unclaimed = {} /\ device[d].at # "making"
  /\ looking' = looking \ {d} /\ alone' = alone \ {d}
  /\ UNCHANGED <<observer, claimed, record, losing, sure, ended>> /\ Quiet

\* prune: what was claimed after it listed what is alive, without the lock, is gone
\* for it, and is forgotten with the rest.
PruneForgets ==
  /\ losing # {}
  /\ losing' = {}
  /\ claimed' = claimed \ losing
  /\ record' = [d \in Devices |-> IF d \in losing THEN "unknown" ELSE record[d]]
  /\ sure' = sure \ losing /\ alone' = {}
  /\ UNCHANGED <<observer, looking, ended>> /\ Quiet

ObserverEnds ==
  /\ observer # "off" /\ Host \notin ended /\ MayEnd
  /\ ended' = ended \cup {Host}
  /\ observer' = "off" /\ looking' = {} /\ losing' = {}
  /\ sure' = {d \in sure : device[d].by = "uinput"} /\ alone' = {}
  /\ UNCHANGED <<claimed, record>> /\ Quiet

Observes ==
  \/ ObserverStarts \/ ProbeAttached \/ Announce
  \/ \E d \in Devices : Claim(d) \/ GiveUp(d)

-----------------------------------------------------------------------------
(* broker.py *)

World == UNCHANGED <<device, observing, certain>>

\* Whether the name of a device carries the tag of a seat.
Names(d, s) == device[d].made = s /\ s \in Tagging

\* owners: a descriptor that is still open says which device it made.
Creator(d) == IF device[d].by = "uinput" /\ There(d) THEN device[d].made ELSE "unknown"

\* owner_of_node, by what is at the node when it looks.
Observed(n) ==
  IF At(n) # None /\ device[At(n)].by = "uhid" THEN record[At(n)] ELSE "unknown"

\* uhid_holders, and the containers with a descriptor that was not there before.
Holders == {<<device[d].made, device[d].slot>> : d \in {x \in Devices : Open(x)}}
Fresh(s) == {h[1] : h \in Holders \ seen[s]} \ {Host}

Contradicts(d, s) == \E o \in Seats \ {s} : Names(d, o)

\* The descriptor if exactly one container has a fresh one, else the name.
Correlated(d, s) ==
  IF Cardinality(Fresh(s)) = 1 THEN Fresh(s) = {s} /\ ~Contradicts(d, s)
  ELSE Names(d, s)

\* Mutated: the descriptor is asked although another maker was observed.
MineByDescriptor(d, s) ==
  \/ Creator(d) = s
  \/ Creator(d) = "unknown" /\ (Observed(device[d].node) = s \/ Correlated(d, s))

\* Mutated: nobody asks the observer.
MineUnobserved(d, s) == Creator(d) = s \/ (Creator(d) = "unknown" /\ Correlated(d, s))

\* attribute: the creator, what was observed, and what is left.
Mine(d, s) ==
  \/ Creator(d) = s
  \/ /\ Creator(d) = "unknown"
     /\ LET o == Observed(device[d].node)
        IN o = s \/ (o = "unknown" /\ Correlated(d, s))

\* main before its loop: an attachment of an earlier run stays if what is at its
\* node has the seat's name.  An event is sent for what is remembered.
Orphans(s) ==
  {n \in attached[s] : At(n) = None \/ ~Names(At(n), s)}

\* Nobody asks whether a call to Incus was refused, nor repeats it: of those made
\* at these nodes, some.
Refused(nodes) ==
  {no \in SUBSET nodes :
     no # {} => Cardinality(ended) + Cardinality(RefusedAt \cup no) <= MaxTroubles}

\* Calls that take these nodes out of a seat.
Detach(s, nodes) ==
  \E no \in Refused(nodes) :
    /\ attached' = [attached EXCEPT ![s] = @ \ (nodes \ no)]
    /\ refused' = [refused EXCEPT ![s] = (@ \ nodes) \cup (no \cap attached[s])]

Forgets(s, n, d) == IF told[s][n] = d THEN None ELSE told[s][n]

\* Mutated: what is remembered counts as attached.
BrokerStartsRemembering(s) ==
  /\ broker[s] = "off"
  /\ broker' = [broker EXCEPT ![s] = "idle"]
  /\ Detach(s, Orphans(s))
  /\ known' = [known EXCEPT ![s] = memory[s]]
  /\ UNCHANGED <<found, sighted, current, seen, todo, told, memory, ended>> /\ World

BrokerStarts(s) ==
  /\ broker[s] = "off"
  /\ broker' = [broker EXCEPT ![s] = "idle"]
  /\ Detach(s, Orphans(s))
  /\ told' = [told EXCEPT ![s] = [n \in Nodes |->
       IF n \in Orphans(s) THEN Forgets(s, n, memory[s][n]) ELSE told[s][n]]]
  /\ UNCHANGED <<found, sighted, current, known, seen, todo, memory, ended>> /\ World

\* Mutated: a list without a device that was there is read again, as if cut off.
ScanAgain(s) ==
  /\ broker[s] = "idle"
  /\ IF \E n \in Nodes : known[s][n] # None /\ At(n) # known[s][n] THEN UNCHANGED deviceVars
     ELSE /\ broker' = [broker EXCEPT ![s] = "scanned"]
          /\ found' = [found EXCEPT ![s] = {d \in Devices : There(d)}]
          /\ sighted' = [sighted EXCEPT ![s] = {d \in sure : There(d)}]
          /\ UNCHANGED <<current, known, todo, seen, inSeats, ended>> /\ World

Scan(s) ==
  /\ broker[s] = "idle"
  /\ broker' = [broker EXCEPT ![s] = "scanned"]
  /\ found' = [found EXCEPT ![s] = {d \in Devices : There(d)}]
  /\ sighted' = [sighted EXCEPT ![s] = {d \in sure : There(d)}]
  /\ UNCHANGED <<current, known, todo, seen, inSeats, ended>> /\ World

Attribute(s) ==
  /\ broker[s] = "scanned"
  /\ broker' = [broker EXCEPT ![s] = "attaching"]
  /\ LET mine == {d \in found[s] : Mine(d, s)}
     IN /\ current' = [current EXCEPT ![s] = [n \in Nodes |->
               IF \E d \in mine : device[d].node = n
               THEN CHOOSE d \in mine : device[d].node = n ELSE None]]
        /\ todo' = [todo EXCEPT ![s] = {device[d].node : d \in mine}]
  /\ seen' = [seen EXCEPT ![s] = Holders]
  /\ found' = [found EXCEPT ![s] = {}]
  /\ UNCHANGED <<sighted, known, inSeats, ended>> /\ World

\* attach takes the node by its path and announces what was scanned.
Attach(s, n) ==
  /\ broker[s] = "attaching" /\ n \in todo[s]
  /\ todo' = [todo EXCEPT ![s] = @ \ {n}]
  /\ IF known[s][n] = None
     THEN /\ \E no \in Refused({n}) :
               /\ attached' = [attached EXCEPT ![s] = @ \cup ({n} \ no)]
               /\ refused' = [refused EXCEPT ![s] = (@ \ {n}) \cup (no \ attached[s])]
          /\ told' = [told EXCEPT ![s][n] = current[s][n]]
     ELSE UNCHANGED <<attached, refused, told>>
  /\ UNCHANGED <<broker, found, sighted, current, known, seen, memory, ended>> /\ World

Left(s) == {n \in Nodes : known[s][n] # None /\ current[s][n] = None}

\* Every node of the pass before that is not in this one is detached, the state
\* is saved if anything changed, and the pass is over.
PassEnds(s) ==
  /\ broker[s] = "attaching" /\ todo[s] = {}
  /\ broker' = [broker EXCEPT ![s] = "idle"]
  /\ Detach(s, Left(s))
  /\ told' = [told EXCEPT ![s] = [n \in Nodes |->
       IF n \in Left(s) THEN Forgets(s, n, known[s][n]) ELSE told[s][n]]]
  /\ memory' = IF current[s] = known[s] THEN memory ELSE [memory EXCEPT ![s] = current[s]]
  /\ known' = [known EXCEPT ![s] = current[s]]
  /\ current' = [current EXCEPT ![s] = Nothing]
  /\ sighted' = [sighted EXCEPT ![s] = {}]
  /\ UNCHANGED <<found, todo, seen, ended>> /\ World

\* "Attached devices stay in place."
BrokerEnds(s) ==
  /\ broker[s] # "off" /\ s \notin ended /\ MayEnd
  /\ ended' = ended \cup {s}
  /\ broker' = [broker EXCEPT ![s] = "off"]
  /\ found' = [found EXCEPT ![s] = {}] /\ todo' = [todo EXCEPT ![s] = {}]
  /\ sighted' = [sighted EXCEPT ![s] = {}] /\ seen' = [seen EXCEPT ![s] = {}]
  /\ current' = [current EXCEPT ![s] = Nothing] /\ known' = [known EXCEPT ![s] = Nothing]
  /\ UNCHANGED <<inSeats>> /\ World

BrokerSteps(s) ==
  \/ BrokerStarts(s) \/ Scan(s) \/ Attribute(s) \/ PassEnds(s)
  \/ \E n \in Nodes : Attach(s, n)

DeviceNext ==
  \/ Kernel \/ Observes \/ PruneForgets \/ ObserverEnds
  \/ \E s \in Watched : BrokerSteps(s) \/ BrokerEnds(s)

\* Supervise starts the observer and the brokers again, each of them goes on, and
\* the kernel does what it was asked.
DeviceFairness ==
  /\ WF_deviceVars(Observes)
  /\ \A d \in Devices : WF_deviceVars(Numbered(d))
  /\ \A s \in Watched : WF_deviceVars(BrokerSteps(s))

DeviceSpec == DeviceInit /\ [][DeviceNext]_deviceVars /\ DeviceFairness

-----------------------------------------------------------------------------
(* Properties *)

PerNode == [Nodes -> Devices \cup {None}]

KernelTyped ==
  /\ device \in [Devices -> [made : Makers, by : {"none", "uhid", "uinput"},
       at : {"none", "making", "there", "gone"}, node : Nodes \cup {None},
       slot : Devices \cup {None}, number : Devices \cup {None}]]
  /\ \A d, e \in Devices : There(d) /\ There(e) /\ device[d].node = device[e].node => d = e
  /\ \A d, e \in Uhids : device[d].number = device[e].number => d = e

\* Every variable keeps its kind, no two devices are at one node, no creation is
\* claimed that was not made, and what a pass attaches it has found.
DevicesTypeOK ==
  /\ KernelTyped
  /\ observer \in {"off", "starting", "attached", "live"}
  /\ claimed \subseteq Uhids /\ looking \subseteq Devices /\ losing \subseteq claimed
  /\ record \in [Devices -> Makers \cup {"unknown"}]
  /\ \A d \in Devices : record[d] # "unknown" => d \in claimed
  /\ broker \in [Seats -> {"off", "idle", "scanned", "attaching"}]
  /\ found \in [Seats -> SUBSET Devices] /\ todo \in [Seats -> SUBSET Nodes]
  /\ \A s \in Seats, n \in Nodes : n \in todo[s] => current[s][n] # None
  /\ current \in [Seats -> PerNode] /\ known \in [Seats -> PerNode]
  /\ seen \in [Seats -> SUBSET (Makers \X Devices)]
  /\ attached \in [Seats -> SUBSET Nodes] /\ refused \in [Seats -> SUBSET Nodes]
  /\ told \in [Seats -> PerNode] /\ memory \in [Seats -> PerNode]
  /\ sure \subseteq Devices /\ alone \subseteq looking
  /\ sighted \in [Seats -> SUBSET Devices]
  /\ ended \subseteq Makers /\ Cardinality(ended) <= MaxTroubles

\* attribute: "Decide which of the candidates belong to this seat."  When a pass
\* ends nothing is left in the seat that another seat or the host made and that
\* was there when the pass began, if it could be said by then who made it.  Not
\* what a broker found attached when it started (NoOrphansStay), nor at a node Incus
\* refused to take out.
OnlyItsOwn ==
  [][\A s \in Watched \ (ended \cap Tagging) :
       broker[s] = "attaching" /\ broker'[s] = "idle" =>
         \A d \in sighted[s] \cap sure :
           device[d].node \in attached'[s] \ refused'[s] => device[d].made = s]_deviceVars

\* A seat keeps the device it plays with: no pass that has found it takes it
\* away, whatever is made and unmade beside it.
KeptWhileThere ==
  [][\A s \in Watched : \A d \in sighted[s] \cap sure :
       device[d].made = s /\ device[d].node \in attached[s]
       => device[d].node \in attached'[s]]_deviceVars

\* "the very seat that created them": a seat ends up with what it made, unless Incus
\* refused its node.
Arrives ==
  \A s \in Watched, d \in Devices :
    <>[](device[d].made = s /\ d \in sure /\ device[d].node \notin refused[s])
      => <>[](device[d].node \in attached[s])

\* No node stays attached for good with nothing at it.
Dead(s, n) == <>[](At(n) = None) => <>[](n \notin attached[s])

NothingDeadStays ==
  \A s \in Watched, n \in Nodes :
    Dead(s, n) \/ <>[](n \in refused[s]) \/ <>(s \in ended \cap Tagging)

-----------------------------------------------------------------------------
(* What the comments say and the code does not do *)

\* prune: "Forget devices that no longer exist".  What is claimed between its two
\* steps is forgotten too, and is the oldest nobody has claimed from then on: the next
\* creation takes it, whoever makes it.
ForgetsOnlyTheGone ==
  [][\A d \in Devices :
       record[d] # "unknown" /\ There(d)' /\ observer' = "live" => record'[d] = record[d]]_deviceVars

\* main: "Clean up orphaned attachments from earlier runs."  What is kept at the
\* start, because the device is still there, is in no pass's known: nobody takes it
\* away when the device goes, and the next device of that node is in the seat.
NoOrphansStay == \A s \in Watched, n \in Nodes : Dead(s, n)

\* security.md of a controller the host pairs: "it comes back as the host's and
\* is left alone", and broker.py: "A gamepad that appears belongs to whichever
\* container opened a descriptor since then."  The correlation is made for every
\* uhid device without a record, however long it has been there.
HostDevicesAreLeftAlone ==
  observer = "live" =>
    \A s \in Watched : \A n \in todo[s] : device[current[s][n]].made # Host

\* attach: "Send the event, so that clients already running notice the device."
\* The programs in a seat end up knowing what is at the seat's nodes.
SeatIsTold ==
  \A s \in Watched, d \in Devices :
    <>[](device[d].made = s /\ d \in sure) => <>[](\E n \in Nodes : device[d].node = n /\ told[s][n] = d)

\* --other-seat: a device with the name of another seat "is refused even when
\* something structural points here".
OtherNamesAreRefused ==
  \A s \in Seats, n \in Nodes : n \in todo[s] => ~Contradicts(current[s][n], s)
=============================================================================
