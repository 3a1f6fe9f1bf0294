------------------------------ MODULE GameList ------------------------------
(***************************************************************************)
(* The list of games a seat offers: scans of what is installed in it       *)
(* (games.go), the entries of the seat's own launcher and the file         *)
(* Sunshine keeps (apps.go), the reload Sunshine has to be asked for, which *)
(* ends every stream (software.go), and the sweep that finds a list due or  *)
(* a stream over (manager.go).                                              *)
(*                                                                         *)
(* Who streams is simplified from StreamWatch: a client is there or not,   *)
(* and a stream counts as over some idle reading after it was.             *)
(***************************************************************************)
EXTENDS Naturals, FiniteSets

CONSTANTS
  Games,       \* [name, source]: what the player may install
  AtStart,     \* what may be installed when the daemon finds the seat
  Rank,        \* the order of the sources, by which one of two equal names is taken
  Order,       \* the order of the names, by which the list is sorted
  MaxListed,   \* maxGames, the length of the list
  Shown,       \* games a launcher has put among the seat's own entries itself
  MaxVisits,   \* bound: connections a client makes
  MaxChanges,  \* bound: changes of what is installed, and writes of Sunshine
  MaxFaults,   \* bound: answers and calls that are lost
  MaxOps       \* bound: installations through the interface

\* Nobody gives an entry of his own the name of a game: one whose name is a
\* game's now is dropped (mergeApps).
ASSUME GameListAssumption ==
  /\ AtStart \subseteq SUBSET Games
  /\ \A g \in Games : g.name # "my own"

VARIABLES
  client,      \* somebody streams
  streaming, unclear, \* runtime: somebody streamed, and the last look was not answered
  ended,       \* sessionEnded is at work
  games,       \* what is installed
  data,        \* how often what Lutris knows has changed: the state its files are in
  entries,     \* games polyseat has put among the seat's own entries
  file,        \* the entries of apps.json; none when it is not there
  rewrite,     \* what Sunshine is about to have written, {} when it does not write
  served,      \* the entries Sunshine has loaded
  memory,      \* runtime.lutris: the games remembered and the state they go with
  apps,        \* refreshApps: how far it is, "off" when nobody runs it
  stamp,       \* the state of Lutris's data it read before asking Lutris
  list, base,  \* the games it found, and the file it read
  appsPending, reloadPending, due, \* runtime: held back, owed, and an interval over
  task,        \* the operation: "none", "waits", "installs", "lists"
  cameLate,    \* history: a client came after the look at the ports
  unanswered,  \* history: a write whose answer was lost
  visits, changes, faults, ops

run == <<apps, stamp, list, base>>
flags == <<appsPending, reloadPending, due>>
judgement == <<streaming, unclear>>
content == <<games, data, entries, file, rewrite, served>>
listVars == <<client, judgement, ended, content, memory, run, flags, task, cameLate, unanswered,
          visits, changes, faults, ops>>

Of(source) == {g \in games : g.source = source}
Entry(g) == [name |-> g.name, by |-> g.source]
Fixed == {[name |-> "Desktop", by |-> "polyseat"], [name |-> "Steam Big Picture", by |-> "polyseat"]}
Hand == [name |-> "my own", by |-> "hand"]
Stock == [name |-> "Low Res Desktop", by |-> "sunshine"]

\* Stands for a file that is there and says nothing: empty, or cut off.
Torn == [name |-> "", by |-> "torn"]

\* The seat must not be interrupted.
watched == streaming \/ unclear

\* dedupeGames: the first of two games of one name, in the order of the scans.
Dedupe(gs) ==
  {g \in gs : \A h \in gs : h.name = g.name => Rank[g.source] <= Rank[h.source]}

\* installedGames: sorted by name, and no more than a client can scroll through.
Offer(gs) ==
  LET single == Dedupe(gs)
      Before(g) == {h \in single : Order[h.name] < Order[g.name]} IN
  {g \in single : Cardinality(Before(g)) < MaxListed}

\* wantedEntries: not what is among the seat's entries already.
Listed(g) == g.source = "desktop" \/ g \in Shown
Wanted(gs) == {g \in gs : ~Listed(g)}

\* polyseatApps and mergeApps: ours first, then what somebody added, which is
\* neither ours, nor Sunshine's stock, nor of a name that is ours now.  A file
\* in which nothing is marked as ours is Sunshine's own and is not merged, and
\* nothing is kept of one that cannot be parsed.
Marked(f) == \E e \in f : e.by \notin {"hand", "sunshine", "torn"}
Fresh(gs) == Fixed \cup {Entry(g) : g \in gs}
Merge(gs, old) ==
  Fresh(gs) \cup {e \in old : Marked(old) /\ e.by = "hand" /\ \A o \in Fresh(gs) : o.name # e.name}

\* sameAppList: two files that say the same in another order are the same.
Same(new, old) == new = old

ListInit ==
  /\ client = FALSE /\ streaming = FALSE /\ unclear = FALSE /\ ended = FALSE
  /\ games \in AtStart /\ data = 0 /\ entries = {}
  /\ file \in {{}, {Stock}, Fixed \cup {Hand}} /\ rewrite = {} /\ served = file
  /\ memory = [held |-> FALSE, stamp |-> 0, games |-> {}]
  /\ apps = "off" /\ stamp = 0 /\ list = {} /\ base = {}
  /\ appsPending = FALSE /\ reloadPending = FALSE /\ due = TRUE
  /\ task = "none" /\ cameLate = FALSE /\ unanswered = FALSE
  /\ visits = 0 /\ changes = 0 /\ faults = 0 /\ ops = 0

Fault == faults < MaxFaults /\ faults' = faults + 1
NoFault == UNCHANGED faults

-----------------------------------------------------------------------------
(* The player and his client *)

Connect ==
  /\ ~client /\ visits < MaxVisits /\ client' = TRUE /\ visits' = visits + 1
  /\ cameLate' = (cameLate \/ apps = "reload")
  /\ UNCHANGED <<judgement, ended, content, memory, run, flags, task, unanswered,
                 changes, faults, ops>>

Leave ==
  /\ client /\ client' = FALSE
  /\ UNCHANGED <<judgement, ended, content, memory, run, flags, task, cameLate, unanswered,
                 visits, changes, faults, ops>>

OneMoreOrLess ==
  \E g \in Games :
    /\ games' = IF g \in games THEN games \ {g} ELSE games \cup {g}
    /\ data' = IF g.source = "lutris" THEN data + 1 ELSE data

PlayerChangesGames ==
  /\ changes < MaxChanges /\ changes' = changes + 1
  /\ OneMoreOrLess
  /\ UNCHANGED <<client, judgement, ended, entries, file, rewrite, served, memory, run, flags,
                 task, cameLate, unanswered, visits, faults, ops>>

\* Sunshine's own pages add an entry, or change one: Sunshine writes the file
\* again in its place, and loads it.
HandEdits ==
  /\ changes < MaxChanges /\ changes' = changes + 1
  /\ ~client /\ rewrite = {} /\ file # {Torn}
  /\ rewrite' = file \cup {Hand} /\ file' = {Torn}
  /\ UNCHANGED <<client, judgement, ended, games, data, entries, served, memory, run, flags,
                 task, cameLate, unanswered, visits, faults, ops>>

\* A file that has another in its place by now is not the one Sunshine wrote.
\* What cuts Sunshine short leaves it torn.
SunshineHasWritten ==
  /\ rewrite # {} /\ rewrite' = {}
  /\ \/ /\ NoFault /\ file' = IF file = {Torn} THEN rewrite ELSE file
        /\ served' = file'
     \/ Fault /\ UNCHANGED <<file, served>>
  /\ UNCHANGED <<client, judgement, ended, games, data, entries, memory, run, flags, task,
                 cameLate, unanswered, visits, changes, ops>>

-----------------------------------------------------------------------------
(* The sweep, refreshSession and sessionEnded *)

\* An operation that waits for the lanes has cancelled them: what they ask of
\* the seat goes unanswered.
Cancelled == task = "waits"

\* A look at the ports; no answer says nothing, which is not "idle".
SaysIdle == ~Cancelled /\ ~client /\ NoFault
SaysOther == ((client \/ Cancelled) /\ NoFault) \/ Fault

\* refreshAppsSoon takes the list's lane unless it is taken or the seat is.
AppsLaneFree == apps = "off" /\ task = "none"
RefreshAppsSoon == apps' = IF AppsLaneFree THEN "launchers" ELSE apps

\* A list that is due while somebody streams is remembered for the end.
Judged ==
  /\ appsPending' = (appsPending \/ (due /\ watched'))
  /\ due' = (due /\ watched')
  /\ IF due /\ ~watched' THEN RefreshAppsSoon ELSE UNCHANGED apps

\* Somebody streams, or there is no answer.
SweepFindsBusy ==
  /\ task = "none" /\ ~ended
  /\ \/ client /\ NoFault /\ streaming' = TRUE /\ unclear' = FALSE
     \/ Fault /\ unclear' = TRUE /\ UNCHANGED streaming
  /\ Judged
  /\ UNCHANGED <<client, ended, content, memory, stamp, list, base, reloadPending,
                 task, cameLate, unanswered, visits, changes, ops>>

\* An idle reading, with the grace not over yet, or over.  No stream ends when
\* there was none but only looks without an answer.
SweepFindsIdle ==
  /\ task = "none" /\ ~ended
  /\ SaysIdle /\ unclear' = FALSE
  /\ \/ UNCHANGED <<streaming, ended>>
     \/ streaming /\ streaming' = FALSE /\ ended' = TRUE
  /\ Judged
  /\ UNCHANGED <<client, content, memory, stamp, list, base, reloadPending, task,
                 cameLate, unanswered, visits, changes, ops>>

IntervalPasses ==
  /\ ~due /\ due' = TRUE
  /\ UNCHANGED <<client, judgement, ended, content, memory, run, appsPending,
                 reloadPending, task, cameLate, unanswered, visits, changes, faults, ops>>

\* sessionEnded does nothing unless a second look says the seat is idle; then
\* what was held back is done, or falls due again when it cannot be.
SessionEnded ==
  /\ ended /\ ended' = FALSE
  /\ \/ SaysOther /\ UNCHANGED <<apps, appsPending, due>>
     \/ /\ SaysIdle /\ appsPending' = FALSE
        /\ IF appsPending \/ reloadPending
             THEN RefreshAppsSoon /\ due' = ~AppsLaneFree
             ELSE UNCHANGED <<apps, due>>
  /\ UNCHANGED <<client, judgement, content, memory, stamp, list, base, reloadPending,
                 task, cameLate, unanswered, visits, changes, ops>>

-----------------------------------------------------------------------------
(* WriteApps: what is installed *)

\* refreshApps ends: it was the lane's, or the last of an installation.
Ends ==
  /\ apps' = "off" /\ stamp' = 0 /\ list' = {} /\ base' = {}
  /\ task' = IF task = "lists" THEN "none" ELSE task
Then(pc) == apps' = pc /\ UNCHANGED task
GoesOn(pc) == Then(pc) /\ UNCHANGED <<stamp, list, base>>

\* A question to the seat that gets no answer.
NoAnswer == IF Cancelled THEN NoFault ELSE Fault
Answer == ~Cancelled /\ NoFault

\* Without an answer about the launchers there is no list at all.
ScanLaunchers ==
  /\ apps = "launchers"
  /\ (Answer /\ GoesOn("steam")) \/ (NoAnswer /\ Ends)
  /\ UNCHANGED <<client, judgement, ended, content, memory, flags, cameLate,
                 unanswered, visits, changes, ops>>

\* Every other scan that gets no answer leaves its games out.  In the step
\* after Steam's the state of Lutris's data is read.
SteamGames == Of("steam")
ScanSteam ==
  /\ apps = "steam" /\ Then("stamp")
  /\ (Answer /\ list' = SteamGames) \/ (NoAnswer /\ list' = {})
  /\ UNCHANGED <<client, judgement, ended, content, memory, stamp, base, flags, cameLate,
                 unanswered, visits, changes, ops>>

LutrisState ==
  /\ apps = "stamp"
  /\ \/ Answer /\ stamp' = data /\ Then("lutris")
     \/ NoAnswer /\ Then("rest") /\ UNCHANGED stamp
  /\ UNCHANGED <<client, judgement, ended, content, memory, list, base, flags, cameLate,
                 unanswered, visits, changes, ops>>

\* What Lutris said last is good while its data is as it was then; otherwise
\* Lutris is asked, and what it says goes with the state from before.
LutrisGames ==
  /\ apps = "lutris" /\ Then("rest") /\ stamp' = 0
  /\ \/ /\ memory.held /\ memory.stamp = stamp /\ NoFault
        /\ list' = list \cup memory.games /\ UNCHANGED memory
     \/ /\ ~(memory.held /\ memory.stamp = stamp) /\ Answer
        /\ list' = list \cup Of("lutris")
        /\ memory' = [held |-> TRUE, stamp |-> stamp, games |-> Of("lutris")]
     \/ /\ ~(memory.held /\ memory.stamp = stamp) /\ NoAnswer
        /\ UNCHANGED <<list, memory>>
  /\ UNCHANGED <<client, judgement, ended, content, base, flags, cameLate, unanswered,
                 visits, changes, ops>>

\* Each of the others is a scan of its own too.  A shortcut to what another
\* scan has found is not a game of its own.
FaugusGames == Of("faugus")
HeroicGames == Of("heroic")
AppImageGames == Of("appimage")
Shortcuts(known) == {g \in Of("desktop") : \A h \in known : h.name # g.name}
ScanOthers ==
  /\ apps = "rest" /\ Then("entries")
  /\ LET found == list \cup FaugusGames \cup HeroicGames \cup AppImageGames
          all == found \cup Shortcuts(found) IN
       \/ Answer /\ list' = Offer(all)
       \/ NoAnswer /\ \E silent \in {g.source : g \in all \ list} :
            list' = Offer({g \in all : g.source # silent})
       \/ Cancelled /\ NoFault /\ list' = Offer(list)
  /\ UNCHANGED <<client, judgement, ended, content, memory, stamp, base, flags, cameLate,
                 unanswered, visits, changes, ops>>

\* writeGameEntries: what is missing is written first, then what is too many
\* removed, one by one.  A failure is a line in the log.
WriteEntries ==
  /\ apps = "entries" /\ Then("read")
  /\ \/ Answer /\ entries' = Wanted(list)
     \/ NoAnswer /\ \E part \in SUBSET (Wanted(list) \ entries) : entries' = entries \cup part
     \/ NoAnswer /\ \E part \in SUBSET (entries \ Wanted(list)) :
          entries' = (entries \cup Wanted(list)) \ part
  /\ UNCHANGED <<client, judgement, ended, games, data, file, rewrite, served, memory, stamp, list,
                 base, flags, cameLate, unanswered, visits, changes, ops>>

-----------------------------------------------------------------------------
(* WriteApps: the file, and refreshApps: the reload *)

\* Mutated: a file that could not be read is taken for one that is not there.
ReadAppsFileOrNothing ==
  /\ apps = "read" /\ Then("write")
  /\ (Answer /\ base' = file) \/ (NoAnswer /\ base' = {})
  /\ UNCHANGED <<stamp, list, client, judgement, ended, content, memory, flags, cameLate,
                 unanswered, visits, changes, ops>>

\* A file that could not be read is not an empty one.
ReadAppsFile ==
  /\ apps = "read"
  /\ \/ Answer /\ base' = file /\ Then("write") /\ UNCHANGED <<stamp, list>>
     \/ NoAnswer /\ Ends
  /\ UNCHANGED <<client, judgement, ended, content, memory, flags, cameLate, unanswered,
                 visits, changes, ops>>

\* Written when it would say something else, in whatever order.  A reload that
\* is owed is as good a reason to go on.  When the answer of a write is lost
\* the file may be new and nobody is owed anything.
WriteAppsFile ==
  /\ apps = "write"
  /\ LET new == Merge(list, base) IN
       \/ /\ Same(new, base) /\ NoFault /\ UNCHANGED <<file, unanswered>>
          /\ IF reloadPending THEN GoesOn("check") ELSE Ends
       \/ /\ ~Same(new, base) /\ Answer /\ file' = new /\ GoesOn("check") /\ UNCHANGED unanswered
       \/ /\ ~Same(new, base) /\ NoAnswer /\ Ends
          /\ \/ UNCHANGED <<file, unanswered>>
             \/ file' = new /\ unanswered' = TRUE
  /\ UNCHANGED <<client, judgement, ended, games, data, entries, rewrite, served, memory, flags,
                 cameLate, visits, changes, ops>>

\* Mutated: that the caller found nobody streaming is enough.
ReloadOnTheCallersWord ==
  /\ apps = "check" /\ GoesOn("reload")
  /\ UNCHANGED <<client, judgement, ended, content, memory, flags, cameLate, unanswered,
                 visits, changes, faults, ops>>

\* The seat is asked immediately before the step that ends streams.
CheckNobodyStreams ==
  /\ apps = "check" /\ cameLate' = FALSE
  /\ \/ SaysIdle /\ GoesOn("reload") /\ UNCHANGED reloadPending
     \/ SaysOther /\ Ends /\ reloadPending' = TRUE
  /\ UNCHANGED <<client, judgement, ended, content, memory, appsPending, due,
                 unanswered, visits, changes, ops>>

\* ReloadApps has Sunshine write its first entry again, which loads the file
\* and ends what streams; it does one such request after the other.  Owed
\* until it is known to have happened.
Unloaded == NoAnswer \/ (Answer /\ file = {Torn})
Reloaded == file # {Torn} /\ served' = file /\ client' = FALSE

\* Mutated: what the daemon owes is forgotten before it is paid.
ReloadForgotten ==
  /\ apps = "reload" /\ rewrite = {} /\ Ends /\ cameLate' = FALSE /\ reloadPending' = FALSE
  /\ (Answer /\ Reloaded) \/ (Unloaded /\ UNCHANGED <<served, client>>)
  /\ UNCHANGED <<judgement, ended, games, data, entries, file, rewrite, memory, appsPending,
                 due, unanswered, visits, changes, ops>>

Reload ==
  /\ apps = "reload" /\ rewrite = {} /\ Ends /\ cameLate' = FALSE
  /\ \/ Answer /\ Reloaded /\ reloadPending' = FALSE
     \/ /\ Unloaded
        /\ reloadPending' = TRUE /\ (Reloaded \/ UNCHANGED <<served, client>>)
  /\ UNCHANGED <<judgement, ended, games, data, entries, file, rewrite, memory, appsPending, due,
                 unanswered, visits, changes, ops>>

-----------------------------------------------------------------------------
(* InstallSoftware and RemoveSoftware *)

OpClaims ==
  /\ task = "none" /\ ops < MaxOps /\ task' = "waits" /\ ops' = ops + 1
  /\ UNCHANGED <<client, judgement, ended, content, memory, run, flags, cameLate,
                 unanswered, visits, changes, faults>>

OpBegins ==
  /\ task = "waits" /\ ~ended /\ apps = "off" /\ task' = "installs"
  /\ UNCHANGED <<client, judgement, ended, content, memory, run, flags, cameLate,
                 unanswered, visits, changes, faults, ops>>

\* refreshAppsWhenNobodyIsStreaming: held back, or made by the operation.
Installs ==
  /\ task = "installs" /\ OneMoreOrLess
  /\ IF watched THEN appsPending' = TRUE /\ task' = "none" /\ UNCHANGED apps
     ELSE apps' = "launchers" /\ task' = "lists" /\ UNCHANGED appsPending
  /\ UNCHANGED <<client, judgement, ended, entries, file, rewrite, served, memory, stamp,
                 list, base, reloadPending, due, cameLate, unanswered, visits,
                 changes, faults, ops>>

-----------------------------------------------------------------------------
Sweep == SweepFindsBusy \/ SweepFindsIdle
RefreshApps ==
  \/ ScanLaunchers \/ ScanSteam \/ LutrisState \/ LutrisGames \/ ScanOthers
  \/ WriteEntries \/ ReadAppsFile \/ WriteAppsFile \/ CheckNobodyStreams \/ Reload
Operation == OpBegins \/ Installs

ListNext ==
  \/ Connect \/ Leave \/ PlayerChangesGames \/ HandEdits \/ SunshineHasWritten
  \/ Sweep \/ IntervalPasses \/ SessionEnded \/ RefreshApps
  \/ OpClaims \/ Operation

\* Everything the daemon has begun goes on, sweeps come again and again, and
\* among the idle readings of a seat nobody streams from there is one that
\* finds the grace over.
ListFairness ==
  /\ WF_listVars(Operation) /\ WF_listVars(SessionEnded) /\ WF_listVars(RefreshApps)
  /\ WF_listVars(IntervalPasses) /\ WF_listVars(SunshineHasWritten)
  /\ WF_listVars(Sweep) /\ WF_listVars(SweepFindsIdle /\ ~streaming')

ListSpec == ListInit /\ [][ListNext]_listVars /\ ListFairness

-----------------------------------------------------------------------------
(* Properties *)

Pcs == {"off", "launchers", "steam", "stamp", "lutris", "rest", "entries",
        "read", "write", "check", "reload"}
GameListTypeOK ==
  /\ {client, streaming, unclear, ended, appsPending, reloadPending, due, cameLate,
      unanswered} \subseteq BOOLEAN
  /\ {games, entries, list, memory.games} \subseteq SUBSET Games
  /\ {file, rewrite, served, base} \subseteq SUBSET (Fresh(Games) \cup {Hand, Stock, Torn})
  /\ {data, stamp, memory.stamp} \subseteq 0..(MaxChanges + MaxOps)
  /\ apps \in Pcs /\ task \in {"none", "waits", "installs", "lists"}

\* Reloading the list ends the stream of nobody who was there at the last look
\* before it (refreshApps asks "immediately before the one step that ends
\* streams"): not on the caller's word, nor on the sweep's.
ReloadsOnFreshNews == [][client /\ ~client' /\ apps' # apps => cameLate]_listVars

\* In the end Sunshine offers what is installed, the first of it by name, and the seat's own
\* launcher shows it too: whatever held the list back, whichever scan, write or reload
\* failed on the way, and although Lutris is not asked every time.  The one
\* way out is a write that happened and whose answer was lost.
Arrived ==
  /\ {e \in served : e.by \notin {"hand", "sunshine"}} = Fresh(Offer(games))
  /\ entries = Wanted(Offer(games))
AppListArrives == []<>client \/ <>[]Arrived \/ <>unanswered

\* An entry somebody added in Sunshine's pages is dropped only by a list that
\* had read the file before it was added, or had met it half written
\* (mergeApps keeps nothing of a file that is there and cannot be parsed).
MayDrop == base = {Torn} \/ (Marked(base) /\ Hand \notin base)
HandAddedStays ==
  [][(Hand \in file /\ Hand \notin file' /\ file' # {Torn} /\ Marked(file)) => MayDrop]_listVars

\* Nor does a read that met the file half written drop it ("on the strength of
\* a read that merely failed this once").
TornReadsDropNothing ==
  [][(Hand \in file /\ Hand \notin file' /\ file' # {Torn}) => base # {Torn}]_listVars
=============================================================================
