--------------------------- MODULE LauncherShares ---------------------------
(***************************************************************************)
(* How the way to start a game gets from the member whose launcher         *)
(* installed it to the launchers of the others (share.go): the pool moves  *)
(* the game's folder, and the daemon reads the launcher's entry there,     *)
(* keeps it as a recipe and writes an entry from it wherever the folder    *)
(* arrives.  It takes the entry back when the folder leaves, or when the   *)
(* recipe's own member has taken the game out of this launcher.            *)
(*                                                                         *)
(* One launcher and one folder: a round treats each folder on its own, and *)
(* every launcher has a book of its own.  The folder brings no setup       *)
(* script; one that does is left to it.  How folders move is in            *)
(* SharedFolders; here a pass moves one and says so afterwards.            *)
(***************************************************************************)
EXTENDS Naturals, Sequences, LibraryMembers

CONSTANTS
  Host,        \* the one that is the host: it is always there
  Launcher,    \* "Lutris" or "Heroic"; Faugus is like Heroic, but writes beside a namesake
  MaxChanges,  \* bound: what players and the person at the interface do
  MaxDeletes   \* bound: seats deleted

ASSUME HostIsMember == Host \in Members

\* What book.recipe and doing hold besides members.
ASSUME SharesNames == Members \cap {"none", "nobody", "uninstalled", "shared"} = {}

VARIABLES
  seats,       \* members that exist
  up,          \* members that can be asked: running, and the launcher has been started once
  open,        \* members whose launcher is open, where that matters
  have,        \* members whose shared folder holds the game
  pooled,      \* the pool holds it
  entry,       \* the launcher's entry: "none"; the player's, for a game at "home", its "own" in
               \* the shared folder, or an "odd" one there; "ours", written by the daemon
  book,        \* shareBook.state: the author of the recipe, and what was given to each member:
               \* "no", "written", or "left" to what was there
  disk,        \* the book as it was last saved
  everyone, stale, \* shareBook: who is owed a look
  touched,     \* the host's launcher has changed since hostStamp was taken
  untold,      \* a folder has moved that no pass has reported
  doing,       \* what other goroutines still have to tell the books
  round,       \* the round, see Off
  removed,     \* history: entries players removed, "given" when the daemon knew it had written it
  bounds       \* how much of each bound is used

world == <<seats, up, open, have, pooled, entry>>
books == <<book, disk>>
owing == <<everyone, stale, touched>>
shareVars == <<world, books, owing, untold, doing, round, removed, bounds>>

Off == [at |-> "off", todo |-> <<>>, scans |-> [m \in Members |-> "unread"],
        recipe |-> "none", answer |-> "none"]

ShareInit ==
  /\ seats = Members /\ up = {Host} /\ open = {} /\ have = {} /\ pooled = FALSE
  /\ entry = [m \in Members |-> "none"]
  /\ book = [recipe |-> "none", given |-> [m \in Members |-> "no"]] /\ disk = book
  /\ everyone = TRUE /\ stale = {} /\ touched = TRUE
  /\ untold = FALSE /\ doing = {} /\ round = Off
  /\ removed = [m \in Members |-> "no"]
  /\ bounds = [changes |-> 0, deletes |-> 0, faults |-> 0, crashes |-> 0]

Spend(what, max) == bounds[what] < max /\ bounds' = [bounds EXCEPT ![what] = @ + 1]
Failure == Spend("faults", MaxFaults)
NoFailure == UNCHANGED bounds

\* save writes the whole book to a new file and renames it; an error is only logged.
Save ==
  \/ disk' = book' /\ NoFailure
  \/ UNCHANGED disk /\ Failure

\* An entry changes: on the host it shows in the stamp.
Becomes(m, e) ==
  /\ entry' = [entry EXCEPT ![m] = e]
  /\ touched' = (touched \/ (m = Host /\ entry[m] # e))

\* The rounds' own steps change nothing but what they name.
RoundOnly == UNCHANGED <<seats, up, open, pooled, untold, doing>>
NothingElse == RoundOnly /\ UNCHANGED <<have, entry, touched>>
StillRemoved ==
  removed' = [m \in Members |->
    IF removed[m] = "given" /\ (m \notin have' \/ book'.recipe = "none") THEN "no"
    ELSE removed[m]]

\* An entry made in the launcher, which no copy is, and one that a recipe is
\* taken from: nothing in it that a launcher elsewhere should not be told.
Made(e) == e \in {"own", "odd"}
Fit(e) == e = "own"

\* Heroic keeps its list in memory and writes it whole: nothing is changed
\* under one that is open.  It also has a folder of its own to be moved.
OwnList == Launcher = "Heroic"

-----------------------------------------------------------------------------
(* A round, shareBook.round *)

m0 == Head(round.todo)
Next1 == [round EXCEPT !.at = "scan", !.todo = Tail(@)]

\* owed, without those who left.
Owed == seats \cap (IF everyone \/ touched THEN Members ELSE stale)

\* Mutated: only who can be asked at once is remembered.
RoundBeginsWithTheRunning ==
  /\ round.at = "begun"
  /\ everyone' = FALSE /\ touched' = FALSE /\ stale' = Owed \cap up
  /\ round' = IF stale' = {} THEN Off
              ELSE [Off EXCEPT !.at = "scan", !.todo = SelectSeq(Order, LAMBDA m : m \in stale')]
  /\ RoundOnly /\ UNCHANGED <<have, entry, books, removed, bounds>>

\* hostStamp is taken before anything is read, and everyone becomes a list of names.
RoundBegins ==
  /\ round.at = "begun"
  /\ everyone' = FALSE /\ touched' = FALSE /\ stale' = Owed
  /\ round' = IF Owed = {} THEN Off
              ELSE [Off EXCEPT !.at = "scan", !.todo = SelectSeq(Order, LAMBDA m : m \in Owed)]
  /\ RoundOnly /\ UNCHANGED <<have, entry, books, removed, bounds>>

\* prepareMember may bring a game from a store's prefix into the shared folder;
\* then the scan.  A member that cannot be asked stays owed.
Scan ==
  /\ round.at = "scan" /\ round.todo # <<>>
  /\ RoundOnly /\ UNCHANGED <<books, everyone, stale, removed>>
  /\ \/ /\ m0 \in up /\ NoFailure
        /\ \E e \in {entry[m0]} \cup (IF OwnList /\ entry[m0] = "home" THEN {"own"} ELSE {}) :
             /\ Becomes(m0, e)
             /\ have' = IF e # entry[m0] THEN have \cup {m0} ELSE have
             /\ round' = [round EXCEPT !.at = "learn", !.answer = e]
     \/ /\ IF m0 \in up THEN Failure ELSE NoFailure
        /\ round' = Next1 /\ UNCHANGED <<have, entry, touched>>

\* learn: the first to offer a recipe for a folder of the pool keeps it, and it
\* is withdrawn when he has no entry of his own any more.
Learn ==
  /\ round.at = "learn"
  /\ LET author == book.recipe  gone == author = m0 /\ ~Made(round.answer) IN
       /\ book' = [book EXCEPT !.recipe =
            IF Fit(round.answer) /\ pooled /\ author \in {"none", "nobody"} THEN m0
            ELSE IF gone THEN "none" ELSE author]
       /\ everyone' = (everyone \/ gone)
  /\ IF book' # book THEN Save ELSE UNCHANGED <<disk, bounds>>
  /\ round' = [Next1 EXCEPT !.scans[m0] = round.answer, !.answer = "none"]
  /\ NothingElse /\ UNCHANGED stale
  /\ StillRemoved

\* The recipes are read once everybody has been asked.
TakesRecipes ==
  /\ round.at = "scan" /\ round.todo = <<>>
  /\ LET asked == SelectSeq(Order, LAMBDA m : round.scans[m] # "unread") IN
       round' = IF asked = <<>> THEN Off
                ELSE [round EXCEPT !.at = "member", !.recipe = book.recipe, !.todo = asked]
  /\ NothingElse /\ UNCHANGED <<books, everyone, stale, removed, bounds>>

NextMember ==
  IF Tail(round.todo) = <<>> THEN Off
  ELSE [round EXCEPT !.at = "member", !.todo = Tail(@), !.scans[m0] = "unread", !.answer = "none"]

\* Mutated: done whatever came of it.
LooksDoneAnyway(settled) == stale' = stale \ {m0} /\ round' = NextMember

\* done, for a member that is owed nothing any more.
LooksDone(settled) ==
  /\ stale' = IF settled THEN stale \ {m0} ELSE stale
  /\ round' = NextMember

\* member: what it holds against what it was given.
Given(m) == book.given[m]
TakeBack(m) == Given(m) # "no" /\ ~(m \in have /\ round.recipe # "none")
Give(m) ==
  /\ m \in have /\ round.recipe \notin {"none", m}
  /\ round.scans[m] \in {"none", "home"} /\ Given(m) = "no"

MemberBegins ==
  /\ round.at = "member"
  /\ \/ /\ TakeBack(m0) /\ NoFailure /\ UNCHANGED stale
        /\ round' = [round EXCEPT !.at = IF Given(m0) = "written" THEN "unregister" ELSE "forget"]
     \/ /\ Give(m0) /\ NoFailure /\ UNCHANGED stale
        /\ round' = [round EXCEPT !.at = "register"]
     \/ ~TakeBack(m0) /\ ~Give(m0) /\ NoFailure /\ LooksDone(TRUE)
     \/ Failure /\ LooksDone(FALSE)               \* its folders cannot be read
  /\ NothingElse /\ UNCHANGED <<books, everyone, removed>>

\* The helper removes only an entry it wrote itself.
Unregister ==
  /\ round.at = "unregister"
  /\ \/ /\ m0 \in up \ open /\ Becomes(m0, IF entry[m0] = "ours" THEN "none" ELSE entry[m0])
        /\ \/ NoFailure /\ round' = [round EXCEPT !.at = "forget"] /\ UNCHANGED stale
           \/ Failure /\ LooksDone(FALSE)
     \/ /\ IF m0 \in up \ open THEN Failure ELSE NoFailure
        /\ LooksDone(FALSE) /\ UNCHANGED <<entry, touched>>
  /\ RoundOnly /\ UNCHANGED <<have, books, everyone, removed>>

Forget ==
  /\ round.at = "forget"
  /\ book' = [book EXCEPT !.given[m0] = "no"] /\ Save
  /\ LooksDone(TRUE)
  /\ NothingElse /\ UNCHANGED everyone
  /\ StillRemoved

\* An answer that is lost, or a helper that is cut off: Heroic's has the entry in
\* its list before it is among those that are ours.
CutOff == IF Launcher = "Heroic" THEN {"ours", "own"} ELSE {"ours"}

\* The folder may be gone by now, the launcher open, or an entry there that was
\* not there when it was scanned.
Register ==
  /\ round.at = "register"
  /\ \/ /\ m0 \in up \ have /\ NoFailure /\ LooksDone(TRUE) /\ UNCHANGED <<entry, touched>>
     \/ /\ m0 \in (up \cap have) \ open /\ entry[m0] # "none" /\ NoFailure
        /\ round' = [round EXCEPT !.at = "note", !.answer = "left"]
        /\ UNCHANGED <<stale, entry, touched>>
     \/ /\ m0 \in (up \cap have) \ open /\ entry[m0] = "none"
        /\ \/ /\ NoFailure /\ Becomes(m0, "ours") /\ UNCHANGED stale
              /\ round' = [round EXCEPT !.at = "note", !.answer = "written"]
           \/ Failure /\ LooksDone(FALSE) /\ \E e \in CutOff : Becomes(m0, e)
     \/ /\ IF m0 \in up \ open THEN Failure ELSE NoFailure
        /\ LooksDone(FALSE) /\ UNCHANGED <<entry, touched>>
  /\ RoundOnly /\ UNCHANGED <<have, books, everyone, removed>>

\* Mutated: what was written is kept in memory until something else is saved.
NoteWithoutSaving ==
  /\ round.at = "note"
  /\ book' = [book EXCEPT !.given[m0] = round.answer]
  /\ LooksDone(TRUE)
  /\ NothingElse /\ UNCHANGED <<disk, everyone, removed, bounds>>

Note ==
  /\ round.at = "note"
  /\ book' = [book EXCEPT !.given[m0] = round.answer] /\ Save
  /\ LooksDone(TRUE)
  /\ NothingElse /\ UNCHANGED <<everyone, removed>>

-----------------------------------------------------------------------------
(* Passes of the pool, the interface, the end of a seat and of the daemon *)

\* soon: a round unless one is going.
Soon == round' = IF round.at = "off" THEN [Off EXCEPT !.at = "begun"] ELSE round

\* A pass takes the folder in, or hands it to a member.
PassMoves ==
  /\ \/ ~pooled /\ have \cap seats # {} /\ pooled' = TRUE /\ UNCHANGED have
     \/ /\ pooled /\ UNCHANGED pooled
        /\ \E m \in seats \ have : have' = have \cup {m}
  /\ untold' = TRUE
  /\ UNCHANGED <<seats, up, open, entry, books, owing, doing, round, removed, bounds>>

\* sharesAfter, at the end of every pass.
PassReports ==
  /\ everyone' = (everyone \/ untold) /\ untold' = FALSE /\ Soon
  /\ <<everyone', untold', round'>> # <<everyone, untold, round>>
  /\ UNCHANGED <<world, books, stale, touched, doing, removed, bounds>>

\* SyncLibrary, the button: everybody is read again, and a pass.
PressSync ==
  /\ Spend("changes", MaxChanges)
  /\ everyone' = TRUE
  /\ UNCHANGED <<world, books, stale, touched, untold, doing, round, removed>>

\* UninstallEverywhere takes every copy, then the recipe.
Uninstall ==
  /\ pooled /\ Spend("changes", MaxChanges)
  /\ pooled' = FALSE /\ have' = {} /\ doing' = doing \cup {"uninstalled"}
  /\ UNCHANGED <<seats, up, open, entry, books, owing, untold, round>>
  /\ StillRemoved

ForgetRecipe ==
  /\ "uninstalled" \in doing /\ doing' = doing \ {"uninstalled"}
  /\ book' = [book EXCEPT !.recipe = "none"] /\ Save
  /\ everyone' = TRUE /\ Soon
  /\ UNCHANGED <<world, stale, touched, untold>>
  /\ StillRemoved

\* shareHost: the helper moves the folder and points the entry at it.
ShareHost ==
  /\ entry[Host] = "home" /\ Host \notin have /\ Becomes(Host, "own")
  /\ have' = have \cup {Host}
  /\ \/ Spend("changes", MaxChanges) /\ doing' = doing \cup {"shared"}
     \/ Failure /\ UNCHANGED doing                       \* the answer is lost
  /\ UNCHANGED <<seats, up, open, pooled, books, everyone, stale, untold, round, removed>>

MarkAll ==
  /\ "shared" \in doing /\ doing' = doing \ {"shared"} /\ everyone' = TRUE
  /\ UNCHANGED <<world, books, stale, touched, untold, round, removed, bounds>>

\* Delete: container and record, then the books.  The seat's library stays.
Delete(s) ==
  /\ s \in seats \ {Host} /\ Spend("deletes", MaxDeletes)
  /\ seats' = seats \ {s} /\ up' = up \ {s} /\ open' = open \ {s}
  /\ entry' = [entry EXCEPT ![s] = "none"]
  /\ removed' = [removed EXCEPT ![s] = "no"]
  /\ doing' = doing \cup {s}
  /\ UNCHANGED <<have, pooled, books, owing, untold, round>>

ForgetMember(s) ==
  /\ s \in doing /\ doing' = doing \ {s}
  /\ book' = [recipe |-> IF book.recipe = s THEN "nobody" ELSE book.recipe,
              given |-> [book.given EXCEPT ![s] = "no"]]
  /\ Save
  /\ stale' = stale \ {s} /\ everyone' = TRUE
  /\ UNCHANGED <<world, touched, untold, round, removed>>

\* A seat of the same name: its build takes minutes, by which the books know.
Create(s) ==
  /\ s \notin seats /\ s \notin doing /\ seats' = seats \cup {s}
  /\ UNCHANGED <<up, open, have, pooled, entry, books, owing, untold, doing, round, removed, bounds>>

TurnOn(m) ==
  /\ m \in seats \ up /\ up' = up \cup {m}
  /\ UNCHANGED <<seats, open, have, pooled, entry, books, owing, untold, doing, round, removed, bounds>>

TurnOff(m) ==
  /\ m \in up \ {Host} /\ Spend("changes", MaxChanges) /\ up' = up \ {m} /\ open' = open \ {m}
  /\ UNCHANGED <<seats, have, pooled, entry, books, owing, untold, doing, round, removed>>

\* The daemon ends and is started: openShares reads the book, and everybody is
\* owed a look.
Crash ==
  /\ Spend("crashes", MaxCrashes)
  /\ book' = disk /\ everyone' = TRUE /\ stale' = {} /\ touched' = TRUE
  /\ doing' = {} /\ round' = Off
  /\ UNCHANGED <<world, disk, untold>>
  /\ StillRemoved

-----------------------------------------------------------------------------
(* Players *)

PlayerInstalls(m) ==
  /\ m \in up /\ entry[m] = "none" /\ Spend("changes", MaxChanges)
  /\ \/ Becomes(m, "home") /\ UNCHANGED have
     \/ (\E e \in {"own", "odd"} : Becomes(m, e)) /\ have' = have \cup {m}
  /\ UNCHANGED <<seats, up, open, pooled, books, everyone, stale, untold, doing, round, removed>>

PlayerOpens(m) ==
  /\ OwnList /\ m \in up \ open /\ Spend("changes", MaxChanges) /\ open' = open \cup {m}
  /\ UNCHANGED <<seats, up, have, pooled, entry, books, owing, untold, doing, round, removed>>

PlayerCloses(m) ==
  /\ m \in open /\ open' = open \ {m}
  /\ UNCHANGED <<seats, up, have, pooled, entry, books, owing, untold, doing, round, removed, bounds>>

\* Counted as given: what the daemon has noted, no save of it having failed, and
\* is not about to take back itself.
PlayerRemovesEntry(m) ==
  /\ m \in up /\ entry[m] # "none" /\ Spend("changes", MaxChanges)
  /\ Becomes(m, "none")
  /\ removed' = [removed EXCEPT ![m] =
       IF /\ entry[m] = "ours" /\ book.given[m] = "written"
          /\ (disk.given[m] = "written" \/ bounds.faults = 0)
          /\ m \in have /\ book.recipe # "none"
          /\ ~(round.at \in {"unregister", "forget"} /\ m = m0)
       THEN "given" ELSE "own"]
  /\ UNCHANGED <<seats, up, open, have, pooled, books, everyone, stale, untold, doing, round>>

PlayerRemovesFolder(m) ==
  /\ m \in up \cap have /\ Spend("changes", MaxChanges)
  /\ have' = have \ {m} /\ untold' = (untold \/ pooled)
  /\ UNCHANGED <<seats, up, open, pooled, entry, books, owing, doing, round>>
  /\ StillRemoved

-----------------------------------------------------------------------------

Round ==
  \/ RoundBegins \/ Scan \/ Learn \/ TakesRecipes \/ MemberBegins \/ Unregister
  \/ Forget \/ Register \/ Note

ShareNext ==
  \/ Round \/ PassMoves \/ PassReports \/ PressSync
  \/ Uninstall \/ ForgetRecipe \/ ShareHost \/ MarkAll \/ Crash
  \/ \E m \in Members :
       \/ Delete(m) \/ ForgetMember(m) \/ Create(m) \/ TurnOn(m) \/ TurnOff(m)
       \/ PlayerInstalls(m) \/ PlayerOpens(m) \/ PlayerCloses(m)
       \/ PlayerRemovesEntry(m) \/ PlayerRemovesFolder(m)

\* Goroutines go on, every call has a limit (shareLimit), the timer makes a
\* pass again and again, and somebody turns on a seat that is
\* off and closes a launcher that is open.
ShareSpec ==
  /\ ShareInit /\ [][ShareNext]_shareVars
  /\ WF_shareVars(Round) /\ WF_shareVars(PassReports) /\ WF_shareVars(ForgetRecipe) /\ WF_shareVars(MarkAll)
  /\ \A m \in Members : WF_shareVars(ForgetMember(m)) /\ WF_shareVars(TurnOn(m)) /\ WF_shareVars(PlayerCloses(m))

-----------------------------------------------------------------------------

SharesTypeOK ==
  /\ seats \in SUBSET Members /\ up \in SUBSET seats /\ open \in SUBSET up /\ have \in SUBSET Members
  /\ entry \in [Members -> {"none", "home", "own", "odd", "ours"}]
  /\ \A b \in {book, disk} :
       /\ b.recipe \in Members \cup {"none", "nobody"}
       /\ b.given \in [Members -> {"no", "written", "left"}]
  /\ stale \in SUBSET Members
  /\ doing \in SUBSET (Members \cup {"uninstalled", "shared"})

\* What a member could have: the folder, a recipe of somebody else's, nothing
\* in the launcher and nothing there that was taken away by hand.
Lacks(m) ==
  /\ m \in seats \cap have /\ book.recipe \notin {"none", m}
  /\ entry[m] = "none" /\ book.given[m] = "no" /\ removed[m] = "no"

\* A member that is owed a look is not forgotten until it has the entry,
\* whatever is off, open, failing or restarted in between (share.go:186-231:
\* markAll, owed, done; 677-798).
EntryArrives == \A m \in Members : (Lacks(m) /\ (everyone \/ m \in stale)) ~> ~Lacks(m)

\* An entry the daemon knows it has written goes when the folder has gone or
\* the game has left the launcher it came from (share.go:306-334, 677-735).
Orphan(m) ==
  /\ m \in seats /\ entry[m] = "ours" /\ book.given[m] = "written"
  /\ (m \notin have \/ book.recipe = "none")
EntryGoes == \A m \in Members : Orphan(m) ~> ~Orphan(m)

\* An entry somebody removed by hand stays removed, over a restart too
\* (share.go:750-754), while the folder and its recipe are there.
RemovedStaysRemoved ==
  [][\A m \in Members : entry[m] = "none" /\ entry'[m] = "ours" => removed[m] # "given"]_shareVars

(* Not so, see the README: what the code does instead of what is said. *)

\* Whoever has the folder gets the entry ("Wherever the folder arrives",
\* lutrisshare.go:27).
EverybodyGetsIt == \A m \in Members : Lacks(m) ~> ~Lacks(m)

\* No entry the daemon wrote stays behind.
NothingIsLeftBehind ==
  \A m \in Members : LET Behind == m \in seats /\ entry[m] = "ours" /\ m \notin have
                     IN Behind ~> ~Behind

\* The recipes of a deleted seat have no author (share.go:247-251).
NoDeletedAuthor == book.recipe \in seats \cup {"none", "nobody"} \cup doing
=============================================================================
