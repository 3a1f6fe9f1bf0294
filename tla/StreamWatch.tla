----------------------------- MODULE StreamWatch -----------------------------
(***************************************************************************)
(* One running seat: who streams from it and what the daemon believes.     *)
(*                                                                         *)
(* A client comes and goes in Sunshine.  Sunshine writes a line to its     *)
(* journal each time, which the daemon follows (sunshinelog.go); besides,  *)
(* a sweep looks at the seat's ports (manager.go).  What is believed       *)
(* decides when the application a client left behind is closed and when    *)
(* the size of the screen is put back.  What the end of a stream does for  *)
(* Sunshine's list of games is in GameList.                                *)
(*                                                                         *)
(* The lane is that of SeatLanes: an operation cancels the sweep and waits *)
(* for it.                                                                 *)
(***************************************************************************)
EXTENDS Naturals, Sequences, FiniteSets

CONSTANTS
  Waiters,     \* goroutines that can wait for ports at once: one per departure
  MaxVisits,   \* bound: connections a client makes
  MaxFaults,   \* bound: lines, answers and calls that are lost
  MaxOps       \* bound: operations that take the seat

ASSUME StreamWaits == "sweep" \notin Waiters

VARIABLES
  client,      \* "here"; "gone", its ports still held; "left", "away" a grace later
  app,         \* Sunshine has an application, open or kept for a client to resume
  size,        \* the screen has the size of the "seat" or of the "client"
  said,        \* lines of Sunshine's journal the daemon has not read
  streaming, unclear, quiet, \* runtime: quiet is "none", "recent", "older" than the client's last
               \* leaving, or "long" (>= sessionGrace ago)
  letgo,       \* goroutines that wait for a client's ports to go: "none", "look", "sure", "close"
  back,        \* those for which the client has connected again
  sweep,       \* the sweep: "off", "judge", then sessionEnded's "ended", "close", "size"
  seen,        \* what the sweep's look at the ports said
  op,          \* the operation: "none", "waits", "updates"
  late,        \* history: whoever was about to end streams when the client connected
  outdated,    \* history: the sweep's "look", and then the first idle reading (quiet), is
               \* from before Sunshine said that somebody came
  excused,     \* history: what was lost for good, see the properties
  visits, faults, ops

clientVars == <<client, app, size>>
beliefs == <<streaming, unclear, quiet>>
letVars == <<letgo, back>>
sweepVars == <<sweep, seen>>
bounds == <<visits, faults, ops>>
watchVars == <<clientVars, said, beliefs, letVars, sweepVars, op, late, outdated, excused, bounds>>

Idle == client \in {"left", "away"}      \* no port of a stream is held

WatchInit ==
  /\ client = "away" /\ app = FALSE /\ size = "seat" /\ said = <<>>
  /\ streaming = FALSE /\ unclear = FALSE /\ quiet = "none"
  /\ letgo = [v \in Waiters |-> "none"] /\ back = {}
  /\ sweep = "off" /\ seen = "unknown"
  /\ op = "none" /\ late = {} /\ outdated = "none" /\ excused = {}
  /\ visits = 0 /\ faults = 0 /\ ops = 0

Fault == faults < MaxFaults /\ faults' = faults + 1
NoFault == UNCHANGED faults

-----------------------------------------------------------------------------
(* The client and Sunshine *)

\* The line reaches the follower, or falls into the time it is not attached:
\* it is started again with no lines from before.
Journal(line) ==
  \/ said' = Append(said, line) /\ NoFault /\ UNCHANGED excused
  \/ Fault /\ excused' = excused \cup {"line"} /\ UNCHANGED said

\* Whoever is past his look at the ports and before the call that ends streams.
AboutToEnd ==
  {v \in Waiters : letgo[v] \in {"sure", "close"}}
  \cup (IF sweep = "close" THEN {"sweep"} ELSE {})

\* A launch sizes the seat; a client that resumes finds it as it is.
Connect ==
  /\ client # "here" /\ visits < MaxVisits
  /\ client' = "here" /\ app' = TRUE
  /\ size' = IF app THEN size ELSE "client"
  /\ visits' = visits + 1
  /\ late' = late \cup AboutToEnd
  /\ Journal("connected")
  /\ UNCHANGED <<beliefs, letVars, sweepVars, op, ops, outdated>>

\* The client leaves: quitting, which closes the application, or not.
Leave ==
  /\ client = "here" /\ client' = "gone"
  /\ app' \in {app, FALSE}
  /\ Journal("disconnected")
  /\ UNCHANGED <<size, beliefs, letVars, sweepVars, op, late, visits, ops, outdated>>

PortsClose ==
  /\ client = "gone" /\ client' = "left"
  /\ quiet' = IF quiet = "recent" THEN "older" ELSE quiet
  /\ UNCHANGED <<app, size, said, streaming, unclear, letVars, sweepVars, op, late, outdated,
                 excused, bounds>>

\* sessionGrace goes by, for the client that left and, by the clock, since the daemon
\* first read so, whoever is there by then.  What it read after the client left is
\* a grace old only when the client has been away for one.
GracePasses ==
  /\ \/ client = "left" /\ client' = "away" /\ UNCHANGED quiet
     \/ /\ quiet = "older" \/ (quiet = "recent" /\ client # "left")
        /\ quiet' = "long" /\ UNCHANGED client
  /\ UNCHANGED <<app, size, said, streaming, unclear, letVars, sweepVars,
                 op, late, outdated, excused, bounds>>

-----------------------------------------------------------------------------
(* What Sunshine's journal says, sunshinelog.go *)

\* A goroutine starts to wait for the ports, for the ten seconds of letGoWithin.
Departure ==
  LET v == CHOOSE w \in Waiters : letgo[w] = "none" IN
    letgo' = [letgo EXCEPT ![v] = "look"] /\ back' = back \ {v}
SaidElsewhere ==
  UNCHANGED <<clientVars, unclear, sweepVars, op, late, excused, bounds>>

\* What the sweep has seen and not judged yet is older than this.
Outdates == outdated' = IF sweep = "judge" THEN "look" ELSE "none"

\* Mutated: a connection does not clear the time of the first idle reading.
SunshineSaidKeepsQuiet ==
  /\ said # <<>> /\ said' = Tail(said)
  /\ \/ /\ Head(said) = "connected" /\ streaming' = TRUE
        /\ back' = back \cup {v \in Waiters : letgo[v] # "none"}
        /\ UNCHANGED <<letgo, quiet>>
     \/ Head(said) = "disconnected" /\ Departure /\ UNCHANGED <<streaming, quiet>>
  /\ SaidElsewhere /\ UNCHANGED outdated

\* Mutated: whether somebody streams is left to the sweep's next reading.
SunshineSaidCountsOnly ==
  /\ said # <<>> /\ said' = Tail(said)
  /\ \/ /\ Head(said) = "connected"
        /\ back' = back \cup {v \in Waiters : letgo[v] # "none"} /\ UNCHANGED letgo
     \/ Head(said) = "disconnected" /\ Departure
  /\ UNCHANGED <<streaming, quiet, outdated>> /\ SaidElsewhere

\* sunshineSaid: a connection is believed at once, a departure is waited out.
SunshineSaid ==
  /\ said # <<>> /\ said' = Tail(said)
  /\ \/ /\ Head(said) = "connected"
        /\ streaming' = TRUE /\ quiet' = "none" /\ Outdates
        /\ back' = back \cup {v \in Waiters : letgo[v] # "none"}
        /\ UNCHANGED letgo
     \/ Head(said) = "disconnected" /\ Departure /\ UNCHANGED <<streaming, quiet, outdated>>
  /\ SaidElsewhere

LetGoEnds(v) == letgo' = [letgo EXCEPT ![v] = "none"] /\ back' = back \ {v}

\* One turn of letGo: who is back needs nothing; idle ports may mean the end;
\* ports still held, or no answer, mean another turn or the end of the wait.
LetGoLooks(v) ==
  /\ letgo[v] = "look"
  /\ \/ v \in back /\ LetGoEnds(v) /\ NoFault
     \/ v \notin back /\ Idle /\ letgo' = [letgo EXCEPT ![v] = "sure"]
          /\ UNCHANGED back /\ NoFault
     \/ v \notin back /\ ~Idle /\ LetGoEnds(v) /\ NoFault
     \/ v \notin back /\ Fault /\ LetGoEnds(v)
  /\ late' = late \ {v}
  /\ UNCHANGED <<clientVars, said, beliefs, sweepVars, op, excused, visits, ops, outdated>>

\* Who came back between the look and its answer is left alone.
LetGoAsksAgain(v) ==
  /\ letgo[v] = "sure"
  /\ IF v \in back THEN LetGoEnds(v)
     ELSE letgo' = [letgo EXCEPT ![v] = "close"] /\ UNCHANGED back
  /\ UNCHANGED <<clientVars, said, beliefs, sweepVars, op, late, outdated, excused, bounds>>

\* POST /api/apps/close: what runs is ended, the client's stream with it.
AppCloses == app' = FALSE /\ client' = IF client = "here" THEN "gone" ELSE client

LetGoCloses(v) ==
  /\ letgo[v] = "close" /\ LetGoEnds(v)
  /\ \/ AppCloses /\ NoFault
     \/ Fault /\ UNCHANGED <<app, client>>
  /\ UNCHANGED <<size, said, beliefs, sweepVars, op, late, excused, visits, ops, outdated>>

-----------------------------------------------------------------------------
(* The sweep, manager.go refreshSession *)

\* An operation that waits for the lanes has cancelled them: what a lane asks
\* of the seat from then on goes unanswered.
Cancelled == op = "waits"

\* What a look at the ports says, streamCheck: it is unknown to who is
\* cancelled, and to who gets no answer in time.
Looks(answer) ==
  \/ ~Cancelled /\ answer = (IF Idle THEN "idle" ELSE "busy") /\ NoFault
  \/ Cancelled /\ answer = "unknown" /\ NoFault
  \/ ~Cancelled /\ answer = "unknown" /\ Fault

SweepReads ==
  /\ sweep = "off" /\ op = "none"
  /\ \E a \in {"idle", "busy", "unknown"} : Looks(a) /\ seen' = a
  /\ sweep' = "judge"
  /\ UNCHANGED <<clientVars, said, beliefs, letVars, op, late, excused, visits, ops, outdated>>

\* observeStream: an answer that was not given changes nothing known; the
\* first idle reading starts the grace, one after it ends the stream.
Ended == seen = "idle" /\ streaming /\ quiet = "long"
Observe ==
  /\ unclear' = (seen = "unknown")
  /\ streaming' = ((streaming \/ seen = "busy") /\ ~Ended)
  /\ quiet' = CASE seen = "unknown" -> quiet
                [] seen = "busy" \/ Ended \/ ~streaming -> "none"
                [] OTHER -> IF quiet = "none" THEN "recent" ELSE quiet

\* The rest of refreshSession.  A sweep that was cancelled while it read
\* decides nothing.
SweepCancelled ==
  /\ sweep = "judge" /\ Cancelled /\ sweep' = "off" /\ seen' = "unknown"
  /\ outdated' = IF outdated = "look" THEN "none" ELSE outdated
  /\ UNCHANGED <<clientVars, said, beliefs, letVars, op, late, excused, bounds>>

SweepJudges ==
  /\ sweep = "judge" /\ ~Cancelled
  /\ Observe
  /\ sweep' = IF Ended THEN "ended" ELSE "off"
  /\ seen' = "unknown"
  /\ outdated' = CASE quiet' = "none" -> "none"
                   [] outdated = "look" -> "quiet"
                   [] OTHER -> outdated
  /\ UNCHANGED <<clientVars, said, letVars, op, late, excused, bounds>>

\* Mutated: the sweep's reading is enough to close the application.
SessionEndedAtOnce ==
  /\ sweep = "ended" /\ sweep' = "close"
  /\ UNCHANGED <<clientVars, said, beliefs, letVars, seen, op, late, outdated, excused, bounds>>

\* sessionEnded asks again, and leaves everything as it is unless the answer
\* is that nobody streams.
SessionEnded ==
  /\ sweep = "ended"
  /\ \E a \in {"idle", "busy", "unknown"} :
       /\ Looks(a)
       /\ sweep' = IF a = "idle" THEN "close" ELSE "off"
       /\ excused' = IF a = "unknown" THEN excused \cup {"end"} ELSE excused
  /\ late' = late \ {"sweep"}
  /\ UNCHANGED <<clientVars, said, beliefs, letVars, seen, op, visits, ops, outdated>>

\* A call into the seat or to Sunshine that is cancelled or fails is a line in
\* the log, and the next step follows all the same.
Call(done, undone) ==
  \/ ~Cancelled /\ done /\ NoFault /\ UNCHANGED excused
  \/ Cancelled /\ undone /\ NoFault /\ excused' = excused \cup {"end"}
  \/ ~Cancelled /\ undone /\ Fault /\ excused' = excused \cup {"end"}

SessionEndedCloses ==
  /\ sweep = "close" /\ sweep' = "size"
  /\ Call(AppCloses, UNCHANGED <<app, client>>)
  /\ UNCHANGED <<size, said, beliefs, letVars, seen, op, late, visits, ops, outdated>>

SessionEndedPutsBack ==
  /\ sweep = "size" /\ sweep' = "off"
  /\ Call(size' = "seat", UNCHANGED size)
  /\ UNCHANGED <<client, app, said, beliefs, letVars, seen, op, late, visits, ops, outdated>>

-----------------------------------------------------------------------------
(* An operation: UpdateSoftware *)

\* It takes the seat, cancels the sweep and waits for it.
OpClaims ==
  /\ op = "none" /\ ops < MaxOps
  /\ op' = "waits" /\ ops' = ops + 1
  /\ UNCHANGED <<clientVars, said, beliefs, letVars, sweepVars, late, excused,
                 visits, faults, outdated>>

\* Refused while somebody streams, which is looked at once, here.
OpBegins ==
  /\ op = "waits" /\ sweep = "off"
  /\ op' = IF streaming \/ unclear THEN "none" ELSE "updates"
  /\ UNCHANGED <<clientVars, said, beliefs, letVars, sweepVars, late, outdated, excused, bounds>>

\* Minutes later the session is started again, Sunshine with it.
OpRestartsSession ==
  /\ op = "updates" /\ op' = "none"
  /\ client' = IF client = "here" THEN "gone" ELSE client
  /\ app' = FALSE /\ size' = "seat"
  /\ UNCHANGED <<said, beliefs, letVars, sweepVars, late, outdated, excused, bounds>>

-----------------------------------------------------------------------------
LetGo == \E v \in Waiters : LetGoLooks(v) \/ LetGoAsksAgain(v) \/ LetGoCloses(v)
Sweep ==
  \/ SweepReads \/ SweepCancelled \/ SweepJudges \/ SessionEnded
  \/ SessionEndedCloses \/ SessionEndedPutsBack
Operation == OpBegins \/ OpRestartsSession

WatchNext ==
  \/ Connect \/ Leave \/ PortsClose \/ GracePasses
  \/ SunshineSaid \/ LetGo \/ Sweep \/ OpClaims \/ Operation

\* The goroutines run, lines are read, time passes and a client that is gone
\* gives its ports back.  Nothing makes anybody connect or leave.
WatchFairness ==
  /\ WF_watchVars(PortsClose) /\ WF_watchVars(GracePasses) /\ WF_watchVars(SunshineSaid)
  /\ WF_watchVars(LetGo) /\ WF_watchVars(Sweep) /\ WF_watchVars(Operation)

WatchSpec == WatchInit /\ [][WatchNext]_watchVars /\ WatchFairness

-----------------------------------------------------------------------------
(* Properties *)

StreamTypeOK ==
  /\ client \in {"here", "gone", "left", "away"} /\ app \in BOOLEAN
  /\ size \in {"seat", "client"}
  /\ said \in Seq({"connected", "disconnected"})
  /\ streaming \in BOOLEAN /\ unclear \in BOOLEAN
  /\ quiet \in {"none", "recent", "older", "long"} /\ outdated \in {"none", "look", "quiet"}
  /\ letgo \in [Waiters -> {"none", "look", "sure", "close"}] /\ back \subseteq Waiters
  /\ sweep \in {"off", "judge", "ended", "close", "size"}
  /\ seen \in {"idle", "busy", "unknown"}
  /\ op \in {"none", "waits", "updates"}
  /\ late \subseteq Waiters \cup {"sweep"}
  /\ excused \subseteq {"line", "end"}

\* A client that drops and comes back, however often, has been away for a
\* whole grace before its stream counts as over (sessionGrace), unless Sunshine's word of
\* its coming has not been read yet or was never heard, or the first idle reading was of
\* before that word and judged after it.
EndsAfterTheGrace ==
  [][streaming /\ ~streaming' =>
       client = "away" \/ said # <<>> \/ "line" \in excused \/ outdated = "quiet"]_watchVars

\* The grace of sessionGrace, which is to cover a client that drops and is back, without
\* the last of those exceptions: "a missing connection has to stay missing"
\* (manager.go:1632).  An idle look judged after Sunshine's word counts from then, by the
\* clock, although the client is there: the first gap it leaves after 45 seconds in which
\* no look was answered is its end.
MissingHasToStayMissing ==
  [][streaming /\ ~streaming' => client = "away" \/ said # <<>> \/ "line" \in excused]_watchVars

\* The daemon ends somebody's stream, closing the application, only when he connected after its own last look at the ports: nothing
\* older is acted on, neither an answer of the sweep nor a line of the journal.
\* (An update of the software is the exception: what streams is looked at once.)
NobodyIsCutOffOnOldNews ==
  [][/\ client = "here" /\ ~app' =>
          \/ UNCHANGED <<sweep, letgo, op>>                  \* he quits himself
          \/ sweep = "close" /\ "sweep" \in late
          \/ \E v \in Waiters : letgo[v] = "close" /\ v \in late
          \/ op = "updates"]_watchVars

\* When clients stop coming, no application stays open at the size of one who
\* left, and the screen is the seat's again: unless a line was not heard, or
\* what sessionEnded does was cut short, by a call that failed or an operation
\* that took the seat just then.
SizeIsPutBack ==
  []<>(client = "here") \/ <>[](~app /\ size = "seat") \/ <>(excused \cap {"line", "end"} # {})

\* sessionEnded says of its early return that "the next sweep sees them and
\* this runs again when they leave" (manager.go:1507).  After an answer that
\* was not given there is nobody to leave: nothing runs again.
EndIsRepeated ==
  []<>(client = "here") \/ <>[](~app /\ size = "seat") \/ <>(excused \cap {"line"} # {}) \/ <>(ops > 0)
=============================================================================
