-------------------------- MODULE ProvisionProofs --------------------------
(***************************************************************************)
(* A seat that counts as built with this version has everything in it: for *)
(* any number of failures, cancelled runs, power-offs, new versions and    *)
(* changes of settings, and whatever a new version pins anew.              *)
(*                                                                         *)
(* A run keeps nothing of what it has done but the place it has got to.    *)
(* So the invariant says what a build at each place can rely on: what the  *)
(* steps before it leave stays in the seat, since only a new version takes *)
(* something away and there is none during a run.                          *)
(*                                                                         *)
(* The same argument with luck added (Luck) says that a run without        *)
(* trouble comes to its end; another (Owing) that a Steam which a run has  *)
(* seen go is started again by it.                                         *)
(***************************************************************************)
EXTENDS Provision, TLAPS

Kinds == {"none", "build", "software", "tools", "setting", "library"}
Phases == {"nodes", "begin", "over", "session", "attach", "install", "ask", "quiet",
           "shutdown", "busy", "closing", "fetch", "swap", "move", "kill", "start",
           "check", "files", "settings", "register", "copy", "copying", "copied", "mount"}
Runs == [kind : Kinds, at : Nat, phase : Phases, tries : Nat,
         noGE : BOOLEAN, share : BOOLEAN, closed : BOOLEAN,
         spoiled : BOOLEAN, cancelled : BOOLEAN, ok : BOOLEAN]

Typed ==
  /\ run \in Runs /\ noGE \in BOOLEAN /\ share \in BOOLEAN /\ built \in BOOLEAN

Building == run.kind = "build" /\ Working
Card == 15

\* What the steps a build has behind it have left.
SoFar ==
  Building =>
    /\ run.at \in 1..Len(Steps)
    /\ \A i \in 1..(run.at - 1) : Steps[i] \in Items => Steps[i] \in have
    /\ run.at > 1 => box # "none"
    /\ run.at > Card => conf = version
    /\ run.at = Card /\ run.phase \in {"kill", "start", "check"} => conf = version

\* A build that is through has what it records.
Through ==
  run.kind = "build" /\ run.phase = "over" /\ run.ok =>
    box # "none" /\ conf = version /\ Items \subseteq have

IInv == Typed /\ SoFar /\ Through /\ CurrentIsWhole

-----------------------------------------------------------------------------
(* The recipe.                                                             *)

LEMMA Named ==
  /\ Len(Steps) = 19
  /\ Steps[1] = "container" /\ Steps[2] = "locale" /\ Steps[3] = "network"
  /\ Steps[4] = "packages" /\ Steps[5] = "sunshine" /\ Steps[6] = "mangohud shim"
  /\ Steps[7] = "stevia" /\ Steps[8] = "faugus" /\ Steps[9] = "heroic"
  /\ Steps[10] = "steam" /\ Steps[11] = "user" /\ Steps[12] = "proton"
  /\ Steps[13] = "ge-proton" /\ Steps[14] = "flatpak" /\ Steps[15] = "gpu"
  /\ Steps[16] = "graphics userspace" /\ Steps[17] = "library"
  /\ Steps[18] = "session" /\ Steps[19] = "sunshine credentials"
  BY DEF Steps

LEMMA Nineteen ==
  \A i \in 1..19 : \/ i = 1 \/ i = 2 \/ i = 3 \/ i = 4 \/ i = 5 \/ i = 6 \/ i = 7
                  \/ i = 8 \/ i = 9 \/ i = 10 \/ i = 11 \/ i = 12 \/ i = 13
                  \/ i = 14 \/ i = 15 \/ i = 16 \/ i = 17 \/ i = 18 \/ i = 19
  OBVIOUS

LEMMA TheSteps ==
  /\ Len(Steps) = 19
  /\ \A i \in 1..19 : Steps[i] = "container" => i = 1
  /\ \A i \in 1..19 : (Steps[i] = "gpu") <=> (i = Card)
<1>1. ASSUME NEW i \in 1..19, Steps[i] = "container" PROVE i = 1
  BY <1>1, Named, Nineteen
<1>2. ASSUME NEW i \in 1..19 PROVE (Steps[i] = "gpu") <=> (i = Card)
  BY <1>2, Named, Nineteen DEF Card
<1> QED BY <1>1, <1>2, Named

\* Everything a seat needs is left by one of them.
LEMMA EveryItemHasAStep == \A x \in Items : \E i \in 1..19 : Steps[i] = x
<1> SUFFICES ASSUME NEW x \in Items, \A i \in 1..19 : Steps[i] # x PROVE FALSE
  OBVIOUS
<1>1. /\ Steps[2] # x /\ Steps[3] # x /\ Steps[4] # x /\ Steps[5] # x /\ Steps[6] # x
      /\ Steps[7] # x /\ Steps[8] # x /\ Steps[9] # x /\ Steps[10] # x /\ Steps[11] # x
      /\ Steps[16] # x /\ Steps[18] # x /\ Steps[19] # x
  OBVIOUS
<1> QED BY <1>1, Named DEF Items

LEMMA ABuildIsTheSteps == Recipe["build"] = Steps
  BY DEF Recipe

-----------------------------------------------------------------------------
(* What a change of one field leaves of a run.                             *)

LEMMA PhaseIsARun ==
  ASSUME NEW r \in Runs, NEW p \in Phases
  PROVE  /\ [r EXCEPT !.phase = p] \in Runs
         /\ [r EXCEPT !.phase = p].phase = p /\ [r EXCEPT !.phase = p].kind = r.kind
         /\ [r EXCEPT !.phase = p].at = r.at
  BY DEF Runs

LEMMA OkIsARun ==
  ASSUME NEW r \in Runs, NEW o \in BOOLEAN
  PROVE  /\ [r EXCEPT !.ok = o] \in Runs /\ [r EXCEPT !.ok = o].ok = o
         /\ [r EXCEPT !.ok = o].phase = r.phase /\ [r EXCEPT !.ok = o].kind = r.kind
  BY DEF Runs

LEMMA KindIsARun ==
  ASSUME NEW r \in Runs, NEW k \in Kinds
  PROVE  [r EXCEPT !.kind = k] \in Runs /\ [r EXCEPT !.kind = k].at = r.at
  BY DEF Runs

LEMMA NoGEIsARun ==
  ASSUME NEW r \in Runs, NEW b \in BOOLEAN
  PROVE  [r EXCEPT !.noGE = b] \in Runs /\ [r EXCEPT !.noGE = b].at = r.at
  BY DEF Runs

LEMMA ShareIsARun ==
  ASSUME NEW r \in Runs, NEW b \in BOOLEAN
  PROVE  [r EXCEPT !.share = b] \in Runs /\ [r EXCEPT !.share = b].at = r.at
  BY DEF Runs

LEMMA ClosedIsARun ==
  ASSUME NEW r \in Runs, NEW b \in BOOLEAN
  PROVE  /\ [r EXCEPT !.closed = b] \in Runs
         /\ [r EXCEPT !.closed = b].at = r.at /\ [r EXCEPT !.closed = b].kind = r.kind
  BY DEF Runs

LEMMA AtIsARun ==
  ASSUME NEW r \in Runs, NEW n \in Nat
  PROVE  /\ [r EXCEPT !.at = n] \in Runs /\ [r EXCEPT !.at = n].at = n
         /\ [r EXCEPT !.at = n].kind = r.kind
  BY DEF Runs

LEMMA TriesIsARun ==
  ASSUME NEW r \in Runs, NEW n \in Nat
  PROVE  /\ [r EXCEPT !.tries = n] \in Runs
         /\ [r EXCEPT !.tries = n].at = r.at /\ [r EXCEPT !.tries = n].phase = r.phase
         /\ [r EXCEPT !.tries = n].kind = r.kind /\ [r EXCEPT !.tries = n].ok = r.ok
  BY DEF Runs

LEMMA SpoiledIsARun ==
  ASSUME NEW r \in Runs, NEW s \in BOOLEAN
  PROVE  /\ [r EXCEPT !.spoiled = s] \in Runs
         /\ [r EXCEPT !.spoiled = s].phase = r.phase /\ [r EXCEPT !.spoiled = s].ok = r.ok
  BY DEF Runs

LEMMA OverIsARun ==
  ASSUME run \in Runs, NEW o \in BOOLEAN
  PROVE  /\ Over(o) \in Runs /\ Over(o).phase = "over" /\ Over(o).ok = o
         /\ Over(o).kind = run.kind
<1> DEFINE q == [run EXCEPT !.phase = "over"]
           r == [q EXCEPT !.ok = o]
<1>1. q \in Runs /\ q.phase = "over" /\ q.kind = run.kind
  <2>1. "over" \in Phases
    BY DEF Phases
  <2> QED BY <2>1, PhaseIsARun
<1>2. r \in Runs /\ r.phase = "over" /\ r.kind = run.kind /\ r.ok = o
  <2> HIDE DEF q
  <2> QED BY <1>1, OkIsARun
<1>3. Over(o) = r
  BY DEF Over
<1> QED BY <1>2, <1>3

-----------------------------------------------------------------------------
(* What one step of a run keeps, and the four ways it goes on from there.  *)

Keeps ==
  /\ have \subseteq have' /\ version' = version
  /\ built' = built /\ noGE' \in BOOLEAN /\ share' \in BOOLEAN
  /\ conf = version => conf' = version
  /\ box # "none" => box' # "none"

LEMMA CurrentStays == IInv /\ Keeps => CurrentIsWhole'
  BY DEF IInv, Keeps, CurrentIsWhole

\* Nothing of it that matters here changes.
LEMMA RunStays ==
  ASSUME IInv, Keeps, run' \in Runs, run'.kind = run.kind, run'.at = run.at,
         run'.phase = run.phase, run'.ok = run.ok
  PROVE  IInv'
<1>1. Typed'
  BY DEF IInv, Typed, Keeps
<1>2. SoFar' /\ Through'
  BY DEF IInv, Keeps, SoFar, Through, Building, Working, On
<1> QED BY <1>1, <1>2, CurrentStays DEF IInv

\* It stays at its step.
LEMMA StepGoesOn ==
  ASSUME IInv, Keeps, Working, run' \in Runs, run'.kind = run.kind, run'.at = run.at,
         run'.phase # "over",
         Building /\ Step = "gpu" /\ run'.phase \in {"kill", "start", "check"} => conf' = version
  PROVE  IInv'
<1>1. Typed'
  BY DEF IInv, Typed, Keeps
<1>2. Through'
  BY DEF Through
<1>3. SoFar'
  <2> SUFFICES ASSUME Building' PROVE SoFar!2'
    BY DEF SoFar
  <2>1. Building
    BY DEF Building, Working, On
  <2>2. run.at = Card => Step = "gpu"
    <3>1. run.at \in 1..19 /\ Step = Steps[run.at]
      BY <2>1, TheSteps, ABuildIsTheSteps DEF IInv, SoFar, Building, Step
    <3> QED BY <3>1, TheSteps
  <2> QED BY <2>1, <2>2 DEF IInv, SoFar, Keeps
<1> QED BY <1>1, <1>2, <1>3, CurrentStays DEF IInv

\* It fails.
LEMMA RunFails ==
  ASSUME IInv, Keeps, run' \in Runs, run'.phase = "over", ~run'.ok
  PROVE  IInv'
<1>1. Typed'
  BY DEF IInv, Typed, Keeps
<1>2. SoFar' /\ Through'
  BY DEF SoFar, Through, Building, Working
<1> QED BY <1>1, <1>2, CurrentStays DEF IInv

\* It takes the next step, or is through.
LEMMA NextStep ==
  ASSUME IInv, Keeps, Working, Go,
         Step \in Items => Step \in have',
         Step = "container" => box' # "none",
         Step = "gpu" /\ Building => conf' = version
  PROVE  IInv'
<1> DEFINE last == run.at = Len(Recipe[run.kind])
           on == [run EXCEPT !.at = @ + 1, !.phase = "begin", !.tries = 0]
<1>1. run \in Runs
  BY DEF IInv, Typed
<1>2. on \in Runs /\ on.at = run.at + 1 /\ on.phase = "begin" /\ on.kind = run.kind
  <2> DEFINE a == [run EXCEPT !.at = run.at + 1]
             b == [a EXCEPT !.phase = "begin"]
  <2>1. run.at \in Nat /\ run.at + 1 \in Nat
    BY <1>1 DEF Runs
  <2>2. a \in Runs /\ a.at = run.at + 1 /\ a.kind = run.kind
    BY <1>1, <2>1, AtIsARun
  <2>3. b \in Runs /\ b.phase = "begin" /\ b.at = run.at + 1 /\ b.kind = run.kind
    <3>1. "begin" \in Phases
      BY DEF Phases
    <3> HIDE DEF a
    <3> QED BY <2>2, <3>1, PhaseIsARun
  <2>4. on = [b EXCEPT !.tries = 0]
    OBVIOUS
  <2> HIDE DEF a, b, on
  <2> QED BY <2>3, <2>4, TriesIsARun
<1>3. run' = IF last THEN Over(TRUE) ELSE on
  BY DEF Go
<1> HIDE DEF on, last
<1>4. run' \in Runs
  BY <1>1, <1>2, <1>3, OverIsARun
<1>5. Typed'
  BY <1>4 DEF IInv, Typed, Keeps
<1>6. CASE run.kind # "build"
  <2>1. run'.kind # "build"
    BY <1>1, <1>2, <1>3, <1>6, OverIsARun
  <2> QED BY <2>1, <1>5, CurrentStays DEF IInv, SoFar, Through, Building
<1>7. CASE run.kind = "build"
  <2>1. Building /\ run.at \in 1..19 /\ Step = Steps[run.at]
    BY <1>7, TheSteps, ABuildIsTheSteps DEF IInv, SoFar, Building, Step
  <2>2. \A i \in 1..run.at : Steps[i] \in Items => Steps[i] \in have'
    BY <2>1 DEF IInv, SoFar, Keeps
  <2>3. box' # "none"
    <3>1. CASE run.at = 1
      BY <2>1, <3>1, Named
    <3>2. CASE run.at > 1
      BY <2>1, <3>2 DEF IInv, SoFar, Keeps
    <3> QED BY <2>1, <3>1, <3>2
  <2>4. run.at >= Card => conf' = version'
    BY <2>1, TheSteps DEF IInv, SoFar, Keeps, Card
  <2>5. CASE last
    <3>1. run.at = 19
      BY <1>7, <2>5, TheSteps, ABuildIsTheSteps DEF last
    <3>2. run'.phase = "over" /\ run'.kind = "build"
      BY <1>1, <1>3, <1>7, <2>5, OverIsARun
    <3>3. Items \subseteq have'
      BY <2>2, <3>1, EveryItemHasAStep
    <3>4. SoFar' /\ Through'
      BY <3>1, <3>2, <3>3, <2>3, <2>4 DEF SoFar, Through, Building, Working, Card
    <3> QED BY <1>5, <3>4, CurrentStays DEF IInv
  <2>6. CASE ~last
    <3>1. run' = on
      BY <1>3, <2>6
    <3>2. run.at # 19
      BY <1>7, <2>6, TheSteps, ABuildIsTheSteps DEF last
    <3>3. run'.at = run.at + 1 /\ run'.phase = "begin" /\ run'.kind = "build"
      BY <3>1, <1>2, <1>7
    <3>4. run'.at \in 1..Len(Steps)
      BY <3>2, <3>3, <2>1, TheSteps
    <3>5. \A i \in 1..(run'.at - 1) : Steps[i] \in Items => Steps[i] \in have'
      BY <3>3, <2>1, <2>2
    <3>6. run'.at > Card => conf' = version'
      BY <3>3, <2>1, <2>4 DEF Card
    <3>7. SoFar' /\ Through'
      BY <3>3, <3>4, <3>5, <3>6, <2>3 DEF SoFar, Through, Building
    <3> QED BY <1>5, <3>7, CurrentStays DEF IInv
  <2> QED BY <2>5, <2>6
<1> QED BY <1>6, <1>7

-----------------------------------------------------------------------------
(* The forms most actions have.                                            *)

LEMMA WorldKeeps == IInv /\ UNCHANGED world => Keeps
  BY DEF IInv, Typed, Keeps, world, machine, inside, games, setting, daemon

LEMMA RunTyped == IInv => run \in Runs
  BY DEF IInv, Typed

\* A phase follows another.
LEMMA PhaseFollows ==
  ASSUME IInv, Keeps, Working, NEW p \in Phases, Phase(p), p # "over",
         Building /\ Step = "gpu" /\ p \in {"kill", "start", "check"} => conf' = version
  PROVE  IInv'
<1>1. /\ run' \in Runs /\ run'.phase = p /\ run'.kind = run.kind /\ run'.at = run.at
  BY RunTyped, PhaseIsARun DEF Phase
<1> QED BY <1>1, StepGoesOn

\* One follows that is not the card's.
Plain == Phases \ {"over", "kill", "start", "check"}

LEMMA PlainPhases ==
  {"begin", "attach", "install", "ask", "quiet", "shutdown", "busy", "closing", "fetch", "swap",
   "move", "files", "settings", "register", "copy", "copying", "copied", "mount"} \subseteq Plain
  BY DEF Plain, Phases

LEMMA OrdinaryPhase ==
  ASSUME IInv, Keeps, Working, NEW p \in Plain, Phase(p)
  PROVE  IInv'
  BY PhaseFollows DEF Plain

LEMMA OnlyThePhase ==
  ASSUME IInv, Working, UNCHANGED world, NEW p \in Plain, Phase(p)
  PROVE  IInv'
  BY WorldKeeps, OrdinaryPhase

LEMMA RunIsOver ==
  ASSUME IInv, Keeps, run' = Over(FALSE)
  PROVE  IInv'
  BY RunTyped, OverIsARun, RunFails

LEMMA SpoiledRunIsOver ==
  ASSUME IInv, Keeps, run' = [Over(FALSE) EXCEPT !.spoiled = TRUE]
  PROVE  IInv'
<1> DEFINE r == Over(FALSE)
<1>1. r \in Runs /\ r.phase = "over" /\ r.ok = FALSE
  BY RunTyped, OverIsARun
<1>2. run' = [r EXCEPT !.spoiled = TRUE]
  OBVIOUS
<1> HIDE DEF r
<1>3. run' \in Runs /\ run'.phase = "over" /\ run'.ok = FALSE
  BY <1>1, <1>2, SpoiledIsARun
<1> QED BY <1>3, RunFails

LEMMA LeavesItem ==
  ASSUME IInv, Working, NEW x, Step = x, x # "gpu", Leaves(x)
  PROVE  IInv'
<1>1. Keeps
  BY DEF IInv, Typed, Keeps, Leaves, machine, games, setting, daemon
<1>2. x \in have' /\ box' # "none" /\ Go
  BY DEF Leaves, machine
<1> QED BY <1>1, <1>2, NextStep

LEMMA PassesOn ==
  ASSUME IInv, Working, Step # "gpu", Step \notin Items \/ Step \in have, Passes
  PROVE  IInv'
<1>1. Keeps /\ have' = have
  BY WorldKeeps DEF Passes, world, inside
<1>2. box' # "none" /\ Go
  BY DEF Passes, world, machine
<1> QED BY <1>1, <1>2, NextStep

-----------------------------------------------------------------------------
(* The actions.                                                            *)

LEMMA InitInv == Init => IInv
<1> SUFFICES ASSUME Init PROVE IInv
  OBVIOUS
<1>1. Rest \in Runs
  BY DEF Rest, Runs, Kinds, Phases
<1>2. run = Rest /\ Rest.kind = "none" /\ built = FALSE /\ noGE = FALSE /\ share = FALSE
  BY DEF Init, Rest
<1> QED BY <1>1, <1>2 DEF IInv, Typed, SoFar, Through, CurrentIsWhole, Building

LEMMA RestInv ==
  ASSUME IInv, have \subseteq have', version' = version, UNCHANGED <<box, conf>>,
         noGE' \in BOOLEAN, share' \in BOOLEAN, built' \in BOOLEAN, CurrentIsWhole', run' = Rest
  PROVE  IInv'
<1>1. Rest \in Runs /\ Rest.kind = "none"
  BY DEF Rest, Runs, Kinds, Phases
<1> QED BY <1>1 DEF IInv, Typed, SoFar, Through, Building

LEMMA StartInv ==
  ASSUME IInv, NEW kind \in Kinds \ {"none"}, Start(kind)
  PROVE  IInv'
<1> DEFINE p == IF kind = "build" THEN "nodes" ELSE "begin"
           r == [Rest EXCEPT !.kind = kind, !.noGE = noGE, !.share = share, !.phase = p]
<1>0. Rest \in Runs /\ Rest.at = 1
  BY DEF Rest, Runs, Kinds, Phases
<1>1. p \in Phases => r \in Runs /\ r.at = 1 /\ r.phase = p
  <2> DEFINE a == [Rest EXCEPT !.kind = kind]
             b == [a EXCEPT !.noGE = noGE]
             c == [b EXCEPT !.share = share]
  <2>1. a \in Runs /\ a.at = 1
    BY <1>0, KindIsARun
  <2>2. b \in Runs /\ b.at = 1
    <3> HIDE DEF a
    <3> QED BY <2>1, NoGEIsARun DEF IInv, Typed
  <2>3. c \in Runs /\ c.at = 1
    <3> HIDE DEF b
    <3> QED BY <2>2, ShareIsARun DEF IInv, Typed
  <2>4. r = [c EXCEPT !.phase = p]
    OBVIOUS
  <2> HIDE DEF a, b, c, r, p
  <2> QED BY <2>3, <2>4, PhaseIsARun
<1>2. p \in Phases /\ p \notin {"over", "kill", "start", "check"}
  BY DEF Phases
<1>3. run' = r
  BY DEF Start
<1> HIDE DEF p, r
<1>4. /\ run' \in Runs /\ run'.at = 1 /\ run'.phase = p
  BY <1>1, <1>2, <1>3
<1>5. Keeps
  BY WorldKeeps DEF Start
<1>6. Typed'
  BY <1>4, <1>5 DEF IInv, Typed, Keeps
<1>7. SoFar' /\ Through'
  BY <1>2, <1>4, TheSteps DEF SoFar, Through, Card
<1> QED BY <1>5, <1>6, <1>7, CurrentStays DEF IInv

\* Steps that are a program, a package or a check.
LEMMA InstallSteps ==
  ASSUME IInv,
         \/ StepLocale \/ StepNetwork \/ StepPackages \/ StepSunshine \/ StepMangoHudShim
         \/ StepStevia \/ StepFaugus \/ StepHeroic \/ StepSteam \/ StepUser \/ StepFlatpak
         \/ StepGraphicsUserspace \/ StepCredentials \/ StepSession
  PROVE  IInv'
<1>1. CASE StepLocale \/ StepSteam \/ StepUser \/ StepGraphicsUserspace \/ StepCredentials
  <2>1. PICK x : Working /\ Step = x /\ x # "gpu" /\ Leaves(x)
    BY <1>1 DEF StepLocale, StepSteam, StepUser, StepGraphicsUserspace, StepCredentials, Doing
  <2> QED BY <2>1, LeavesItem
<1>2. CASE StepNetwork
  <2>1. CASE EnsureManagement
    BY <2>1, PlainPhases, OnlyThePhase DEF EnsureManagement, Doing
  <2>2. CASE Doing("network", "attach") /\ Leaves("network")
    BY <2>2, LeavesItem DEF Doing
  <2> QED BY <1>2, <2>1, <2>2 DEF StepNetwork
<1>3. CASE StepPackages
  <2>1. CASE EnsureMirrors
    BY <2>1, PlainPhases, OnlyThePhase DEF EnsureMirrors, Doing
  <2>2. CASE Doing("packages", "install") /\ Leaves("packages")
    BY <2>2, LeavesItem DEF Doing
  <2> QED BY <1>3, <2>1, <2>2 DEF StepPackages
<1>4. CASE StepSunshine \/ StepMangoHudShim \/ StepStevia \/ StepFaugus \/ StepHeroic
  <2>1. PICK x \in {"sunshine", "mangohud shim", "stevia", "faugus", "heroic"} : InstallPinned(x)
    BY <1>4, Zenon DEF StepSunshine, StepMangoHudShim, StepStevia, StepFaugus, StepHeroic
  <2>2. Working /\ Step = x
    BY <2>1 DEF InstallPinned, Doing
  <2>3. CASE x \in have /\ Passes
    BY <2>1, <2>2, <2>3, PassesOn
  <2>4. CASE Leaves(x)
    BY <2>1, <2>2, <2>4, LeavesItem
  <2> QED BY <2>1, <2>3, <2>4 DEF InstallPinned
<1>5. CASE StepFlatpak
  <2>1. Working /\ Step = "flatpak" /\ Passes
    BY <1>5 DEF StepFlatpak, Doing
  <2>2. "flatpak" \notin Items
    BY DEF Items
  <2> QED BY <2>1, <2>2, PassesOn
<1>6. CASE StepSession
  <2>1. CASE SessionHome
    BY <2>1, PlainPhases, OnlyThePhase DEF SessionHome, Doing
  <2>2. CASE SessionPrograms
    BY <2>2, PlainPhases, OnlyThePhase DEF SessionPrograms, Doing
  <2>3. CASE SessionSettings
    BY <2>3, LeavesItem DEF SessionSettings, Doing
  <2> QED BY <1>6, <2>1, <2>2, <2>3 DEF StepSession
<1> QED BY <1>1, <1>2, <1>3, <1>4, <1>5, <1>6

LEMMA ContainerSteps ==
  ASSUME IInv, AwaitGPU \/ Create \/ StepContainer PROVE IInv'
<1>1. CASE AwaitGPU
  BY <1>1, PlainPhases, OnlyThePhase DEF AwaitGPU, Doing
<1>2. CASE Create
  <2>1. Keeps /\ run' = run
    BY <1>2 DEF Create, IInv, Typed, Keeps, inside, setting, daemon
  <2> QED BY <2>1, RunTyped, RunStays
<1>4. CASE box = "stopped" /\ BoxStarts
           /\ UNCHANGED <<conf, run, inside, steam, games, setting, daemon, spent>>
  <2>1. Keeps /\ run' = run
    BY <1>4 DEF BoxStarts, IInv, Typed, Keeps, inside, setting, daemon
  <2> QED BY <2>1, RunTyped, RunStays
<1>3. CASE Doing("container", "begin") /\ Passes
  <2>1. "container" \notin Items
    BY DEF Items
  <2> QED BY <1>3, <2>1, PassesOn DEF Doing
<1> QED BY <1>1, <1>2, <1>3, <1>4 DEF StepContainer

\* Steam is asked to leave, and leaves or does not.
LEMMA SteamSteps ==
  ASSUME IInv, SteamIsAsked \/ SteamIsToldToGo \/ SteamIsGone \/ SteamTakesLong PROVE IInv'
<1>1. CASE SteamIsAsked
  <2>1. PICK p \in {"quiet", "shutdown", "busy"} : Phase(p)
    BY <1>1 DEF SteamIsAsked
  <2> QED BY <1>1, <2>1, PlainPhases, OnlyThePhase DEF SteamIsAsked
<1>2. CASE SteamIsToldToGo
  <2>1. Keeps
    BY <1>2 DEF SteamIsToldToGo, IInv, Typed, Keeps, machine, inside, games, setting, daemon
  <2> QED BY <1>2, <2>1, PlainPhases, OrdinaryPhase DEF SteamIsToldToGo
<1>3. CASE SteamIsGone
  <2> DEFINE r == [run EXCEPT !.closed = TRUE]
  <2>1. r \in Runs /\ r.at = run.at /\ r.kind = run.kind
    BY RunTyped, ClosedIsARun
  <2>2. run' = [r EXCEPT !.phase = "quiet"]
    BY <1>3 DEF SteamIsGone
  <2> HIDE DEF r
  <2>3. "quiet" \in Phases
    BY DEF Phases
  <2>4. run' \in Runs /\ run'.phase = "quiet" /\ run'.at = run.at /\ run'.kind = run.kind
    BY <2>1, <2>2, <2>3, PhaseIsARun
  <2>5. Keeps /\ Working
    BY <1>3 DEF SteamIsGone, IInv, Typed, Keeps, machine, inside, games, setting, daemon
  <2> QED BY <2>4, <2>5, StepGoesOn
<1>4. CASE SteamTakesLong
  BY <1>4, PlainPhases, OnlyThePhase DEF SteamTakesLong
<1> QED BY <1>1, <1>2, <1>3, <1>4

\* No tool is an item of the recipe's, nor does the seat wait for one.
LEMMA ToolSteps ==
  ASSUME IInv, StepProton \/ StepGEProton PROVE IInv'
<1>1. "proton" \notin Items /\ "ge-proton" \notin Items
  BY DEF Items
<1>2. ASSUME NEW t \in Tools, Working, Step = t, ToolNotTaken(t) PROVE IInv'
  <2>1. CASE Phase("ask") /\ UNCHANGED world
    BY <1>2, <2>1, PlainPhases, OnlyThePhase
  <2>2. CASE Go /\ UNCHANGED world
    BY <1>1, <1>2, <2>2, WorldKeeps, NextStep DEF Tools
  <2> QED BY <1>2, <2>1, <2>2 DEF ToolNotTaken
<1>3. ASSUME NEW t \in Tools, ToolIsLookedUp(t) PROVE IInv'
  <2>1. Working /\ Step = t
    BY <1>3 DEF ToolIsLookedUp, Doing
  <2>2. CASE Phase("ask") /\ UNCHANGED world
    BY <2>1, <2>2, PlainPhases, OnlyThePhase
  <2>3. CASE Phase("fetch") /\ UNCHANGED world
    BY <2>1, <2>3, PlainPhases, OnlyThePhase
  <2> QED BY <1>2, <1>3, <2>1, <2>2, <2>3 DEF ToolIsLookedUp
<1>4. ASSUME NEW t \in Tools, ToolIsUnpacked(t) PROVE IInv'
  <2>1. Working /\ Step = t
    BY <1>4 DEF ToolIsUnpacked, Doing
  <2>2. CASE Phase("swap") /\ UNCHANGED world
    BY <2>1, <2>2, PlainPhases, OnlyThePhase
  <2> QED BY <1>2, <1>4, <2>1, <2>2 DEF ToolIsUnpacked
<1>5. ASSUME NEW t \in Tools, ToolIsSwapped(t) PROVE IInv'
  <2>1. Working /\ Step = t /\ Keeps
    BY <1>5 DEF ToolIsSwapped, Doing, IInv, Typed, Keeps, machine, setting, daemon
  <2>2. CASE Phase("move") \/ Phase("ask")
    BY <2>1, <2>2, PlainPhases, OrdinaryPhase
  <2>3. CASE Go
    BY <1>1, <2>1, <2>3, NextStep DEF Tools
  <2> QED BY <1>5, <2>1, <2>2, <2>3 DEF ToolIsSwapped
<1>6. CASE StepSteamConfig
  <2>1. Working /\ Step = "proton" /\ Passes
    BY <1>6 DEF StepSteamConfig, Doing
  <2> QED BY <1>1, <2>1, PassesOn
<1>7. ASSUME Working, Step = "ge-proton", Passes PROVE IInv'
  BY <1>1, <1>7, PassesOn
<1>8. CASE RemoveTool
  <2>1. Working /\ Step = "ge-proton"
    BY <1>8 DEF RemoveTool, Doing
  <2>2. CASE Go /\ UNCHANGED world
    BY <1>1, <2>1, <2>2, WorldKeeps, NextStep
  <2>3. CASE Phase("ask") /\ UNCHANGED world
    BY <2>1, <2>3, PlainPhases, OnlyThePhase
  <2>4. CASE Go /\ UNCHANGED <<machine, have, steam, games, setting, daemon, spent>>
    <3>1. Keeps
      BY <2>4 DEF IInv, Typed, Keeps, machine, setting, daemon
    <3> QED BY <1>1, <2>1, <2>4, <3>1, NextStep
  <2> QED BY <1>7, <1>8, <2>1, <2>2, <2>3, <2>4 DEF RemoveTool
<1>9. "proton" \in Tools /\ "ge-proton" \in Tools
  BY DEF Tools
<1>10. CASE StepProton
  BY <1>3, <1>4, <1>5, <1>6, <1>9, <1>10 DEF StepProton
<1>11. CASE StepGEProton
  BY <1>3, <1>4, <1>5, <1>7, <1>8, <1>9, <1>11 DEF StepGEProton, Doing
<1> QED BY <1>10, <1>11

LEMMA TheCardsPlace == IInv /\ Building /\ Step = "gpu" => run.at = Card
<1> SUFFICES ASSUME IInv, Building, Step = "gpu" PROVE run.at = Card
  OBVIOUS
<1>1. run.at \in 1..19 /\ Step = Steps[run.at]
  BY TheSteps, ABuildIsTheSteps DEF IInv, SoFar, Building, Step
<1> QED BY <1>1, TheSteps

\* What Incus holds once the card is configured, it holds through the restart.
LEMMA CardSteps ==
  ASSUME IInv, StepGPU PROVE IInv'
<1>0. "gpu" \notin Items /\ {"kill", "start", "check"} \subseteq Phases
  BY DEF Items, Phases
<1>1. CASE CardIsConfigured
  <2>1. Keeps /\ Working /\ conf' = version
    BY <1>1 DEF CardIsConfigured, Doing, IInv, Typed, Keeps, inside, setting, daemon
  <2>2. PICK p \in {"check", "kill"} : Phase(p)
    BY <1>1 DEF CardIsConfigured
  <2> QED BY <1>0, <2>1, <2>2, PhaseFollows
<1>2. CASE BoxIsRestarted
  <2>1. Keeps /\ Working /\ conf' = conf
    BY <1>2 DEF BoxIsRestarted, BoxStarts, Doing, IInv, Typed, Keeps, inside, setting, daemon
  <2>2. run.phase \in {"kill", "start"}
    BY <1>2 DEF BoxIsRestarted, Doing
  <2>3. Building /\ Step = "gpu" => conf' = version
    BY <2>1, <2>2, TheCardsPlace DEF IInv, SoFar
  <2>4. PICK p \in {"start", "check"} : Phase(p)
    BY <1>2 DEF BoxIsRestarted
  <2> QED BY <1>0, <2>1, <2>3, <2>4, PhaseFollows
<1>3. CASE CardIsLookedFor
  <2>1. Keeps /\ Working /\ conf' = conf /\ run.phase = "check" /\ Step = "gpu"
    BY <1>3, WorldKeeps DEF CardIsLookedFor, Doing, world, machine
  <2>2. Building => conf' = version
    BY <2>1, TheCardsPlace DEF IInv, SoFar
  <2>3. CASE Go
    BY <1>0, <2>1, <2>2, <2>3, NextStep
  <2>4. CASE run' = Over(FALSE)
    BY <2>1, <2>4, RunIsOver
  <2> QED BY <1>3, <2>3, <2>4 DEF CardIsLookedFor
<1> QED BY <1>1, <1>2, <1>3 DEF StepGPU

\* The player's games are none of the seat's items.
LEMMA LibrarySteps ==
  ASSUME IInv, StepLibrary PROVE IInv'
<1>0. "library" \notin Items
  BY DEF Items
<1>1. CASE LibraryIsDetached
  <2>1. Keeps /\ Working /\ Step = "library" /\ Go
    BY <1>1 DEF LibraryIsDetached, Doing, IInv, Typed, Keeps, machine, inside, setting, daemon
  <2> QED BY <1>0, <2>1, NextStep
<1>2. CASE LibraryIsAttached
  <2>1. PICK p \in {"register", "copy"} : Phase(p)
    BY <1>2 DEF LibraryIsAttached
  <2> QED BY <1>2, <2>1, PlainPhases, OnlyThePhase DEF LibraryIsAttached, Doing
<1>3. CASE GamesAreCopied \/ GamesAreTakenOver
  <2>1. Keeps /\ Working
    BY <1>3 DEF GamesAreCopied, GamesAreTakenOver, Doing, IInv, Typed, Keeps, machine,
                inside, setting, daemon
  <2>2. PICK p \in {"copying", "copied", "mount", "register"} : Phase(p)
    BY <1>3 DEF GamesAreCopied, GamesAreTakenOver
  <2> QED BY <2>1, <2>2, PlainPhases, OrdinaryPhase
<1>4. CASE ShareLibrary
  BY <1>0, <1>4, PassesOn DEF ShareLibrary, Doing
<1> QED BY <1>1, <1>2, <1>3, <1>4 DEF StepLibrary

\* A build records its version only where it is through.
LEMMA EndSteps ==
  ASSUME IInv, RunEnds \/ StartSession PROVE IInv'
<1>1. CASE RunEnds
  <2>1. /\ UNCHANGED <<box, conf, have, noGE, share, version>>
        /\ built' = (built \/ (run.kind = "build" /\ run.ok)) /\ run.phase = "over"
    BY <1>1 DEF RunEnds, machine, inside, setting
  <2>2. built' \in BOOLEAN
    BY <2>1 DEF IInv, Typed
  <2>3. CurrentIsWhole'
    <3>1. CASE built
      BY <2>1, <3>1 DEF IInv, CurrentIsWhole
    <3>2. CASE ~built
      BY <2>1, <3>2 DEF IInv, Through, CurrentIsWhole
    <3> QED BY <3>1, <3>2
  <2>4. CASE run' = Rest
    BY <2>1, <2>2, <2>3, <2>4, RestInv DEF IInv, Typed
  <2>5. CASE run' = [run EXCEPT !.phase = "session"]
    <3>1. "session" \in Phases
      BY DEF Phases
    <3>2. run' \in Runs /\ run'.phase = "session"
      BY <2>5, <3>1, RunTyped, PhaseIsARun
    <3>3. Typed'
      BY <2>1, <2>2, <3>2 DEF IInv, Typed
    <3>4. SoFar' /\ Through'
      BY <3>2 DEF SoFar, Through, Building, Working
    <3> QED BY <2>3, <3>3, <3>4 DEF IInv
  <2> QED BY <1>1, <2>4, <2>5 DEF RunEnds
<1>2. CASE StartSession
  <2>1. UNCHANGED <<box, conf, have, noGE, share, version, built>> /\ run' = Rest
    BY <1>2 DEF StartSession, machine, inside, setting, daemon
  <2>2. CurrentIsWhole'
    BY <2>1 DEF IInv, CurrentIsWhole
  <2> QED BY <2>1, <2>2, RestInv DEF IInv, Typed
<1> QED BY <1>1, <1>2

LEMMA GoesOn == ASSUME IInv, Goes PROVE IInv'
<1>1. CASE Install
  BY <1>1, InstallSteps, ContainerSteps, ToolSteps, CardSteps, LibrarySteps DEF Install
<1>2. CASE StepFails \/ StopsCancelled
  BY <1>2, WorldKeeps, RunIsOver DEF StepFails, StopsCancelled
<1>3. CASE SteamIsAsked \/ SteamIsToldToGo \/ SteamIsGone \/ SteamTakesLong
  BY <1>3, SteamSteps
<1>4. CASE RunEnds \/ StartSession
  BY <1>4, EndSteps
<1> QED BY <1>1, <1>2, <1>3, <1>4 DEF Goes

LEMMA BeginsAgain == ASSUME IInv, Begins PROVE IInv'
<1>1. {"build", "software", "tools", "setting", "library"} \subseteq Kinds \ {"none"}
  BY DEF Kinds
<1>2. PICK kind \in {"build", "software", "tools", "setting", "library"} : Start(kind)
  BY DEF Begins, BeginBuild, BeginUpdate, BeginTools, SettingIsApplied
<1> QED BY <1>1, <1>2, StartInv

\* A run that is told of something beside it stays where it is.
LEMMA ToldIsARun ==
  ASSUME NEW r \in Runs
  PROVE  /\ [r EXCEPT !.spoiled = TRUE] \in Runs
         /\ [r EXCEPT !.spoiled = TRUE].kind = r.kind
         /\ [r EXCEPT !.spoiled = TRUE].at = r.at
         /\ [r EXCEPT !.spoiled = TRUE].phase = r.phase
         /\ [r EXCEPT !.spoiled = TRUE].ok = r.ok
         /\ [r EXCEPT !.cancelled = TRUE] \in Runs
         /\ [r EXCEPT !.cancelled = TRUE].kind = r.kind
         /\ [r EXCEPT !.cancelled = TRUE].at = r.at
         /\ [r EXCEPT !.cancelled = TRUE].phase = r.phase
         /\ [r EXCEPT !.cancelled = TRUE].ok = r.ok
  BY DEF Runs

LEMMA TroubleSteps ==
  ASSUME IInv, Fails \/ MirrorBreaks \/ Cancel \/ PowerOff PROVE IInv'
<1>1. CASE Fails
  <2>1. Keeps
    BY <1>1 DEF Fails, IInv, Typed, Keeps, machine, inside, setting, daemon
  <2> QED BY <1>1, <2>1, SpoiledRunIsOver DEF Fails
<1>2. CASE MirrorBreaks
  <2>1. Keeps
    BY <1>2, WorldKeeps DEF MirrorBreaks
  <2>2. CASE run' = [run EXCEPT !.tries = @ + 1]
    <3>1. run.tries + 1 \in Nat /\ run' = [run EXCEPT !.tries = run.tries + 1]
      BY <2>2, RunTyped DEF Runs
    <3> QED BY <2>1, <3>1, RunTyped, TriesIsARun, RunStays
  <2>3. CASE run' = [Over(FALSE) EXCEPT !.spoiled = TRUE]
    BY <2>1, <2>3, SpoiledRunIsOver
  <2> QED BY <1>2, <2>2, <2>3 DEF MirrorBreaks
<1>3. CASE Cancel
  <2>1. Keeps
    BY <1>3 DEF Cancel, IInv, Typed, Keeps, machine, inside, setting, daemon
  <2> DEFINE r == [run EXCEPT !.cancelled = TRUE]
  <2>2. /\ r \in Runs /\ r.kind = run.kind /\ r.at = run.at /\ r.phase = run.phase
        /\ r.ok = run.ok
    BY RunTyped, ToldIsARun
  <2>3. run' = [r EXCEPT !.spoiled = TRUE]
    BY <1>3 DEF Cancel
  <2> HIDE DEF r
  <2> QED BY <2>1, <2>2, <2>3, ToldIsARun, RunStays
<1>4. CASE PowerOff
  <2>1. Keeps
    BY <1>4 DEF PowerOff, IInv, Typed, Keeps, inside, setting, daemon
  <2>2. run' = [run EXCEPT !.spoiled = TRUE] \/ run' = run
    BY <1>4 DEF PowerOff
  <2> QED BY <2>1, <2>2, RunTyped, ToldIsARun, RunStays
<1> QED BY <1>1, <1>2, <1>3, <1>4

LEMMA SeatLives ==
  ASSUME IInv, Upgrade \/ SettingChanges \/ SteamComes \/ SomebodyPlays \/ SteamLeaves
               \/ GameIsInstalled
  PROVE  IInv'
<1>1. CASE Upgrade
  <2>1. run' = run /\ run.kind = "none" /\ built' = FALSE /\ UNCHANGED <<noGE, share>>
    BY <1>1 DEF Upgrade, On, setting
  <2> QED BY <2>1 DEF IInv, Typed, SoFar, Through, CurrentIsWhole, Building
<1>2. CASE SettingChanges
  <2>1. Keeps /\ run' = run
    BY <1>2 DEF SettingChanges, IInv, Typed, Keeps, machine, inside, daemon
  <2> QED BY <2>1, RunTyped, RunStays
<1>3. CASE SteamComes \/ SomebodyPlays \/ SteamLeaves
  <2>1. Keeps /\ run' = run
    BY <1>3 DEF SteamComes, SomebodyPlays, SteamLeaves, IInv, Typed, Keeps, machine, inside,
                setting, daemon
  <2> QED BY <2>1, RunTyped, RunStays
<1>4. CASE GameIsInstalled
  <2>1. Keeps /\ run' = run
    BY <1>4 DEF GameIsInstalled, IInv, Typed, Keeps, machine, inside, setting, daemon
  <2> QED BY <2>1, RunTyped, RunStays
<1> QED BY <1>1, <1>2, <1>3, <1>4

LEMMA StepInv == IInv /\ [Next]_provisionVars => IInv'
<1> SUFFICES ASSUME IInv, [Next]_provisionVars PROVE IInv'
  OBVIOUS
<1>1. CASE Goes
  BY <1>1, GoesOn
<1>2. CASE Begins
  BY <1>2, BeginsAgain
<1>3. CASE Beside
  BY <1>3, TroubleSteps, SeatLives DEF Beside
<1>4. CASE UNCHANGED provisionVars
  <2>1. Keeps /\ run' = run
    BY <1>4, WorldKeeps DEF provisionVars
  <2> QED BY <2>1, RunTyped, RunStays
<1> QED BY <1>1, <1>2, <1>3, <1>4 DEF Next

\* A run is always at a place whose earlier steps have left what they leave,
\* and what a build has behind it is still in the seat: Provisioner.Run carries
\* no record of it but the step it is at.
THEOREM Inductive == Spec => []IInv
<1> QED BY InitInv, StepInv, PTL DEF Spec

\* A seat whose Generation is this version's has every item of this version's
\* recipe, and Incus holds this version's settings for it, after any number of
\* failed, cancelled and repeated builds and any number of new versions.
THEOREM Whole == Spec => []CurrentIsWhole
<1>1. IInv => CurrentIsWhole
  BY DEF IInv
<1> QED BY <1>1, Inductive, PTL

-----------------------------------------------------------------------------
(* Why a build fails                                                        *)

\* The settings with the card come after Steam, which needs to be there first.
Numbered == version \in Nat \ {0} /\ conf \in Nat /\ live \in Nat
CardAfterSteam == conf > 0 \/ live > 0 => "steam" \in have

InRecipe == Working => run.at \in 1..Len(Recipe[run.kind])

\* A build that has met no failing call, no shutdown and no power-off.
Calm == run.kind = "build" /\ ~run.spoiled

\* Beyond its first step the seat runs, but for its restart.
Reached ==
  Calm /\ Working /\ run.at > 1 =>
    box = "running" \/ (run.at = Card /\ run.phase = "start")

FailedForTheCard ==
  Calm /\ run.phase = "over" /\ ~run.ok => box = "running" /\ live # conf

Luck ==
  /\ Numbered /\ CardAfterSteam /\ InRecipe /\ Reached /\ FailedForTheCard
  /\ run.cancelled => run.spoiled
  /\ Calm /\ run.phase = "session" => built

LInv == IInv /\ Luck

Same ==
  run'.kind = run.kind /\ run'.spoiled = run.spoiled /\ run'.cancelled = run.cancelled

Settled ==
  /\ version' = version /\ conf' = conf /\ live' = live /\ box' = box /\ built' = built
  /\ have \subseteq have'

LEMMA RecipeLengths ==
  \A k \in Kinds \ {"none"} : Len(Recipe[k]) \in Nat /\ 1 \in 1..Len(Recipe[k])
<1>1. Len(Recipe["build"]) = 19
  BY ABuildIsTheSteps, TheSteps
<1>2. Len(Recipe["software"]) = 6 /\ Len(Recipe["tools"]) = 2
  BY DEF Recipe
<1>3. Len(Recipe["setting"]) = 1 /\ Len(Recipe["library"]) = 1
  BY DEF Recipe
<1>4. \A k \in Kinds \ {"none"} :
        k = "build" \/ k = "software" \/ k = "tools" \/ k = "setting" \/ k = "library"
  BY DEF Kinds
<1>5. \A k \in Kinds \ {"none"} : Len(Recipe[k]) \in {19, 6, 2, 1}
  BY <1>1, <1>2, <1>3, <1>4, Zenon
<1>6. \A n \in {19, 6, 2, 1} : n \in Nat /\ 1 \in 1..n
  OBVIOUS
<1> QED BY <1>5, <1>6, Zenon

LEMMA PhaseFields ==
  ASSUME run \in Runs, NEW p, Phase(p)
  PROVE  Same /\ run'.at = run.at /\ run'.phase = p /\ run'.ok = run.ok
  BY DEF Phase, Runs, Same

LEMMA OverFields ==
  ASSUME run \in Runs, NEW o \in BOOLEAN
  PROVE  /\ Over(o) \in Runs /\ Over(o).phase = "over" /\ Over(o).ok = o
         /\ Over(o).kind = run.kind /\ Over(o).spoiled = run.spoiled
         /\ Over(o).cancelled = run.cancelled
<1> DEFINE q == [run EXCEPT !.phase = "over"]
<1>1. q.spoiled = run.spoiled /\ q.cancelled = run.cancelled /\ q \in Runs
  BY DEF Runs, Phases
<1>2. Over(o) = [q EXCEPT !.ok = o]
  BY DEF Over
<1> HIDE DEF q
<1>3. Over(o).spoiled = q.spoiled /\ Over(o).cancelled = q.cancelled
  BY <1>1, <1>2 DEF Runs
<1> QED BY <1>1, <1>3, OverIsARun

LEMMA GoFields ==
  ASSUME run \in Runs, Go
  PROVE  /\ Same
         /\ IF run.at = Len(Recipe[run.kind]) THEN run'.phase = "over" /\ run'.ok
            ELSE run'.at = run.at + 1 /\ run'.phase = "begin"
<1> DEFINE a == [run EXCEPT !.at = run.at + 1]
           b == [a EXCEPT !.phase = "begin"]
<1>1. run.at + 1 \in Nat
  BY DEF Runs
<1>2. /\ a \in Runs /\ a.at = run.at + 1 /\ a.kind = run.kind
      /\ a.spoiled = run.spoiled /\ a.cancelled = run.cancelled
  BY <1>1 DEF Runs
<1>3. /\ b \in Runs /\ b.at = run.at + 1 /\ b.kind = run.kind /\ b.phase = "begin"
      /\ b.spoiled = run.spoiled /\ b.cancelled = run.cancelled
  <2> HIDE DEF a
  <2> QED BY <1>2 DEF Runs, Phases
<1>4. CASE run.at = Len(Recipe[run.kind])
  BY <1>4, OverFields DEF Go, Same
<1>5. CASE run.at # Len(Recipe[run.kind])
  <2>1. run' = [b EXCEPT !.tries = 0]
    BY <1>5 DEF Go
  <2> HIDE DEF b
  <2> QED BY <1>3, <1>5, <2>1 DEF Runs, Same
<1> QED BY <1>4, <1>5

LEMMA SettledNumbers ==
  ASSUME Luck, Settled
  PROVE  Numbered' /\ CardAfterSteam'
  BY DEF Luck, Settled, Numbered, CardAfterSteam

LEMMA LuckAtStep ==
  ASSUME LInv, Working, Same, run'.at = run.at, run'.phase \notin {"over", "session"},
         Numbered', CardAfterSteam',
         Calm /\ run.at > 1 => box' = "running" \/ (run.at = Card /\ run'.phase = "start")
  PROVE  Luck'
  BY DEF LInv, Luck, Working, On, Same, InRecipe, Reached, FailedForTheCard, Calm

LEMMA LuckOnward ==
  ASSUME LInv, Working, Go, Numbered', CardAfterSteam', Calm => box' = "running"
  PROVE  Luck' /\ Same
<1>1. run \in Runs
  BY RunTyped DEF LInv
<1>2. Len(Recipe[run.kind]) \in Nat
  BY <1>1, RecipeLengths DEF Working, On, Runs
<1>3. Same
  BY <1>1, GoFields
<1>4. InRecipe'
  BY <1>1, <1>2, <1>3, GoFields DEF LInv, Luck, InRecipe, Working, Same
<1>5. Reached' /\ FailedForTheCard' /\ (Calm' /\ run'.phase = "session" => built')
  BY <1>1, <1>3, GoFields DEF Reached, FailedForTheCard, Calm, Same
<1>6. run'.cancelled => run'.spoiled
  BY <1>3 DEF LInv, Luck, Same
<1> QED BY <1>3, <1>4, <1>5, <1>6 DEF Luck

LEMMA LuckFails ==
  ASSUME LInv, run'.phase = "over", Numbered', CardAfterSteam',
         run'.cancelled => run'.spoiled,
         Calm' => box' = "running" /\ live' # conf'
  PROVE  Luck'
  BY DEF Luck, InRecipe, Reached, FailedForTheCard, Working

\* The form most steps have.
LEMMA Ordinary ==
  ASSUME LInv, Working, Settled, run.phase # "start",
         \/ \E p : p \notin {"over", "session"} /\ Phase(p)
         \/ Go /\ (Step = "container" => box = "running")
  PROVE  Luck' /\ Same
<1>1. run \in Runs /\ Numbered' /\ CardAfterSteam'
  BY RunTyped, SettledNumbers DEF LInv
<1>2. Calm /\ run.at > 1 => box' = "running"
  BY DEF LInv, Luck, Reached, Settled
<1>3. ASSUME NEW p, p \notin {"over", "session"}, Phase(p) PROVE Luck' /\ Same
  BY <1>1, <1>2, <1>3, PhaseFields, LuckAtStep
<1>4. CASE Go /\ (Step = "container" => box = "running")
  <2>1. Calm => box' = "running"
    <3> SUFFICES ASSUME Calm, ~(run.at > 1) PROVE box' = "running"
      BY <1>2
    <3>1. run.at = 1 /\ run.kind = "build"
      BY ABuildIsTheSteps, TheSteps DEF Calm, LInv, Luck, InRecipe
    <3>2. Step = "container"
      BY <3>1, Named, ABuildIsTheSteps DEF Step
    <3> QED BY <1>4, <3>2 DEF Settled
  <2> QED BY <1>1, <1>4, <2>1, LuckOnward
<1> QED BY <1>3, <1>4

\* The steps of a build need only what earlier ones leave.
LEMMA NeedsAreEarlier ==
  \A i \in 1..19 : \A x \in Needs(Steps[i]) :
    x \in Items /\ \E j \in 1..(i - 1) : Steps[j] = x
<1>1. \A s : Needs(s) \subseteq {"network", "packages", "user", "sunshine"}
  BY Zenon DEF Needs
<1>2. {"network", "packages", "user", "sunshine"} \subseteq Items
  BY DEF Items
<1>3. /\ Needs("container") = {} /\ Needs("locale") = {} /\ Needs("network") = {}
      /\ Needs("user") = {} /\ Needs("proton") = {} /\ Needs("ge-proton") = {}
      /\ Needs("gpu") = {} /\ Needs("graphics userspace") = {}
  BY DEF Needs, Pinned
<1>4. /\ Needs("packages") = {"network"} /\ Needs("steam") = {"packages"}
      /\ Needs("flatpak") = {"user"} /\ Needs("library") = {"user"}
      /\ Needs("session") = {"user", "packages"}
      /\ Needs("sunshine credentials") = {"user", "sunshine"}
  BY DEF Needs, Pinned
<1>5. \A p \in Pinned : Needs(p) = {"packages"}
  BY DEF Needs, Pinned
<1>6. \A i \in 5..9 : Needs(Steps[i]) = {"packages"}
  <2>1. \A i \in 5..9 : i = 5 \/ i = 6 \/ i = 7 \/ i = 8 \/ i = 9
    OBVIOUS
  <2>2. /\ Steps[5] \in Pinned /\ Steps[6] \in Pinned /\ Steps[7] \in Pinned
        /\ Steps[8] \in Pinned /\ Steps[9] \in Pinned
    BY Named, Zenon DEF Pinned
  <2> QED BY <1>5, <2>1, <2>2, Zenon
<1>7. ASSUME NEW i \in 1..19, NEW x \in Needs(Steps[i])
      PROVE  \E j \in 1..(i - 1) : Steps[j] = x
  <2>1. CASE i = 1 \/ i = 2 \/ i = 3 \/ i = 11 \/ i = 12 \/ i = 13 \/ i = 15 \/ i = 16
    <3>1. Needs(Steps[i]) = {}
      BY <1>3, <2>1, Named, Zenon
    <3> QED BY <1>7, <3>1, Zenon
  <2>2. CASE i = 4
    <3>1. Needs(Steps[i]) = {"network"}
      BY <1>4, <2>2, Named, Zenon
    <3>2. 3 \in 1..(i - 1)
      BY <2>2
    <3>3. x \in {"network"}
      BY <1>7, <3>1, Zenon
    <3> QED BY <3>2, <3>3, Named
  <2>3. CASE i \in 5..9
    <3>1. x \in {"packages"}
      BY <1>6, <1>7, <2>3, Zenon
    <3>2. 4 \in 1..(i - 1)
      BY <2>3
    <3> QED BY <3>1, <3>2, Named
  <2>4. CASE i = 10
    <3>1. Needs(Steps[i]) = {"packages"}
      BY <1>4, <2>4, Named, Zenon
    <3>2. 4 \in 1..(i - 1)
      BY <2>4
    <3>3. x \in {"packages"}
      BY <1>7, <3>1, Zenon
    <3> QED BY <3>2, <3>3, Named
  <2>5. CASE i = 14 \/ i = 17
    <3>1. Needs(Steps[i]) = {"user"}
      BY <1>4, <2>5, Named, Zenon
    <3>2. 11 \in 1..(i - 1)
      BY <2>5
    <3>3. x \in {"user"}
      BY <1>7, <3>1, Zenon
    <3> QED BY <3>2, <3>3, Named
  <2>6. CASE i = 18
    <3>1. Needs(Steps[i]) = {"user", "packages"}
      BY <1>4, <2>6, Named, Zenon
    <3>2. 4 \in 1..(i - 1) /\ 11 \in 1..(i - 1)
      BY <2>6
    <3>3. x \in {"user", "packages"}
      BY <1>7, <3>1, Zenon
    <3> QED BY <3>2, <3>3, Named
  <2>7. CASE i = 19
    <3>1. Needs(Steps[i]) = {"user", "sunshine"}
      BY <1>4, <2>7, Named, Zenon
    <3>2. 5 \in 1..(i - 1) /\ 11 \in 1..(i - 1)
      BY <2>7
    <3>3. x \in {"user", "sunshine"}
      BY <1>7, <3>1, Zenon
    <3> QED BY <3>2, <3>3, Named
  <2>8. \/ i = 1 \/ i = 2 \/ i = 3 \/ i = 11 \/ i = 12 \/ i = 13 \/ i = 15 \/ i = 16
        \/ i = 4 \/ i \in 5..9 \/ i = 10 \/ i = 14 \/ i = 17 \/ i = 18 \/ i = 19
    OBVIOUS
  <2> QED BY <2>1, <2>2, <2>3, <2>4, <2>5, <2>6, <2>7, <2>8
<1> QED BY <1>1, <1>2, <1>7

LEMMA WhereABuildIs ==
  ASSUME LInv, Building
  PROVE  /\ run.at \in 1..19 /\ Step = Steps[run.at]
         /\ Step # "container" => run.at > 1
         /\ (Step = "gpu") <=> (run.at = Card)
<1>1. run.at \in 1..19 /\ Step = Steps[run.at]
  BY TheSteps, ABuildIsTheSteps DEF LInv, IInv, SoFar, Building, Step
<1>2. run.at = 1 => Step = "container"
  BY <1>1, Named
<1> QED BY <1>1, <1>2, TheSteps

LEMMA OnlyABuildHasACard ==
  ASSUME run \in Runs, Luck, Working, Step = "gpu" PROVE run.kind = "build"
<1>1. run.kind \in Kinds \ {"none"} /\ run.at \in 1..Len(Recipe[run.kind])
  BY DEF Working, On, Runs, Luck, InRecipe
<1>2. /\ \A i \in 1..6 : Recipe["software"][i] # "gpu"
      /\ \A i \in 1..2 : Recipe["tools"][i] # "gpu"
      /\ Recipe["setting"][1] # "gpu" /\ Recipe["library"][1] # "gpu"
  BY DEF Recipe
<1>3. /\ Len(Recipe["software"]) = 6 /\ Len(Recipe["tools"]) = 2
      /\ Len(Recipe["setting"]) = 1 /\ Len(Recipe["library"]) = 1
  BY DEF Recipe
<1> QED BY <1>1, <1>2, <1>3 DEF Step, Kinds

\* A build that met no trouble has what its step needs, and can reach the seat.
LEMMA CalmCanWork == ASSUME LInv, Working, Calm PROVE ~CannotWork
<1>0. Building
  BY DEF Building, Calm
<1>1. ~Unreachable
  <2> SUFFICES ASSUME Unreachable PROVE FALSE
    OBVIOUS
  <2>1. run.at > 1
    BY <1>0, WhereABuildIs DEF Unreachable
  <2> QED BY <2>1 DEF Unreachable, LInv, Luck, Reached
<1>2. ~Lacks
  <2>1. Needs(Step) \subseteq have
    <3> SUFFICES ASSUME NEW x \in Needs(Step) PROVE x \in have
      OBVIOUS
    <3>1. run.at \in 1..19 /\ Step = Steps[run.at]
      BY <1>0, WhereABuildIs
    <3>2. PICK j \in 1..(run.at - 1) : Steps[j] = x /\ x \in Items
      BY <3>1, NeedsAreEarlier
    <3> QED BY <1>0, <3>2 DEF LInv, IInv, SoFar
  <2>2. live > 0 => "steam" \in have
    BY DEF LInv, Luck, CardAfterSteam
  <2> QED BY <2>1, <2>2 DEF Lacks
<1> QED BY <1>1, <1>2 DEF CannotWork

\* The forms the steps have.
LEMMA LeavesLuck ==
  ASSUME LInv, NEW step, NEW phase, Doing(step, phase), phase # "start",
         step # "container", NEW x, Leaves(x)
  PROVE  Luck' /\ Same
<1>1. Settled /\ Go
  BY DEF Leaves, machine, daemon, Settled
<1> QED BY <1>1, Ordinary DEF Doing

LEMMA WorldSettled == UNCHANGED world => Settled
  BY DEF world, machine, inside, daemon, Settled

LEMMA PassesLuck ==
  ASSUME LInv, NEW step, NEW phase, Doing(step, phase), phase # "start", Passes
  PROVE  Luck' /\ Same
<1>1. Settled /\ Go /\ box = "running"
  BY WorldSettled DEF Passes
<1> QED BY <1>1, Ordinary DEF Doing

LEMMA PhaseLuck ==
  ASSUME LInv, Working, run.phase # "start", Settled, NEW p,
         p \notin {"over", "session"}, Phase(p)
  PROVE  Luck' /\ Same
  BY Ordinary

LEMMA InstallLuck ==
  ASSUME LInv,
         \/ AwaitGPU \/ StepLocale \/ StepNetwork \/ StepPackages \/ StepSunshine
         \/ StepMangoHudShim \/ StepStevia \/ StepFaugus \/ StepHeroic \/ StepSteam
         \/ StepUser \/ StepFlatpak \/ StepGraphicsUserspace \/ StepCredentials \/ StepSession
  PROVE  Luck' /\ Same
<1>1. CASE StepLocale \/ StepSteam \/ StepUser \/ StepGraphicsUserspace \/ StepCredentials
  <2>1. PICK x : Doing(x, "begin") /\ x # "container" /\ Leaves(x)
    BY <1>1 DEF StepLocale, StepSteam, StepUser, StepGraphicsUserspace, StepCredentials
  <2> QED BY <2>1, LeavesLuck
<1>2. CASE StepNetwork
  <2>1. CASE EnsureManagement
    BY <2>1, WorldSettled, PhaseLuck DEF EnsureManagement, Doing
  <2>2. CASE Doing("network", "attach") /\ Leaves("network")
    BY <2>2, LeavesLuck
  <2> QED BY <1>2, <2>1, <2>2 DEF StepNetwork
<1>3. CASE StepPackages
  <2>1. CASE EnsureMirrors
    BY <2>1, WorldSettled, PhaseLuck DEF EnsureMirrors, Doing
  <2>2. CASE Doing("packages", "install") /\ Leaves("packages")
    BY <2>2, LeavesLuck
  <2> QED BY <1>3, <2>1, <2>2 DEF StepPackages
<1>4. CASE StepSunshine \/ StepMangoHudShim \/ StepStevia \/ StepFaugus \/ StepHeroic
  <2>1. PICK x : x # "container" /\ InstallPinned(x)
    BY <1>4, Zenon DEF StepSunshine, StepMangoHudShim, StepStevia, StepFaugus, StepHeroic
  <2>2. CASE Doing(x, "begin") /\ Passes
    BY <2>2, PassesLuck
  <2>3. CASE Doing(x, "begin") /\ Leaves(x)
    BY <2>1, <2>3, LeavesLuck
  <2> QED BY <2>1, <2>2, <2>3 DEF InstallPinned
<1>5. CASE StepFlatpak
  BY <1>5, PassesLuck DEF StepFlatpak
<1>6. CASE StepSession
  <2>1. CASE SessionHome
    BY <2>1, WorldSettled, PhaseLuck DEF SessionHome, Doing
  <2>2. CASE SessionPrograms
    BY <2>2, WorldSettled, PhaseLuck DEF SessionPrograms, Doing
  <2>3. CASE SessionSettings
    BY <2>3, LeavesLuck DEF SessionSettings
  <2> QED BY <1>6, <2>1, <2>2, <2>3 DEF StepSession
<1>7. CASE AwaitGPU
  BY <1>7, WorldSettled, PhaseLuck DEF AwaitGPU, Doing
<1> QED BY <1>1, <1>2, <1>3, <1>4, <1>5, <1>6, <1>7

LEMMA ToolLuck ==
  ASSUME LInv, StepProton \/ StepGEProton PROVE Luck' /\ Same
<1>1. ASSUME NEW t \in Tools, Working, Step = t, run.phase # "start", Settled,
             Go \/ Phase("ask") \/ Phase("fetch") \/ Phase("swap") \/ Phase("move")
      PROVE  Luck' /\ Same
  <2>1. t # "container"
    BY DEF Tools
  <2> QED BY <1>1, <2>1, Ordinary
<1>2. ASSUME NEW t \in Tools, ToolIsLookedUp(t) \/ ToolIsUnpacked(t) \/ ToolIsSwapped(t)
      PROVE  Luck' /\ Same
  <2>1. Working /\ Step = t /\ run.phase # "start"
    BY <1>2 DEF ToolIsLookedUp, ToolIsUnpacked, ToolIsSwapped, Doing
  <2>2. UNCHANGED world \/ UNCHANGED <<machine, have, steam, games, setting, daemon, spent>>
    BY <1>2 DEF ToolIsLookedUp, ToolIsUnpacked, ToolIsSwapped, ToolNotTaken
  <2>3. Settled
    BY <2>2, WorldSettled DEF Settled, machine, daemon
  <2>4. Go \/ Phase("ask") \/ Phase("fetch") \/ Phase("swap") \/ Phase("move")
    BY <1>2, Zenon DEF ToolIsLookedUp, ToolIsUnpacked, ToolIsSwapped, ToolNotTaken
  <2> QED BY <1>1, <2>1, <2>3, <2>4
<1>3. "proton" \in Tools /\ "ge-proton" \in Tools
  BY DEF Tools
<1>4. CASE StepSteamConfig
  BY <1>4, PassesLuck DEF StepSteamConfig
<1>5. CASE RemoveTool
  <2>1. Working /\ Step = "ge-proton" /\ run.phase # "start"
    BY <1>5 DEF RemoveTool, Doing
  <2>2. UNCHANGED world \/ UNCHANGED <<machine, have, steam, games, setting, daemon, spent>>
    BY <1>5 DEF RemoveTool, Passes
  <2>3. Settled
    BY <2>2, WorldSettled DEF Settled, machine, daemon
  <2>4. Go \/ Phase("ask")
    BY <1>5, Zenon DEF RemoveTool, Passes
  <2> QED BY <1>1, <1>3, <2>1, <2>3, <2>4
<1>6. CASE (Doing("ge-proton", "quiet") \/ Doing("ge-proton", "busy")) /\ Passes
  BY <1>6, PassesLuck
<1> QED BY <1>2, <1>3, <1>4, <1>5, <1>6 DEF StepProton, StepGEProton

LEMMA LibraryLuck ==
  ASSUME LInv, StepLibrary PROVE Luck' /\ Same
<1>1. Working /\ Step = "library" /\ run.phase # "start"
  BY DEF StepLibrary, LibraryIsDetached, LibraryIsAttached, GamesAreCopied,
     GamesAreTakenOver, ShareLibrary, Doing
<1>2. ASSUME LibraryIsAttached \/ ShareLibrary PROVE Settled
  BY <1>2, WorldSettled DEF LibraryIsAttached, ShareLibrary, Passes
<1>3. ASSUME LibraryIsDetached \/ GamesAreCopied \/ GamesAreTakenOver PROVE Settled
  BY <1>3 DEF LibraryIsDetached, GamesAreCopied, GamesAreTakenOver, Settled, machine, inside,
     daemon
<1>4. Settled
  BY <1>2, <1>3 DEF StepLibrary
<1>5. \/ Go \/ Phase("register") \/ Phase("copy") \/ Phase("copying") \/ Phase("copied")
      \/ Phase("mount")
  BY DEF StepLibrary, LibraryIsDetached, LibraryIsAttached, GamesAreCopied,
     GamesAreTakenOver, ShareLibrary, Passes
<1> QED BY <1>1, <1>4, <1>5, Ordinary

LEMMA ContainerLuck ==
  ASSUME LInv, Create \/ StepContainer PROVE Luck' /\ Same
<1>1. CASE Create \/ (Doing("container", "begin") /\ box = "stopped" /\ BoxStarts
                      /\ UNCHANGED <<conf, run, inside, steam, games, setting, daemon, spent>>)
  <2>1. /\ Working /\ Step = "container" /\ UNCHANGED <<run, conf, have, version>>
        /\ live' = live \/ live' = conf
    BY <1>1 DEF Create, BoxStarts, Doing, inside, daemon
  <2>2. Calm => run.at = 1
    <3>1. Calm => Building
      BY <2>1 DEF Calm, Building
    <3> QED BY <2>1, <3>1, WhereABuildIs, TheSteps
  <2>3. Numbered' /\ CardAfterSteam'
    BY <2>1 DEF LInv, Luck, Numbered, CardAfterSteam
  <2>4. Same /\ run'.at = run.at /\ run'.phase \notin {"over", "session"}
    BY <2>1 DEF Same, Working
  <2> QED BY <2>1, <2>2, <2>3, <2>4, LuckAtStep
<1>2. CASE Doing("container", "begin") /\ Passes
  BY <1>2, PassesLuck
<1> QED BY <1>1, <1>2 DEF StepContainer

LEMMA SteamLuck ==
  ASSUME LInv, SteamIsAsked \/ SteamIsToldToGo \/ SteamIsGone \/ SteamTakesLong
  PROVE  Luck' /\ Same
<1>1. CASE SteamIsAsked
  <2>1. PICK p \in {"quiet", "shutdown", "busy"} : Phase(p)
    BY <1>1 DEF SteamIsAsked
  <2> QED BY <1>1, <2>1, WorldSettled, PhaseLuck DEF SteamIsAsked
<1>2. CASE SteamIsToldToGo
  <2>1. Settled
    BY <1>2 DEF SteamIsToldToGo, Settled, machine, inside, daemon
  <2> QED BY <1>2, <2>1, PhaseLuck DEF SteamIsToldToGo
<1>3. CASE SteamIsGone
  <2> DEFINE r == [run EXCEPT !.closed = TRUE]
  <2>1. /\ r \in Runs /\ r.kind = run.kind /\ r.at = run.at /\ r.spoiled = run.spoiled
        /\ r.cancelled = run.cancelled
    BY RunTyped DEF LInv, Runs
  <2>2. run' = [r EXCEPT !.phase = "quiet"]
    BY <1>3 DEF SteamIsGone
  <2> HIDE DEF r
  <2>3. Same /\ run'.at = run.at /\ run'.phase = "quiet"
    BY <2>1, <2>2 DEF Runs, Same
  <2>4. Settled /\ Working /\ run.phase = "closing"
    BY <1>3 DEF SteamIsGone, Settled, machine, inside, daemon
  <2>5. Calm /\ run.at > 1 => box' = "running"
    BY <2>4 DEF LInv, Luck, Reached, Settled
  <2> QED BY <2>3, <2>4, <2>5, SettledNumbers, LuckAtStep DEF LInv
<1>4. CASE SteamTakesLong
  BY <1>4, WorldSettled, PhaseLuck DEF SteamTakesLong
<1> QED BY <1>1, <1>2, <1>3, <1>4

LEMMA CardLuck ==
  ASSUME LInv, StepGPU PROVE Luck' /\ Same
<1>0. Working /\ Step = "gpu" /\ run \in Runs
  BY RunTyped DEF StepGPU, CardIsConfigured, BoxIsRestarted, CardIsLookedFor, Doing, LInv
<1>1. Building /\ run.at = Card
  BY <1>0, OnlyABuildHasACard, TheCardsPlace DEF LInv, Building
<1>2. "steam" \in have
  <2>1. 10 \in 1..(run.at - 1)
    BY <1>1 DEF Card
  <2>2. Steps[10] = "steam" /\ "steam" \in Items
    BY Named, Zenon DEF Items
  <2> QED BY <1>1, <2>1, <2>2 DEF LInv, IInv, SoFar
<1>3. CASE CardIsConfigured
  <2>1. /\ conf' = version /\ live' = live /\ version' = version /\ have' = have
        /\ box = "running" /\ box' = box
    BY <1>3 DEF CardIsConfigured, inside, daemon
  <2>2. PICK p \in {"check", "kill"} : Phase(p)
    BY <1>3 DEF CardIsConfigured
  <2>3. Same /\ run'.at = run.at /\ run'.phase = p
    BY <1>0, <2>2, PhaseFields
  <2>4. Numbered' /\ CardAfterSteam'
    BY <1>2, <2>1 DEF LInv, Luck, Numbered, CardAfterSteam
  <2> QED BY <1>0, <2>1, <2>3, <2>4, LuckAtStep
<1>4. CASE BoxIsRestarted
  <2>1. /\ conf' = conf /\ version' = version /\ have' = have
        /\ live' = live \/ live' = conf
    BY <1>4 DEF BoxIsRestarted, BoxStarts, inside, daemon
  <2>2. \/ Phase("start")
        \/ Phase("check") /\ box' = "running"
    BY <1>4 DEF BoxIsRestarted, BoxStarts
  <2>3. Same /\ run'.at = run.at
    BY <1>0, <2>2, PhaseFields
  <2>4. run'.phase = "start" \/ (run'.phase = "check" /\ box' = "running")
    BY <1>0, <2>2, PhaseFields
  <2>5. Numbered' /\ CardAfterSteam'
    BY <1>2, <2>1 DEF LInv, Luck, Numbered, CardAfterSteam
  <2> QED BY <1>0, <1>1, <2>3, <2>4, <2>5, LuckAtStep
<1>5. CASE CardIsLookedFor
  <2>1. Settled /\ run.phase = "check" /\ box = "running"
    BY <1>5, WorldSettled DEF CardIsLookedFor, Doing
  <2>2. CASE live > 0
    <3>1. Go
      BY <1>5, <2>2 DEF CardIsLookedFor
    <3> QED BY <1>0, <2>1, <3>1, Ordinary
  <2>3. CASE ~(live > 0)
    <3>1. run' = Over(FALSE)
      BY <1>5, <2>3 DEF CardIsLookedFor
    <3>2. Same /\ run'.phase = "over"
      BY <1>0, <3>1, OverFields DEF Same
    <3>3. live' # conf'
      BY <1>1, <2>1, <2>3 DEF LInv, Luck, Numbered, IInv, SoFar, Settled
    <3>4. run'.cancelled => run'.spoiled
      BY <3>2 DEF LInv, Luck, Same
    <3> QED BY <2>1, <3>2, <3>3, <3>4, SettledNumbers, LuckFails DEF LInv, Settled
  <2> QED BY <2>2, <2>3
<1> QED BY <1>3, <1>4, <1>5 DEF StepGPU

\* A build without trouble does not fail for what it needs, nor is it cancelled.
LEMMA FailureLuck ==
  ASSUME LInv, StepFails \/ StopsCancelled PROVE Luck' /\ Same
<1>1. Working /\ run' = Over(FALSE) /\ Settled /\ run \in Runs
  BY WorldSettled, RunTyped DEF StepFails, StopsCancelled, LInv
<1>2. ~Calm
  <2>1. CASE StepFails
    BY <2>1, CalmCanWork DEF StepFails
  <2>2. CASE StopsCancelled
    BY <2>2 DEF StopsCancelled, LInv, Luck, Calm
  <2> QED BY <2>1, <2>2
<1>3. Same /\ run'.phase = "over"
  BY <1>1, OverFields DEF Same
<1>4. ~Calm' /\ (run'.cancelled => run'.spoiled)
  BY <1>2, <1>3 DEF Same, Calm, LInv, Luck
<1> QED BY <1>1, <1>3, <1>4, SettledNumbers, LuckFails DEF LInv

LEMMA GoesLuck ==
  ASSUME LInv, Goes, ~RunEnds, ~StartSession PROVE Luck' /\ Same
  BY InstallLuck, ContainerLuck, ToolLuck, LibraryLuck, CardLuck, SteamLuck, FailureLuck
     DEF Goes, Install

\* A run that begins.
LEMMA BeginsLuck ==
  ASSUME LInv, Begins PROVE Luck'
<1>1. PICK kind \in {"build", "software", "tools", "setting", "library"} : Start(kind)
  BY DEF Begins, BeginBuild, BeginUpdate, BeginTools, SettingIsApplied
<1> DEFINE p == IF kind = "build" THEN "nodes" ELSE "begin"
           a == [Rest EXCEPT !.kind = kind]
           b == [a EXCEPT !.noGE = noGE]
           c == [b EXCEPT !.share = share]
<1>2. kind \in Kinds \ {"none"} /\ p \in Phases /\ p \notin {"over", "session"}
  BY DEF Kinds, Phases
<1>3. Rest \in Runs /\ Rest.at = 1 /\ Rest.cancelled = FALSE
  BY DEF Rest, Runs, Kinds, Phases
<1>4. a \in Runs /\ a.kind = kind /\ a.at = 1 /\ a.cancelled = FALSE
  BY <1>2, <1>3 DEF Runs
<1>5. b \in Runs /\ b.kind = kind /\ b.at = 1 /\ b.cancelled = FALSE
  <2>1. noGE \in BOOLEAN
    BY DEF LInv, IInv, Typed
  <2> HIDE DEF a
  <2> QED BY <1>4, <2>1 DEF Runs
<1>6. c \in Runs /\ c.kind = kind /\ c.at = 1 /\ c.cancelled = FALSE
  <2>1. share \in BOOLEAN
    BY DEF LInv, IInv, Typed
  <2> HIDE DEF b
  <2> QED BY <1>5, <2>1 DEF Runs
<1>7. run' = [c EXCEPT !.phase = p] /\ UNCHANGED world
  BY <1>1 DEF Start
<1>8. run'.kind = kind /\ run'.at = 1 /\ run'.cancelled = FALSE /\ run'.phase = p
  <2> HIDE DEF c, p
  <2> QED BY <1>2, <1>6, <1>7 DEF Runs
<1> HIDE DEF p
<1>9. Numbered' /\ CardAfterSteam'
  BY <1>7, WorldSettled, SettledNumbers DEF LInv
<1>10. InRecipe'
  BY <1>2, <1>8, RecipeLengths DEF InRecipe
<1>11. Reached' /\ FailedForTheCard' /\ (Calm' /\ run'.phase = "session" => built')
  BY <1>2, <1>8 DEF Reached, FailedForTheCard
<1> QED BY <1>8, <1>9, <1>10, <1>11 DEF Luck

LEMMA RestsLuck ==
  ASSUME run' = Rest, Numbered', CardAfterSteam' PROVE Luck'
<1>1. Rest.kind = "none" /\ Rest.cancelled = FALSE
  BY DEF Rest
<1> QED BY <1>1 DEF Luck, InRecipe, Reached, FailedForTheCard, Calm, Working, On

LEMMA EndsLuck ==
  ASSUME LInv, RunEnds \/ StartSession PROVE Luck'
<1>1. UNCHANGED <<box, conf, live, have, version>>
  BY DEF RunEnds, StartSession, machine, inside, daemon
<1>2. Numbered' /\ CardAfterSteam'
  BY <1>1 DEF LInv, Luck, Numbered, CardAfterSteam
<1>3. CASE run' = Rest
  BY <1>2, <1>3, RestsLuck
<1>4. CASE RunEnds /\ run' # Rest
  <2>1. /\ run' = [run EXCEPT !.phase = "session"] /\ run.ok
        /\ built' = (built \/ (run.kind = "build" /\ run.ok))
    BY <1>4 DEF RunEnds
  <2>2. Same /\ run'.phase = "session"
    BY <2>1, RunTyped, PhaseFields DEF Phase, LInv
  <2>3. run'.kind = "build" => built'
    BY <2>1, <2>2 DEF Same
  <2>4. run'.cancelled => run'.spoiled
    BY <2>2 DEF Same, LInv, Luck
  <2> QED BY <1>2, <2>2, <2>3, <2>4
          DEF Luck, InRecipe, Reached, FailedForTheCard, Calm, Working
<1> QED BY <1>3, <1>4 DEF StartSession

\* Trouble spoils a run.
LEMMA SpoiltLuck ==
  ASSUME LInv, run' \in Runs, run'.spoiled = TRUE, run'.kind = run.kind, run'.at = run.at,
         run'.phase = run.phase \/ run'.phase = "over", Numbered', CardAfterSteam'
  PROVE  Luck'
  BY DEF LInv, Luck, InRecipe, Reached, FailedForTheCard, Calm, Working, On

LEMMA TroubleLuck ==
  ASSUME LInv, Fails \/ Cancel \/ PowerOff \/ MirrorBreaks
  PROVE  Luck' /\ (On => run'.kind = run.kind)
<1>0. run \in Runs
  BY RunTyped DEF LInv
<1>1. Numbered' /\ CardAfterSteam'
  <2>1. UNCHANGED <<conf, live, have, version>>
    BY WorldSettled DEF Fails, Cancel, PowerOff, MirrorBreaks, world, machine, inside, daemon
  <2> QED BY <2>1 DEF LInv, Luck, Numbered, CardAfterSteam
<1>2. ASSUME run' = [Over(FALSE) EXCEPT !.spoiled = TRUE]
      PROVE  Luck' /\ run'.kind = run.kind
  <2> DEFINE r == Over(FALSE)
  <2>1. r \in Runs /\ r.phase = "over" /\ r.kind = run.kind
    BY <1>0, OverFields
  <2>2. run' = [r EXCEPT !.spoiled = TRUE]
    BY <1>2
  <2> HIDE DEF r
  <2>3. run'.spoiled = TRUE /\ run'.phase = "over" /\ run'.kind = run.kind
    BY <2>1, <2>2 DEF Runs
  <2> QED BY <1>1, <2>3 DEF Luck, InRecipe, Reached, FailedForTheCard, Calm, Working
<1>3. CASE Fails
  BY <1>2, <1>3 DEF Fails
<1>4. CASE MirrorBreaks
  <2>1. CASE run' = [run EXCEPT !.tries = @ + 1]
    <3>1. /\ Same /\ run'.at = run.at /\ run'.phase = run.phase
      BY <1>0, <2>1 DEF Runs, Same
    <3>2. Working /\ Settled
      BY <1>4, WorldSettled DEF MirrorBreaks
    <3>3. Calm /\ run.at > 1 => box' = "running" \/ (run.at = Card /\ run'.phase = "start")
      BY <3>1, <3>2 DEF LInv, Luck, Reached, Settled
    <3> QED BY <1>1, <3>1, <3>2, <3>3, LuckAtStep DEF Working, Same
  <2> QED BY <1>2, <1>4, <2>1 DEF MirrorBreaks
<1>5. CASE Cancel
  <2> DEFINE r == [run EXCEPT !.cancelled = TRUE]
  <2>1. r \in Runs /\ r.kind = run.kind /\ r.at = run.at /\ r.phase = run.phase
    BY <1>0 DEF Runs
  <2>2. run' = [r EXCEPT !.spoiled = TRUE]
    BY <1>5 DEF Cancel
  <2> HIDE DEF r
  <2>3. /\ run' \in Runs /\ run'.spoiled = TRUE /\ run'.kind = run.kind /\ run'.at = run.at
        /\ run'.phase = run.phase
    BY <2>1, <2>2 DEF Runs
  <2> QED BY <1>1, <2>3, SpoiltLuck
<1>6. CASE PowerOff
  <2>1. CASE On
    <3>1. run' = [run EXCEPT !.spoiled = TRUE]
      BY <1>6, <2>1 DEF PowerOff
    <3>2. /\ run' \in Runs /\ run'.spoiled = TRUE /\ run'.kind = run.kind /\ run'.at = run.at
          /\ run'.phase = run.phase
      BY <1>0, <3>1 DEF Runs
    <3> QED BY <1>1, <3>2, SpoiltLuck
  <2>2. CASE ~On
    <3>1. run' = run /\ run.kind = "none"
      BY <1>6, <2>2 DEF PowerOff, On
    <3> QED BY <1>1, <2>2, <3>1
            DEF LInv, Luck, InRecipe, Reached, FailedForTheCard, Calm, Working, On
  <2> QED BY <2>1, <2>2
<1> QED BY <1>2, <1>3, <1>4, <1>5, <1>6 DEF Same

LEMMA LivesLuck ==
  ASSUME LInv,
         \/ Upgrade \/ SettingChanges \/ SteamComes \/ SomebodyPlays \/ SteamLeaves
         \/ GameIsInstalled \/ UNCHANGED provisionVars
  PROVE  Luck' /\ run' = run
<1>1. CASE Upgrade
  <2>1. /\ version' = version + 1 /\ have' = have \ Moved /\ conf' = conf /\ live' = live
        /\ run' = run /\ run.kind = "none"
    BY <1>1 DEF Upgrade, machine, On
  <2>2. "steam" \notin Moved
    BY ProvisionPins DEF Pinned
  <2>3. Numbered' /\ CardAfterSteam'
    BY <2>1, <2>2 DEF LInv, Luck, Numbered, CardAfterSteam
  <2> QED BY <2>1, <2>3
          DEF LInv, Luck, InRecipe, Reached, FailedForTheCard, Calm, Working, On
<1>2. CASE ~Upgrade
  <2>1. Settled /\ run' = run
    BY <1>2, WorldSettled DEF SettingChanges, SteamComes, SomebodyPlays, SteamLeaves,
       GameIsInstalled, provisionVars, Settled, machine, inside, daemon
  <2>2. Numbered' /\ CardAfterSteam'
    BY <2>1, SettledNumbers DEF LInv
  <2> QED BY <2>1, <2>2
          DEF LInv, Luck, InRecipe, Reached, FailedForTheCard, Calm, Working, On, Settled
<1> QED BY <1>1, <1>2

LEMMA LuckInit == Init => LInv
<1>1. Init => Luck
  <2> SUFFICES ASSUME Init PROVE Luck
    OBVIOUS
  <2>1. run.kind = "none" /\ run.cancelled = FALSE
    BY DEF Init, Rest
  <2> QED BY <2>1 DEF Init, Luck, Numbered, CardAfterSteam, InRecipe, Reached,
                      FailedForTheCard, Calm, Working, On
<1> QED BY <1>1, InitInv DEF LInv

LEMMA LuckStep == LInv /\ [Next]_provisionVars => LInv'
<1> SUFFICES ASSUME LInv, [Next]_provisionVars PROVE Luck'
  BY StepInv DEF LInv
<1> QED BY GoesLuck, BeginsLuck, EndsLuck, TroubleLuck, LivesLuck DEF Next, Goes, Beside

\* Where a build ends, it has built the seat or met trouble or missed its card.
LEMMA BuildsEnd ==
  ASSUME LInv, [Next]_provisionVars, Undisturbed
  PROVE  built' \/ (box = "running" /\ live # conf)
<1>1. run.kind = "build" /\ run'.kind # run.kind /\ On /\ Calm
  BY DEF Undisturbed, On, Calm
<1>2. RunEnds \/ StartSession
  <2>1. ~Begins
    BY <1>1 DEF Begins, BeginBuild, BeginUpdate, BeginTools, SettingIsApplied, Start
  <2> QED BY <1>1, <2>1, GoesLuck, TroubleLuck, LivesLuck DEF Next, Beside, Same
<1>3. CASE RunEnds
  BY <1>1, <1>3 DEF RunEnds, LInv, Luck, FailedForTheCard
<1>4. CASE StartSession
  BY <1>1, <1>4 DEF StartSession, LInv, Luck, daemon
<1> QED BY <1>2, <1>3, <1>4

\* A build that met no failing call, no shutdown and no power-off ends with the
\* seat recorded as this version's, or with a container that runs without the
\* settings it was configured with: whatever earlier runs left behind, each step
\* of the recipe finds in the seat what it needs, since Run takes them in order.
THEOREM OnlyTrouble == Spec => OnlyTroubleFailsABuild
<1>1. LInv /\ [Next]_provisionVars
        => [Undisturbed => built' \/ (box = "running" /\ live # conf)]_provisionVars
  BY BuildsEnd
<1> QED BY <1>1, LuckInit, LuckStep, PTL DEF Spec, OnlyTroubleFailsABuild

-----------------------------------------------------------------------------
(* The Steam that was closed                                                *)

Counted == spent \in [trouble : Nat, changes : Nat]

LEMMA SpentInstalling ==
  ASSUME \/ AwaitGPU \/ Create \/ StepContainer \/ StepLocale \/ StepNetwork \/ StepPackages
         \/ StepSunshine \/ StepMangoHudShim \/ StepStevia \/ StepFaugus \/ StepHeroic
         \/ StepSteam \/ StepUser \/ StepFlatpak \/ StepGraphicsUserspace \/ StepSession
         \/ StepCredentials
  PROVE  spent' = spent
<1>1. ASSUME Passes PROVE spent' = spent
  BY <1>1 DEF Passes, world
<1>2. ASSUME NEW x, Leaves(x) PROVE spent' = spent
  BY <1>2 DEF Leaves
<1>3. ASSUME NEW x, InstallPinned(x) PROVE spent' = spent
  BY <1>1, <1>2, <1>3 DEF InstallPinned
<1>4. CASE StepSunshine \/ StepMangoHudShim \/ StepStevia \/ StepFaugus \/ StepHeroic
  BY <1>3, <1>4 DEF StepSunshine, StepMangoHudShim, StepStevia, StepFaugus, StepHeroic
<1>5. CASE AwaitGPU \/ Create \/ StepContainer
  BY <1>1, <1>5 DEF AwaitGPU, Create, StepContainer, world
<1>6. CASE StepLocale \/ StepNetwork \/ StepPackages \/ StepSteam \/ StepUser
  BY <1>2, <1>6 DEF StepLocale, StepNetwork, StepPackages, StepSteam, StepUser,
     EnsureManagement, EnsureMirrors, world
<1>7. CASE StepFlatpak \/ StepGraphicsUserspace \/ StepSession \/ StepCredentials
  BY <1>1, <1>2, <1>7 DEF StepFlatpak, StepGraphicsUserspace, StepSession, StepCredentials,
     SessionHome, SessionPrograms, SessionSettings, world
<1> QED BY <1>4, <1>5, <1>6, <1>7

LEMMA SpentOnWay ==
  ASSUME Goes, ~RunEnds PROVE spent' = spent
<1>1. ASSUME NEW t, ToolIsLookedUp(t) \/ ToolIsUnpacked(t) \/ ToolIsSwapped(t)
      PROVE  spent' = spent
  BY <1>1 DEF ToolIsLookedUp, ToolIsUnpacked, ToolIsSwapped, ToolNotTaken, world
<1>2. CASE StepProton \/ StepGEProton
  BY <1>1, <1>2 DEF StepProton, StepGEProton, StepSteamConfig, RemoveTool, Passes, world
<1>3. CASE StepGPU
  BY <1>3 DEF StepGPU, CardIsConfigured, BoxIsRestarted, CardIsLookedFor, world
<1>4. CASE StepLibrary
  BY <1>4 DEF StepLibrary, LibraryIsDetached, LibraryIsAttached, GamesAreCopied,
     GamesAreTakenOver, ShareLibrary, Passes, world
<1>5. CASE StepFails \/ StopsCancelled \/ StartSession
  BY <1>5 DEF StepFails, StopsCancelled, StartSession, world
<1>6. CASE SteamIsAsked \/ SteamIsToldToGo \/ SteamIsGone \/ SteamTakesLong
  BY <1>6 DEF SteamIsAsked, SteamIsToldToGo, SteamIsGone, SteamTakesLong, world
<1> QED BY <1>2, <1>3, <1>4, <1>5, <1>6, SpentInstalling DEF Goes, Install

LEMMA SpentOtherwise ==
  ASSUME RunEnds \/ Begins \/ Beside \/ UNCHANGED provisionVars
  PROVE  \/ spent' = spent
         \/ spent' = [spent EXCEPT !.trouble = @ + 1]
         \/ spent' = [spent EXCEPT !.changes = @ + 1]
<1>1. CASE RunEnds
  BY <1>1 DEF RunEnds, ResumeSteam
<1>2. CASE Begins
  BY <1>2 DEF Begins, BeginBuild, BeginUpdate, BeginTools, SettingIsApplied, Start, world
<1>3. CASE Beside
  BY <1>3 DEF Beside, Fails, MirrorBreaks, Cancel, PowerOff, Upgrade, SettingChanges,
     SteamComes, SomebodyPlays, SteamLeaves, GameIsInstalled, world
<1>4. CASE UNCHANGED provisionVars
  BY <1>4 DEF provisionVars, world
<1> QED BY <1>1, <1>2, <1>3, <1>4

LEMMA Counts == Spec => []Counted
<1>1. Init => Counted
  BY DEF Init, Counted
<1>2. Counted /\ [Next]_provisionVars => Counted'
  <2> SUFFICES ASSUME Counted, [Next]_provisionVars PROVE Counted'
    OBVIOUS
  <2>1. \/ spent' = spent
        \/ spent' = [spent EXCEPT !.trouble = @ + 1]
        \/ spent' = [spent EXCEPT !.changes = @ + 1]
    BY SpentOnWay, SpentOtherwise DEF Next
  <2> QED BY <2>1 DEF Counted
<1> QED BY <1>1, <1>2, PTL DEF Spec

\* A Steam that was seen to go is the run's to start, and off until it does.
Owing == left = "seen" => On /\ Resumes /\ run.closed /\ steam = "off"

\* What neither ends a run nor tells anything of Steam.
Held == /\ left' = left /\ (steam' = steam \/ steam' = "off")
        /\ run'.kind = run.kind /\ run'.closed = run.closed

LEMMA HeldOwing == Owing /\ Held => Owing'
  BY DEF Owing, Held, On, Resumes

LEMMA OverCloses ==
  ASSUME run \in Runs, NEW o \in BOOLEAN
  PROVE  Over(o) \in Runs /\ Over(o).kind = run.kind /\ Over(o).closed = run.closed
<1> DEFINE q == [run EXCEPT !.phase = "over"]
<1>1. q.closed = run.closed /\ q \in Runs
  BY DEF Runs, Phases
<1>2. Over(o) = [q EXCEPT !.ok = o]
  BY DEF Over
<1> HIDE DEF q
<1>3. Over(o).closed = q.closed
  BY <1>1, <1>2 DEF Runs
<1> QED BY <1>1, <1>3, OverIsARun

LEMMA SpoiledOverCloses ==
  ASSUME run \in Runs, run' = [Over(FALSE) EXCEPT !.spoiled = TRUE]
  PROVE  run'.kind = run.kind /\ run'.closed = run.closed
<1> DEFINE r == Over(FALSE)
<1>1. r \in Runs /\ r.kind = run.kind /\ r.closed = run.closed
  BY OverCloses
<1>2. run' = [r EXCEPT !.spoiled = TRUE]
  OBVIOUS
<1> HIDE DEF r
<1> QED BY <1>1, <1>2 DEF Runs

LEMMA PhaseCloses ==
  ASSUME run \in Runs, NEW p, Phase(p)
  PROVE  run'.kind = run.kind /\ run'.closed = run.closed
  BY DEF Phase, Runs

LEMMA GoCloses ==
  ASSUME run \in Runs, Go
  PROVE  run'.kind = run.kind /\ run'.closed = run.closed
<1> DEFINE a == [run EXCEPT !.at = run.at + 1]
           b == [a EXCEPT !.phase = "begin"]
<1>1. run.at + 1 \in Nat
  BY DEF Runs
<1>2. a \in Runs /\ a.kind = run.kind /\ a.closed = run.closed
  BY <1>1 DEF Runs
<1>3. b \in Runs /\ b.kind = run.kind /\ b.closed = run.closed
  <2> HIDE DEF a
  <2> QED BY <1>2 DEF Runs, Phases
<1>4. CASE run.at = Len(Recipe[run.kind])
  BY <1>4, OverCloses DEF Go
<1>5. CASE run.at # Len(Recipe[run.kind])
  <2>1. run' = [b EXCEPT !.tries = 0]
    BY <1>5 DEF Go
  <2> HIDE DEF b
  <2> QED BY <1>3, <2>1 DEF Runs
<1> QED BY <1>4, <1>5

LEMMA InstallingHolds ==
  ASSUME run \in Runs, Install
  PROVE  Held
<1>1. ASSUME NEW p, Phase(p), UNCHANGED left, steam' = steam \/ steam' = "off" PROVE Held
  BY <1>1, PhaseCloses DEF Held
<1>2. ASSUME Go, UNCHANGED left, steam' = steam PROVE Held
  BY <1>2, GoCloses DEF Held
<1>3. ASSUME Passes PROVE Held
  BY <1>2, <1>3 DEF Passes, world
<1>4. ASSUME NEW x, Leaves(x) PROVE Held
  BY <1>2, <1>4 DEF Leaves
<1>5. ASSUME NEW x, InstallPinned(x) PROVE Held
  BY <1>3, <1>4, <1>5 DEF InstallPinned
<1>6. ASSUME NEW t, ToolIsLookedUp(t) \/ ToolIsUnpacked(t) \/ ToolIsSwapped(t)
      PROVE  Held
  BY <1>1, <1>2, <1>6 DEF ToolIsLookedUp, ToolIsUnpacked, ToolIsSwapped, ToolNotTaken, world
<1>7. CASE StepSunshine \/ StepMangoHudShim \/ StepStevia \/ StepFaugus \/ StepHeroic
  BY <1>5, <1>7 DEF StepSunshine, StepMangoHudShim, StepStevia, StepFaugus, StepHeroic
<1>8. CASE AwaitGPU \/ Create \/ StepContainer
  <2>1. CASE run' = run /\ left' = left /\ steam' = steam
    BY <2>1 DEF Held
  <2> QED BY <1>1, <1>3, <1>8, <2>1 DEF AwaitGPU, Create, StepContainer, world
<1>9. CASE StepLocale \/ StepNetwork \/ StepPackages \/ StepSteam \/ StepUser
  BY <1>1, <1>4, <1>9 DEF StepLocale, StepNetwork, StepPackages, StepSteam, StepUser,
     EnsureManagement, EnsureMirrors, world
<1>10. CASE StepFlatpak \/ StepGraphicsUserspace \/ StepSession \/ StepCredentials
  BY <1>1, <1>3, <1>4, <1>10 DEF StepFlatpak, StepGraphicsUserspace, StepSession,
     StepCredentials, SessionHome, SessionPrograms, SessionSettings, world
<1>11. CASE StepProton \/ StepGEProton
  <2>1. CASE RemoveTool
    BY <1>1, <1>2, <1>3, <2>1 DEF RemoveTool, world
  <2>2. CASE StepSteamConfig
    BY <1>3, <2>2 DEF StepSteamConfig
  <2> QED BY <1>3, <1>6, <1>11, <2>1, <2>2 DEF StepProton, StepGEProton
<1>12. CASE StepGPU
  <2>1. CASE CardIsConfigured \/ BoxIsRestarted
    BY <1>1, <2>1 DEF CardIsConfigured, BoxIsRestarted
  <2>2. CASE CardIsLookedFor
    BY <1>2, <2>2, OverCloses DEF CardIsLookedFor, Held, world
  <2> QED BY <1>12, <2>1, <2>2 DEF StepGPU
<1>13. CASE StepLibrary
  BY <1>1, <1>2, <1>3, <1>13 DEF StepLibrary, LibraryIsDetached, LibraryIsAttached,
     GamesAreCopied, GamesAreTakenOver, ShareLibrary, world
<1> QED BY <1>7, <1>8, <1>9, <1>10, <1>11, <1>12, <1>13 DEF Install

\* Closing Steam, and the ends of a run.
LEMMA GoesOwing ==
  ASSUME run \in Runs, Counted, Owing, Goes
  PROVE  Owing'
<1>1. CASE Install
  BY <1>1, InstallingHolds, HeldOwing
<1>2. CASE StepFails \/ StopsCancelled
  <2>1. Held
    BY <1>2, OverCloses DEF StepFails, StopsCancelled, Held, world
  <2> QED BY <2>1, HeldOwing
<1>3. CASE SteamIsAsked \/ SteamTakesLong
  <2>1. Held
    BY <1>3, PhaseCloses DEF SteamIsAsked, SteamTakesLong, Held, world
  <2> QED BY <2>1, HeldOwing
<1>4. CASE SteamIsToldToGo
  <2>1. run'.kind = run.kind /\ run'.closed = run.closed
    BY <1>4, PhaseCloses DEF SteamIsToldToGo
  <2> QED BY <1>4, <2>1 DEF SteamIsToldToGo, Owing, On, Resumes
<1>5. CASE SteamIsGone
  <2>1. run'.kind = run.kind /\ run'.closed = TRUE /\ steam' = steam /\ steam = "off" /\ On
    <3> DEFINE r == [run EXCEPT !.closed = TRUE]
    <3>1. r \in Runs /\ r.kind = run.kind /\ r.closed = TRUE
      BY DEF Runs
    <3>2. run' = [r EXCEPT !.phase = "quiet"]
      BY <1>5 DEF SteamIsGone
    <3> HIDE DEF r
    <3>3. run'.kind = run.kind /\ run'.closed = TRUE
      BY <3>1, <3>2 DEF Runs
    <3> QED BY <1>5, <3>3 DEF SteamIsGone, Working
  <2> QED BY <1>5, <2>1 DEF SteamIsGone, Owing, On, Resumes
<1>6. CASE RunEnds
  <2> SUFFICES ASSUME left' = "seen" PROVE FALSE
    BY DEF Owing
  <2>1. left = "seen" /\ box = "running" /\ steam' # "idle" /\ spent' = spent
    BY <1>6 DEF RunEnds
  <2>2. Owed
    BY <2>1 DEF Owing, Owed
  <2>3. spent' = [spent EXCEPT !.trouble = @ + 1]
    BY <1>6, <2>1, <2>2 DEF RunEnds, ResumeSteam
  <2>4. spent.trouble \in Nat /\ spent'.trouble = spent.trouble + 1
    BY <2>3 DEF Counted
  <2>5. spent'.trouble = spent.trouble
    BY <2>1
  <2> QED BY <2>4, <2>5
<1>7. CASE StartSession
  BY <1>7 DEF StartSession, Owing
<1> QED BY <1>1, <1>2, <1>3, <1>4, <1>5, <1>6, <1>7 DEF Goes

\* What begins a run, and what happens beside it.
LEMMA OthersOwing ==
  ASSUME run \in Runs, Owing, Begins \/ Beside \/ UNCHANGED provisionVars
  PROVE  Owing'
<1>1. CASE Begins
  <2>1. ~On /\ left' = left
    BY <1>1 DEF Begins, BeginBuild, BeginUpdate, BeginTools, SettingIsApplied, Start, world
  <2> QED BY <2>1 DEF Owing
<1>2. CASE Fails \/ MirrorBreaks
  <2>1. left' = left /\ steam' = steam
    BY <1>2 DEF Fails, MirrorBreaks, world
  <2>2. run'.kind = run.kind /\ run'.closed = run.closed
    <3>1. CASE run' = [run EXCEPT !.tries = @ + 1]
      BY <3>1 DEF Runs
    <3> QED BY <1>2, <3>1, SpoiledOverCloses DEF Fails, MirrorBreaks
  <2> QED BY <2>1, <2>2, HeldOwing DEF Held
<1>3. CASE Cancel
  <2>1. run'.kind = run.kind /\ run'.closed = run.closed
    <3> DEFINE r == [run EXCEPT !.cancelled = TRUE]
    <3>1. r \in Runs /\ r.kind = run.kind /\ r.closed = run.closed
      BY DEF Runs
    <3>2. run' = [r EXCEPT !.spoiled = TRUE]
      BY <1>3 DEF Cancel
    <3> HIDE DEF r
    <3> QED BY <3>1, <3>2 DEF Runs
  <2> QED BY <1>3, <2>1, HeldOwing DEF Cancel, Held
<1>4. CASE PowerOff \/ SteamComes
  BY <1>4 DEF PowerOff, SteamComes, Owing
<1>5. CASE SomebodyPlays \/ SteamLeaves
  BY <1>5 DEF SomebodyPlays, SteamLeaves, Owing
<1>6. CASE Upgrade \/ SettingChanges \/ GameIsInstalled \/ UNCHANGED provisionVars
  <2>1. left' = left /\ steam' = steam /\ run' = run
    BY <1>6 DEF Upgrade, SettingChanges, GameIsInstalled, provisionVars, world
  <2> QED BY <2>1, HeldOwing DEF Held
<1> QED BY <1>1, <1>2, <1>3, <1>4, <1>5, <1>6 DEF Beside

\* Between two runs no Steam is owed a start: one that a build or a tools turn
\* has seen go, the run itself has started again or tried to, whether it was
\* through, failed or was cancelled, and whatever happened to the seat and its
\* Steam since it was closed (ResumeSteam, deferred by Run, and detached).
THEOREM SteamComesBack == Spec => []NoSteamIsOwed
<1>1. Init => Owing
  BY DEF Init, Owing
<1>2. IInv /\ Counted /\ Owing /\ [Next]_provisionVars => Owing'
  BY RunTyped, GoesOwing, OthersOwing DEF Next
<1>3. Owing => NoSteamIsOwed
  BY DEF Owing, NoSteamIsOwed
<1> QED BY <1>1, <1>2, <1>3, Counts, Inductive, PTL DEF Spec
=============================================================================
