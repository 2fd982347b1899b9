------------------------- MODULE InstallationProofs -------------------------
(***************************************************************************)
(* Theorems about Service.tla and Installation.tla, for any goroutines,    *)
(* commands and keys.  That no task or handler sends a request without the *)
(* API key rests on where Execute is when something can be at work: past   *)
(* the start of the scheduler the key and the client are open until        *)
(* Execute returns, and it returns with such goroutines behind it only     *)
(* after it has cancelled.  Consolidations, which have a context of their  *)
(* own, are outside of that, and bare may only have these in it.  That     *)
(* config.json keeps the owner of the service, and that a service is       *)
(* registered only when all it needs is in place, rest on the scripts of   *)
(* the commands: what is left to a command tells what it has done.         *)
(***************************************************************************)
EXTENDS Installation, TLAPS

-----------------------------------------------------------------------------
(* Requests *)

\* Nothing is at work before the scheduler is started, nor the pipe open.
Inert ==
    at <= 6 => /\ ~polling /\ ~Open("pipe")
               /\ \A g \in Goroutines : work[g] = "none"

\* What requests are made with.
InUse ==
    /\ at \in 3..9 => Open("key")
    /\ at \in 6..9 => Open("client")

\* What may still go on when Execute returns is cancelled, but for consolidations.
Told ==
    /\ at = 10 /\ (polling \/ Open("pipe")) => cancelled
    /\ \A w \in Workers : at = 10 /\ work[w] # "none" => cancelled

\* A request with the zeros of a closed client has no context to be sent in.
Held == \A w \in Workers : work[w] = "bare" => cancelled

ServiceIInv == ServiceTypeOK /\ Inert /\ InUse /\ Told /\ Held /\ RequestsCarryKey

LEMMA Positions == Serving = 9 /\ Returning = 10 /\ DOMAIN Startup = 1..8 /\ Len(Startup) = 8
BY DEF Serving, Returning, Startup

LEMMA Names ==
    /\ Startup[1] = "config" /\ Startup[2] = "key" /\ Startup[3] = "database"
    /\ Startup[4] = "memory" /\ Startup[5] = "client" /\ Startup[6] = "scheduler"
    /\ Startup[7] = "pipe" /\ Startup[8] = "report"
BY DEF Startup

\* A part deferred is open, and what was open stays so.
LEMMA Defer ==
    ASSUME NEW S, NEW s \in Seq(S), NEW e \in S
    PROVE  /\ Append(s, e) \in Seq(S)
           /\ Range(Append(s, e)) = Range(s) \cup {e}
<1> DEFINE a == Append(s, e)
<1>1. a \in Seq(S) /\ DOMAIN a = DOMAIN s \cup {Len(s) + 1}
  OBVIOUS
<1>2. a[Len(s) + 1] = e /\ \A i \in DOMAIN s : a[i] = s[i]
  OBVIOUS
<1> HIDE DEF a
<1>3. Range(a) = Range(s) \cup {e}
  BY <1>1, <1>2 DEF Range
<1> QED
  BY <1>1, <1>3 DEF a

\* A deferred call that runs opens nothing.
LEMMA RunOne ==
    ASSUME NEW S, NEW s \in Seq(S), s # <<>>
    PROVE  Front(s) \in Seq(S) /\ Range(Front(s)) \subseteq Range(s)
<1> DEFINE f == Front(s)
<1>1. f \in Seq(S) /\ DOMAIN f \subseteq DOMAIN s
  BY DEF Front
<1>2. \A i \in DOMAIN f : f[i] = s[i]
  BY DEF Front
<1> HIDE DEF f
<1>3. Range(f) \subseteq Range(s)
  BY <1>1, <1>2 DEF Range
<1> QED
  BY <1>1, <1>3 DEF f

Parts == {"context"} \cup Deferring

LEMMA InitEstablishes == InstallationInit => ServiceIInv
<1> SUFFICES ASSUME ServiceInit PROVE ServiceIInv
  BY DEF InstallationInit
<1>1. ServiceTypeOK
  <2>1. defers \in Seq(Parts) /\ at \in 0..Returning
    BY Positions DEF ServiceInit
  <2>2. work \in [Goroutines -> {"none", "busy", "keyed", "bare", "over"}]
    BY DEF ServiceInit
  <2> QED
    BY <2>1, <2>2 DEF ServiceInit, ServiceTypeOK, Parts
<1>2. ~Open("pipe")
  BY DEF ServiceInit, Open, Range
<1> QED
  BY <1>1, <1>2, Positions
     DEF ServiceInit, ServiceIInv, Inert, InUse, Told, Held, RequestsCarryKey, Goroutines

\* A process that is gone, or has just begun, has nothing at work.
LEMMA ProcessPreserves ==
    ASSUME ServiceIInv, ProcessGone \/ ProcessRestarted, UNCHANGED bare,
           scm' \in {"absent", "stopped", "starting", "running", "stopping"}
    PROVE  ServiceIInv'
<1>1. /\ at' \in {0, 1} /\ stopAsked' = FALSE /\ cancelled' = FALSE /\ polling' = FALSE
      /\ defers' \in {<<>>, <<"context">>}
      /\ work' = [g \in Goroutines |-> "none"]
  BY DEF ProcessGone, ProcessRestarted, NothingKept
<1>2. ~Open("pipe")'
  BY <1>1 DEF Open, Range
<1>3. ServiceTypeOK'
  <2>1. defers' \in Seq(Parts)
    <3>1. <<>> \in Seq(Parts) /\ <<"context">> \in Seq(Parts)
      BY DEF Parts
    <3> QED
      BY <1>1, <3>1
  <2>2. at' \in 0..Returning
    BY <1>1, Positions
  <2>3. work' \in [Goroutines -> {"none", "busy", "keyed", "bare", "over"}]
    BY <1>1
  <2>4. bare' \subseteq Goroutines
    BY DEF ServiceIInv, ServiceTypeOK
  <2> QED
    BY <1>1, <2>1, <2>2, <2>3, <2>4 DEF ServiceTypeOK, Parts
<1> QED
  BY <1>1, <1>2, <1>3 DEF ServiceIInv, Inert, InUse, Told, Held, RequestsCarryKey, Goroutines

\* Execute starts: the key and the client are deferred before the scheduler.
LEMMA StartPreserves ==
    ASSUME ServiceIInv, NEW i \in DOMAIN Startup,
           Passes(Startup[i]) \/ NoPipe \/ StartFails(Startup[i])
    PROVE  ServiceIInv'
<1> USE Positions, Names DEF ServiceIInv
<1>1. defers \in Seq(Parts)
  BY DEF ServiceTypeOK, Parts
<1>2. CASE Passes(Startup[i])
  <2>1. at \in 1..8 /\ at' = at + 1
    BY <1>2 DEF Passes
  <2>2. /\ defers' \in Seq(Parts)
        /\ Range(defers') = IF Startup[at] \in Deferring
                            THEN Range(defers) \cup {Startup[at]}
                            ELSE Range(defers)
    <3>1. CASE Startup[at] \in Deferring
      BY <1>1, <1>2, <3>1, Defer DEF Passes, Parts
    <3>2. CASE Startup[at] \notin Deferring
      BY <1>1, <1>2, <3>2 DEF Passes
    <3> QED
      BY <3>1, <3>2
  <2>3. /\ polling' = (polling \/ at = 6)
        /\ UNCHANGED <<stopAsked, cancelled, work, bare>>
    BY <1>2, <2>1 DEF Passes
  <2>4. ServiceTypeOK'
    BY <1>2, <2>1, <2>2 DEF Passes, ServiceTypeOK, Parts
  <2>5. Inert'
    <3> SUFFICES ASSUME at <= 5 PROVE (~polling /\ ~Open("pipe") /\ \A g \in Goroutines : work[g] = "none")'
      BY <2>1 DEF Inert
    <3>1. ~Open("pipe")'
      BY <2>1, <2>2 DEF Inert, Open, Deferring
    <3>2. at <= 6 /\ at # 6
      BY <2>1
    <3>3. ~polling'
      BY <2>3, <3>2 DEF Inert
    <3>4. \A g \in Goroutines : work'[g] = "none"
      BY <2>3, <3>2 DEF Inert
    <3> QED
      BY <3>1, <3>3, <3>4
  <2>6. InUse'
    <3>1. Open("key")' \/ at \notin 2..8
      BY <2>1, <2>2 DEF InUse, Open, Deferring
    <3>2. Open("client")' \/ at \notin 5..8
      BY <2>1, <2>2 DEF InUse, Open, Deferring
    <3> QED
      BY <2>1, <3>1, <3>2 DEF InUse
  <2> QED
    BY <2>1, <2>3, <2>4, <2>5, <2>6 DEF Told, Held, RequestsCarryKey
<1>3. CASE NoPipe
  BY <1>3 DEF NoPipe, ServiceTypeOK, Inert, InUse, Open, Told, Held, RequestsCarryKey
<1>4. CASE StartFails(Startup[i])
  <2>1. at \in 1..4 /\ at' = 10
    BY <1>4 DEF StartFails, Fallible
  <2>2. UNCHANGED <<stopAsked, defers, cancelled, polling, work, bare>> /\ scm' = "stopped"
    BY <1>4 DEF StartFails
  <2>3. ServiceTypeOK'
    BY <2>1, <2>2 DEF ServiceTypeOK
  <2>4. \A w \in Workers : work[w] = "none"
    BY <2>1 DEF Inert, Goroutines
  <2>5. ~polling /\ ~Open("pipe")
    BY <2>1 DEF Inert
  <2> QED
    BY <2>1, <2>2, <2>3, <2>4, <2>5 DEF Inert, InUse, Open, Told, Held, RequestsCarryKey
<1> QED
  BY <1>2, <1>3, <1>4

\* Execute stops: it cancels before the first deferred call, which may then
\* zero the key under the goroutines.
LEMMA StopPreserves ==
    ASSUME ServiceIInv, ReceivesStop \/ RunsDeferred
    PROVE  ServiceIInv'
<1> USE Positions DEF ServiceIInv
<1>1. defers \in Seq(Parts)
  BY DEF ServiceTypeOK, Parts
<1>2. CASE ReceivesStop
  <2>1. /\ at = 9 /\ at' = 10 /\ cancelled' = TRUE /\ stopAsked' = FALSE /\ scm' = "stopping"
        /\ UNCHANGED <<defers, polling, work, bare>>
    BY <1>2 DEF ReceivesStop, AfterStop, StopCancels
  <2>2. at' \in 0..Returning
    BY <2>1
  <2>3. ServiceTypeOK'
    BY <2>1, <2>2 DEF ServiceTypeOK
  <2> QED
    BY <2>1, <2>3 DEF Inert, InUse, Told, Held, RequestsCarryKey
<1>3. CASE RunsDeferred
  <2>1. /\ at = 10 /\ at' = 10 /\ (cancelled => cancelled') /\ cancelled' \in BOOLEAN
        /\ UNCHANGED <<scm, stopAsked, polling, work, bare>>
    BY <1>3 DEF RunsDeferred, ServiceTypeOK
  <2>2. defers' \in Seq(Parts) /\ Range(defers') \subseteq Range(defers)
    BY <1>1, <1>3, RunOne DEF RunsDeferred
  <2>3. ServiceTypeOK'
    BY <2>1, <2>2 DEF ServiceTypeOK, Parts
  <2> QED
    BY <2>1, <2>2, <2>3 DEF Inert, InUse, Open, Told, Held, RequestsCarryKey
<1> QED
  BY <1>2, <1>3

\* The goroutines: a task or a handler that is at work once Execute returns has a
\* context that is cancelled, and what it sends before has the key.
LEMMA WorkPreserves ==
    ASSUME ServiceIInv, Works
    PROVE  ServiceIInv'
<1> USE Positions, ServiceAssumption DEF ServiceIInv, ServiceAssumption, Goroutines, Workers
<1>1. /\ UNCHANGED <<scm, stopAsked, at, defers, cancelled>>
      /\ at \in 0..10
  BY DEF Works, TaskBegins, HandlerBegins, PollingEnds, LeavesBehind, Builds, Sends, WorkEnds,
         ServiceTypeOK
<1>2. ASSUME NEW w \in Workers, polling \/ Open("pipe"), UNCHANGED <<polling, bare>>,
             work' = [work EXCEPT ![w] = "busy"]
      PROVE  ServiceIInv'
  <2>1. at \notin 0..6 /\ (at = 10 => cancelled)
    BY <1>1, <1>2 DEF Inert, Told
  <2>2. ServiceTypeOK'
    BY <1>1, <1>2 DEF ServiceTypeOK
  <2> QED
    BY <1>1, <1>2, <2>1, <2>2 DEF ServiceTypeOK, Inert, InUse, Open, Told, Held, RequestsCarryKey
<1>3. ASSUME NEW w \in Workers, Builds(w) \/ Sends(w) \/ WorkEnds(w)
      PROVE  ServiceIInv'
  <2>1. /\ work[w] # "none" /\ UNCHANGED polling
        /\ at \notin 0..6 /\ (at = 10 => cancelled)
    BY <1>1, <1>3 DEF Builds, Sends, WorkEnds, Inert, Told
  <2>2. bare' = bare
    BY <1>3 DEF Builds, Sends, WorkEnds, CancelledFor, Held
  <2>3. PICK d \in {"none", "busy", "keyed", "bare"} :
            work' = [work EXCEPT ![w] = d] /\ (d = "bare" => cancelled)
    BY <1>1, <1>3, <2>1 DEF Builds, Sends, WorkEnds, InUse
  <2>4. ServiceTypeOK'
    BY <1>1, <2>1, <2>2, <2>3 DEF ServiceTypeOK
  <2> QED
    BY <1>1, <2>1, <2>2, <2>3, <2>4 DEF ServiceTypeOK, Inert, InUse, Open, Told, Held, RequestsCarryKey
<1>4. ASSUME NEW c \in Behind, Builds(c) \/ Sends(c) \/ WorkEnds(c)
      PROVE  ServiceIInv'
  <2>1. work[c] # "none" /\ UNCHANGED polling /\ at \notin 0..6
    BY <1>1, <1>4 DEF Builds, Sends, WorkEnds, Inert
  <2>2. bare' \subseteq bare \cup {c} /\ c \notin Workers
    BY <1>4 DEF Builds, Sends, WorkEnds
  <2>3. PICK d \in {"none", "busy", "keyed", "bare"} : work' = [work EXCEPT ![c] = d]
    BY <1>4 DEF Builds, Sends, WorkEnds
  <2>4. ServiceTypeOK'
    BY <1>1, <2>1, <2>2, <2>3 DEF ServiceTypeOK
  <2>5. \A w \in Workers : work'[w] = work[w]
    BY <2>2, <2>3 DEF ServiceTypeOK
  <2> QED
    BY <1>1, <2>1, <2>2, <2>4, <2>5 DEF Inert, InUse, Open, Told, Held, RequestsCarryKey
<1>5. ASSUME NEW w \in Workers, NEW c \in Behind, LeavesBehind(w, c)
      PROVE  ServiceIInv'
  <2>1. /\ work[w] = "busy" /\ UNCHANGED <<polling, bare>>
        /\ work' = [work EXCEPT ![w] = "over", ![c] = "busy"]
    BY <1>5 DEF LeavesBehind
  <2>2. at \notin 0..6
    BY <1>1, <2>1 DEF Inert
  <2>3. ServiceTypeOK'
    BY <1>1, <2>1 DEF ServiceTypeOK
  <2>4. \A v \in Workers : (work'[v] # "none" => work[v] # "none") /\ (work'[v] = "bare" => work[v] = "bare")
    BY <2>1 DEF ServiceTypeOK
  <2> QED
    BY <1>1, <2>1, <2>2, <2>3, <2>4 DEF Inert, InUse, Open, Told, Held, RequestsCarryKey
<1>6. CASE PollingEnds
  <2>1. polling' = FALSE /\ UNCHANGED <<work, bare>>
    BY <1>6 DEF PollingEnds
  <2>2. ServiceTypeOK'
    BY <1>1, <2>1 DEF ServiceTypeOK
  <2> QED
    BY <1>1, <2>1, <2>2 DEF Inert, InUse, Open, Told, Held, RequestsCarryKey
<1> QED
  BY <1>2, <1>3, <1>4, <1>5, <1>6 DEF Works, TaskBegins, HandlerBegins

\* What else happens to the service is in the eyes of the manager.
LEMMA ServicePreserves == ServiceIInv /\ [Next]_vars => ServiceIInv'
<1> SUFFICES ASSUME ServiceIInv, [Next]_vars PROVE ServiceIInv'
  OBVIOUS
<1> DEFINE Same == UNCHANGED <<at, defers, cancelled, polling, work, bare>>
           States == {"absent", "stopped", "starting", "running", "stopping"}
<1>1. ASSUME Same, scm' \in States, stopAsked' \in BOOLEAN
      PROVE  ServiceIInv'
  <2>1. ServiceTypeOK'
    BY <1>1 DEF ServiceIInv, ServiceTypeOK
  <2> QED
    BY <1>1, <2>1 DEF ServiceIInv, Inert, InUse, Open, Told, Held, RequestsCarryKey
<1>2. scm \in States /\ stopAsked \in BOOLEAN
  BY DEF ServiceIInv, ServiceTypeOK
<1>3. ASSUME UNCHANGED serviceVars PROVE ServiceIInv'
  BY <1>1, <1>2, <1>3 DEF serviceVars
<1>4. ASSUME NEW c \in Clis, NEW cmd \in Commands, Begins(c, cmd) PROVE ServiceIInv'
  BY <1>3, <1>4 DEF Begins
<1>5. ASSUME NEW c \in Clis, Dies(c) PROVE ServiceIInv'
  BY <1>3, <1>5 DEF Dies
<1>6. CASE FileStep
  BY <1>3, <1>6 DEF FileStep
<1>7. ASSUME NEW c \in Clis, Registers(c) \/ Starts(c) \/ Stops(c) \/ StopsFirst(c) \/ Deletes(c)
      PROVE  ServiceIInv'
  <2>1. CASE Starts(c)
    BY <2>1, ProcessPreserves DEF Starts, Launched
  <2>2. CASE Registers(c) \/ Stops(c) \/ StopsFirst(c) \/ Deletes(c)
    <3>1. Same /\ scm' \in States /\ stopAsked' \in BOOLEAN
      BY <1>2, <2>2 DEF Registers, Stops, StopsFirst, Deletes, AsksStop, serviceVars
    <3> QED
      BY <1>1, <3>1
  <2> QED
    BY <1>7, <2>1, <2>2
<1>8. CASE StartStep
  <2>1. PICK i \in DOMAIN Startup : Passes(Startup[i]) \/ NoPipe \/ StartFails(Startup[i])
    BY <1>8, Positions DEF StartStep, StartPasses, StartStops
  <2> QED
    BY <2>1, StartPreserves
<1>9. CASE RunStep
  <2>1. CASE ProcessEnds
    BY <1>2, <2>1, ProcessPreserves DEF ProcessEnds
  <2> QED
    BY <1>9, <2>1, StopPreserves DEF RunStep, Execute
<1>10. CASE WorkStep
  <2>1. CASE ProcessDies
    BY <1>2, <2>1, ProcessPreserves DEF ProcessDies
  <2> QED
    BY <1>10, <2>1, WorkPreserves DEF WorkStep
<1>11. CASE Removed
  BY <1>1, <1>2, <1>11 DEF Removed
<1>12. CASE Boot
  BY <1>12, ProcessPreserves DEF Boot
<1>13. CASE UNCHANGED vars
  BY <1>3, <1>13 DEF vars
<1> QED
  BY <1>4, <1>5, <1>6, <1>7, <1>8, <1>9, <1>10, <1>11, <1>12, <1>13 DEF Next, ControlStep

\* No task and no handler sends a request without the API key: the deferred calls
\* zero it under goroutines nobody waits for, and the cancelled context holds
\* these back.  It does not hold back the consolidations they leave behind.
THEOREM Keyed == Spec => []RequestsCarryKey
<1>1. ServiceIInv => RequestsCarryKey
  BY DEF ServiceIInv
<1> QED
  BY <1>1, InitEstablishes, ServicePreserves, PTL DEF Spec

-----------------------------------------------------------------------------
(* The owner in config.json.  A command that writes it has loaded it first, *)
(* and renames only what it has just written, if no other writes meanwhile. *)

Writers  == {"setup", "install"}
TmpSteps == {"open_tmp", "fill_tmp", "rename_tmp"}
Steps    == TmpSteps \cup
    {"load_config", "store_key", "read_key", "lock_directory", "open_key_file",
     "fill_key_file", "lock_key_file", "grant_directory", "set_owner", "register",
     "start", "stop", "stop_first", "delete"}

\* A script loads the configuration first if at all, and renames the file it
\* has filled.
Ordered(s) ==
    \A i \in 2..Len(s) :
        s[i] # "load_config" /\ (s[i] = "rename_tmp" => s[i - 1] = "fill_tmp")

Writes(s) == \E i \in 1..Len(s) : s[i] \in TmpSteps

Processes ==
    [cmd : Commands \cup {"none"}, steps : Seq(Steps), owner : BOOLEAN, key : Keys \cup {"none"}]

\* What a command knows of the owner, and what it is about to rename.
Holds(c) ==
    LET p == cli[c]
    IN  /\ Ordered(p.steps)
        /\ Writes(p.steps) => p.cmd \in Writers
        /\ p.cmd \in Writers /\ ~At(c, "load_config") /\ config = "owned" => p.owner
        /\ At(c, "rename_tmp") => tmp = IF p.owner THEN "owned" ELSE "plain"

OwnerIInv ==
    /\ secret \in Keys \cup {"none"}
    /\ cli \in [Clis -> Processes]
    /\ \A c \in Clis : Holds(c)
    /\ \A c, d \in Clis : cli[c].cmd \in Writers /\ cli[d].cmd \in Writers => c = d

LEMMA Joined ==
    ASSUME NEW s \in Seq(Steps), NEW t \in Seq(Steps), Ordered(s), Ordered(t), t # <<>>,
           t[1] # "load_config", t[1] # "rename_tmp"
    PROVE  /\ s \o t \in Seq(Steps) /\ Ordered(s \o t) /\ s \o t # <<>>
           /\ Len(s \o t) = Len(s) + Len(t) /\ (s # <<>> => (s \o t)[1] = s[1])
<1> DEFINE j == s \o t
<1>1. /\ j \in Seq(Steps) /\ Len(j) = Len(s) + Len(t)
      /\ \A i \in 1..Len(s) : j[i] = s[i]
      /\ \A i \in Len(s) + 1 .. Len(j) : j[i] = t[i - Len(s)]
  OBVIOUS
<1>2. Len(s) \in Nat /\ Len(t) \in Nat
  OBVIOUS
<1> HIDE DEF j
<1>3. ASSUME NEW i \in 2..Len(j)
      PROVE  j[i] # "load_config" /\ (j[i] = "rename_tmp" => j[i - 1] = "fill_tmp")
  <2>1. CASE i <= Len(s)
    <3>1. i \in 2..Len(s) /\ i \in 1..Len(s) /\ i - 1 \in 1..Len(s)
      BY <1>2, <2>1
    <3>2. j[i] = s[i] /\ j[i - 1] = s[i - 1]
      BY <1>1, <3>1
    <3> QED
      BY <3>1, <3>2 DEF Ordered
  <2>2. CASE i = Len(s) + 1
    BY <1>1, <1>2, <2>2
  <2>3. CASE i > Len(s) + 1
    <3> DEFINE k == i - Len(s)
    <3>1. k \in 2..Len(t) /\ k - 1 = i - 1 - Len(s)
      BY <1>1, <1>2, <2>3
    <3>2. i \in Len(s) + 1 .. Len(j) /\ i - 1 \in Len(s) + 1 .. Len(j)
      BY <1>1, <1>2, <2>3
    <3>3. j[i] = t[k]
      BY <1>1, <3>2
    <3>4. j[i - 1] = t[i - 1 - Len(s)]
      BY <1>1, <3>2
    <3> HIDE DEF k
    <3> QED
      BY <3>1, <3>3, <3>4 DEF Ordered
  <2> QED
    BY <1>1, <1>2, <2>1, <2>2, <2>3
<1>4. s # <<>> => j[1] = s[1]
  BY <1>1, <1>2
<1>5. j # <<>>
  BY DEF j
<1> QED
  BY <1>1, <1>3, <1>4, <1>5 DEF Ordered, j

\* The scripts are of that kind, and begin by loading the configuration.
LEMMA Scripts ==
    ASSUME NEW cmd \in Commands
    PROVE  /\ Script[cmd] \in Seq(Steps) /\ Script[cmd] # <<>>
           /\ Script[cmd][1] = "load_config"
           /\ Ordered(Script[cmd])
           /\ Writes(Script[cmd]) => cmd \in Writers
<1>1. /\ Ready \in Seq(Steps) /\ Ordered(Ready) /\ ~Writes(Ready)
      /\ Len(Ready) = 3 /\ Ready # <<>> /\ Ready[1] = "load_config"
  <2>1. Ready \in Seq(Steps)
    BY DEF Ready, Steps
  <2> QED
    BY <2>1 DEF Ready, Ordered, Writes, TmpSteps
<1>2. Save \in Seq(Steps) /\ Ordered(Save) /\ Len(Save) = 3 /\ Save # <<>> /\ Save[1] = "open_tmp"
  <2>1. Save \in Seq(Steps)
    BY DEF Save, Steps, TmpSteps
  <2> QED
    BY <2>1 DEF Save, Ordered
<1>3. CASE cmd \in {"terminal", "start", "stop", "uninstall"}
  <2>1. CASE cmd = "terminal"
    <3>1. Script[cmd] = Ready
      BY <2>1 DEF Script
    <3> QED
      BY <1>1, <3>1
  <2>2. ASSUME NEW s, s = <<"load_config", "start">> \/ s = <<"load_config", "stop">>
        PROVE  s \in Seq(Steps) /\ s # <<>> /\ s[1] = "load_config" /\ Ordered(s) /\ ~Writes(s)
    <3>1. <<"load_config", "start">> \in Seq(Steps) /\ <<"load_config", "stop">> \in Seq(Steps)
      BY DEF Steps
    <3>2. s \in Seq(Steps)
      BY <2>2, <3>1
    <3>3. s # <<>> /\ Len(s) = 2 /\ s[1] = "load_config" /\ s[2] \in {"start", "stop"}
      BY <2>2
    <3> QED
      BY <3>2, <3>3 DEF Ordered, Writes, TmpSteps
  <2>3. ASSUME NEW s, s = <<"load_config", "stop_first", "delete">>
        PROVE  s \in Seq(Steps) /\ s # <<>> /\ s[1] = "load_config" /\ Ordered(s) /\ ~Writes(s)
    <3>1. s \in Seq(Steps)
      BY <2>3 DEF Steps
    <3> QED
      BY <2>3, <3>1 DEF Ordered, Writes, TmpSteps
  <2> QED
    BY <1>3, <2>1, <2>2, <2>3 DEF Script
<1>4. CASE cmd = "setup"
  <2> DEFINE s == <<"load_config", "store_key", "lock_directory">>
  <2>1. s \in Seq(Steps) /\ Ordered(s) /\ s[1] = "load_config" /\ Len(s) = 3
    <3>1. s \in Seq(Steps)
      BY DEF Steps
    <3> QED
      BY <3>1 DEF Ordered
  <2> HIDE DEF s
  <2>2. s \o Save \in Seq(Steps) /\ Ordered(s \o Save)
    BY <1>2, <2>1, Joined
  <2>3. (s \o Save)[1] = "load_config" /\ s \o Save # <<>>
    BY <1>2, <2>1
  <2>4. Script["setup"] = s \o Save
    BY DEF Script, s
  <2> QED
    BY <1>4, <2>2, <2>3, <2>4 DEF Writers
<1>5. CASE cmd = "install"
  <2> DEFINE s == <<"open_key_file", "fill_key_file", "lock_key_file", "grant_directory", "set_owner">>
             r == <<"register">>
  <2>1. s \in Seq(Steps) /\ Ordered(s) /\ s[1] = "open_key_file" /\ s # <<>> /\ Len(s) = 5
    <3>1. s \in Seq(Steps)
      BY DEF Steps
    <3> QED
      BY <3>1 DEF Ordered
  <2>2. r \in Seq(Steps) /\ Ordered(r) /\ r[1] = "register" /\ r # <<>>
    <3>1. r \in Seq(Steps)
      BY DEF Steps
    <3> QED
      BY <3>1 DEF Ordered
  <2>3. Script["install"] = Ready \o s \o Save \o r
    BY DEF Script, InstallSteps
  <2> HIDE DEF s, r
  <2> DEFINE a == Ready \o s
             b == a \o Save
             all == b \o r
  <2>4. a \in Seq(Steps) /\ Ordered(a) /\ Len(a) = 8 /\ a[1] = "load_config" /\ a # <<>>
    <3>1. /\ a \in Seq(Steps) /\ Ordered(a) /\ a # <<>>
          /\ Len(a) = Len(Ready) + Len(s) /\ a[1] = Ready[1]
      BY <1>1, <2>1, Joined
    <3> QED
      BY <1>1, <2>1, <3>1
  <2> HIDE DEF a
  <2>5. b \in Seq(Steps) /\ Ordered(b) /\ b # <<>> /\ b[1] = "load_config"
    BY <1>2, <2>4, Joined
  <2> HIDE DEF b
  <2>6. all \in Seq(Steps) /\ Ordered(all) /\ all # <<>> /\ all[1] = "load_config"
    BY <2>2, <2>5, Joined
  <2>7. Script["install"] = all
    BY <2>3 DEF a, b
  <2> QED
    BY <1>5, <2>6, <2>7 DEF Writers
<1> QED
  BY <1>3, <1>4, <1>5 DEF Commands

\* What follows the first step of a script is a script of the same kind.
LEMMA Rest ==
    ASSUME NEW s \in Seq(Steps), s # <<>>, Len(s) # 1, Ordered(s)
    PROVE  /\ Tail(s) \in Seq(Steps) /\ Tail(s) # <<>> /\ Ordered(Tail(s))
           /\ Tail(s)[1] # "load_config"
           /\ Tail(s)[1] = "rename_tmp" => s[1] = "fill_tmp"
           /\ Writes(Tail(s)) => Writes(s)
<1> DEFINE t == Tail(s)
<1>1. Len(s) \in Nat /\ Len(s) >= 2
  <2> DEFINE n == Len(s)
  <2>1. n \in Nat /\ n # 0
    OBVIOUS
  <2>2. n # 1
    OBVIOUS
  <2> HIDE DEF n
  <2>3. n \in Nat /\ n >= 2
    BY <2>1, <2>2
  <2> QED
    BY <2>3 DEF n
<1>2. t \in Seq(Steps) /\ Len(t) = Len(s) - 1
  BY <1>1
<1>3. \A i \in 1..Len(t) : t[i] = s[i + 1]
  BY <1>1
<1> HIDE DEF t
<1>4. t # <<>>
  BY <1>1, <1>2
<1>5. t[1] = s[2] /\ 2 \in 2..Len(s) /\ 2 - 1 = 1
  BY <1>1, <1>2, <1>3
<1>6. ASSUME NEW i \in 2..Len(t)
      PROVE  t[i] # "load_config" /\ (t[i] = "rename_tmp" => t[i - 1] = "fill_tmp")
  <2>1. i \in 1..Len(t) /\ i - 1 \in 1..Len(t) /\ i + 1 \in 2..Len(s) /\ i - 1 + 1 = i /\ i + 1 - 1 = i
    BY <1>1, <1>2
  <2>2. t[i] = s[i + 1] /\ t[i - 1] = s[i]
    BY <1>3, <2>1
  <2> QED
    BY <2>1, <2>2 DEF Ordered
<1>7. ASSUME NEW i \in 1..Len(t), t[i] \in TmpSteps PROVE Writes(s)
  <2>1. i + 1 \in 1..Len(s)
    BY <1>1, <1>2
  <2> QED
    BY <1>3, <1>7, <2>1 DEF Writes
<1> QED
  BY <1>2, <1>4, <1>5, <1>6, <1>7 DEF Ordered, Writes, t

LEMMA IdleHolds ==
    /\ Idle \in Processes
    /\ Idle.cmd = "none" /\ Idle.steps = <<>>
    /\ Ordered(<<>>) /\ ~Writes(<<>>)
<1>1. <<>> \in Seq(Steps)
  OBVIOUS
<1> QED
  BY <1>1 DEF Idle, Processes, Ordered, Writes

\* What one command leaves in the files concerns no other, since no other
\* writes them.
LEMMA Others ==
    ASSUME OwnerIInv,
           NEW c \in Clis, UNCHANGED <<config, tmp>> \/ cli[c].cmd \in Writers,
           NEW d \in Clis, d # c, cli'[d] = cli[d]
    PROVE  Holds(d)'
<1>1. Holds(d)
  BY DEF OwnerIInv
<1>2. CASE UNCHANGED <<config, tmp>>
  BY <1>1, <1>2 DEF Holds, At
<1>3. CASE cli[c].cmd \in Writers
  <2>1. cli[d].cmd \notin Writers /\ ~Writes(cli[d].steps)
    BY <1>1, <1>3 DEF OwnerIInv, Holds
  <2>2. cli[d].steps \in Seq(Steps)
    BY DEF OwnerIInv, Processes
  <2>3. ~At(d, "rename_tmp")
    BY <2>1, <2>2 DEF At, Writes, TmpSteps
  <2> QED
    BY <1>1, <2>1, <2>3 DEF Holds, At
<1> QED
  BY <1>2, <1>3

\* A command that ends, or dies, leaves nothing to be done.
LEMMA Ends ==
    ASSUME OwnerIInv,
           NEW c \in Clis, cli' = [cli EXCEPT ![c] = Idle],
           secret' \in Keys \cup {"none"},
           UNCHANGED <<config, tmp>> \/ cli[c].cmd \in Writers
    PROVE  OwnerIInv'
<1>1. /\ cli' \in [Clis -> Processes]
      /\ cli'[c] = Idle /\ \A d \in Clis : d # c => cli'[d] = cli[d]
  BY IdleHolds DEF OwnerIInv
<1>2. \A d, e \in Clis : cli'[d].cmd \in Writers /\ cli'[e].cmd \in Writers => d = e
  BY <1>1, IdleHolds DEF OwnerIInv, Writers
<1>3. Holds(c)'
  BY <1>1, IdleHolds DEF Holds, At, Writers
<1>4. \A d \in Clis : d # c => Holds(d)'
  BY <1>1, Others
<1> QED
  BY <1>1, <1>2, <1>3, <1>4 DEF OwnerIInv

\* The step of one command, with g what it knows by then.
LEMMA Advance ==
    ASSUME OwnerIInv,
           NEW c \in Clis, cli[c].steps # <<>>,
           NEW g \in Processes, g.cmd = cli[c].cmd, g.steps = cli[c].steps,
           Done(c, g),
           secret' \in Keys \cup {"none"},
           UNCHANGED <<config, tmp>> \/ cli[c].cmd \in Writers,
           g.cmd \in Writers /\ config' = "owned" => g.owner,
           At(c, "fill_tmp") => tmp' = IF g.owner THEN "owned" ELSE "plain"
    PROVE  OwnerIInv'
<1> DEFINE next == IF Len(g.steps) = 1 THEN Idle ELSE [g EXCEPT !.steps = Tail(@)]
<1>1. g.steps \in Seq(Steps) /\ Ordered(g.steps) /\ (Writes(g.steps) => g.cmd \in Writers)
  BY DEF OwnerIInv, Holds, Processes
<1>2. cli' = [cli EXCEPT ![c] = next] /\ cli \in [Clis -> Processes]
  BY DEF Done, OwnerIInv
<1>3. next \in Processes /\ (next = Idle \/ next.cmd = g.cmd)
  BY <1>1, Rest, IdleHolds DEF Processes
<1>4. /\ cli' \in [Clis -> Processes]
      /\ cli'[c] = next /\ \A d \in Clis : d # c => cli'[d] = cli[d]
  BY <1>2, <1>3
<1>5. \A d \in Clis : cli'[d].cmd \in Writers => cli[d].cmd \in Writers
  BY <1>3, <1>4, IdleHolds DEF Writers
<1>6. \A d, e \in Clis : cli'[d].cmd \in Writers /\ cli'[e].cmd \in Writers => d = e
  BY <1>5 DEF OwnerIInv
<1>7. Holds(c)'
  <2>1. CASE Len(g.steps) = 1
    BY <1>4, <2>1, IdleHolds DEF Holds, At, Writers
  <2>2. CASE Len(g.steps) # 1
    <3>1. next.steps = Tail(g.steps) /\ next.cmd = g.cmd /\ next.owner = g.owner
      BY <2>2 DEF Processes
    <3> HIDE DEF next
    <3>2. /\ Ordered(next.steps) /\ (Writes(next.steps) => next.cmd \in Writers)
          /\ next.steps[1] # "load_config"
          /\ next.steps[1] = "rename_tmp" => At(c, "fill_tmp")
      BY <1>1, <2>2, <3>1, Rest DEF At
    <3> QED
      BY <1>4, <3>1, <3>2 DEF Holds, At
  <2> QED
    BY <2>1, <2>2
<1>8. \A d \in Clis : d # c => Holds(d)'
  BY <1>4, Others
<1> QED
  BY <1>4, <1>6, <1>7, <1>8 DEF OwnerIInv

LEMMA OwnerInit == InstallationInit => OwnerIInv
<1> SUFFICES ASSUME InstallationInit PROVE OwnerIInv
  OBVIOUS
<1>1. \A c \in Clis : cli[c] = Idle
  BY DEF InstallationInit
<1> QED
  BY <1>1, IdleHolds DEF InstallationInit, OwnerIInv, Holds, At, Writers

\* Every step of a command: the one that loads the configuration learns its
\* owner, and no other step but a rename changes it.
LEMMA FilePreserves ==
    ASSUME OwnerIInv, FileStep
    PROVE  OwnerIInv' /\ (config = "owned" => config' = "owned")
<1> PICK c \in Clis :
          \/ LoadsConfig(c) \/ StoresKey(c) \/ ReadsKey(c) \/ LocksDirectory(c)
          \/ OpensKeyFile(c) \/ FillsKeyFile(c) \/ LocksKeyFile(c)
          \/ GrantsDirectory(c) \/ SetsOwner(c)
          \/ OpensTmp(c) \/ FillsTmp(c) \/ RenamesTmp(c) \/ RenameFails(c)
  BY DEF FileStep
<1> DEFINE p == cli[c]
<1>1. /\ cli \in [Clis -> Processes] /\ p \in Processes /\ Holds(c)
      /\ p.steps \in Seq(Steps) /\ p.owner \in BOOLEAN
  BY DEF OwnerIInv, Processes
<1>2. p.steps # <<>> /\ (\A x : At(c, x) <=> p.steps[1] = x)
  BY <1>1 DEF At, LoadsConfig, StoresKey, ReadsKey, LocksDirectory, OpensKeyFile, FillsKeyFile,
              LocksKeyFile, GrantsDirectory, SetsOwner, OpensTmp, FillsTmp, RenamesTmp, RenameFails
<1>3. p.steps[1] \in TmpSteps => p.cmd \in Writers
  BY <1>1, <1>2 DEF Holds, Writes
<1> secret' \in Keys \cup {"none"}
  BY DEF OwnerIInv, LoadsConfig, StoresKey, ReadsKey, LocksDirectory, OpensKeyFile, FillsKeyFile,
         LocksKeyFile, GrantsDirectory, SetsOwner, OpensTmp, FillsTmp, RenamesTmp, RenameFails, fileVars
<1>4. ASSUME ~At(c, "load_config"), p.cmd \in Writers, config = "owned" PROVE p.owner
  BY <1>1, <1>4 DEF Holds
<1>5. CASE LoadsConfig(c)
  <2> DEFINE g == [p EXCEPT !.owner = config = "owned" /\ (p.cmd = "setup" => SetupKeeps)]
  <2>1. Done(c, g) /\ UNCHANGED <<config, tmp>> /\ ~At(c, "fill_tmp")
    BY <1>2, <1>5 DEF LoadsConfig
  <2>2. g \in Processes /\ g.cmd = p.cmd /\ g.steps = p.steps /\ (config = "owned" => g.owner)
    BY <1>1 DEF Processes, SetupKeeps
  <2> HIDE DEF g
  <2> QED
    BY <1>2, <2>1, <2>2, Advance
<1>6. CASE StoresKey(c) \/ LocksDirectory(c) \/ OpensKeyFile(c) \/ FillsKeyFile(c)
           \/ LocksKeyFile(c) \/ GrantsDirectory(c)
  <2>1. Done(c, p) /\ UNCHANGED <<config, tmp>> /\ ~At(c, "fill_tmp") /\ ~At(c, "load_config")
    BY <1>2, <1>6 DEF StoresKey, LocksDirectory, OpensKeyFile, FillsKeyFile, LocksKeyFile, GrantsDirectory
  <2> QED
    BY <1>1, <1>2, <1>4, <2>1, Advance
<1>7. CASE ReadsKey(c)
  <2> DEFINE g == [p EXCEPT !.key = secret]
  <2>1. Done(c, g) /\ UNCHANGED <<config, tmp>> /\ ~At(c, "fill_tmp") /\ ~At(c, "load_config")
    BY <1>2, <1>7 DEF ReadsKey, fileVars
  <2>2. g \in Processes /\ g.cmd = p.cmd /\ g.steps = p.steps /\ g.owner = p.owner
    BY <1>1 DEF Processes, OwnerIInv
  <2> HIDE DEF g
  <2> QED
    BY <1>2, <1>4, <2>1, <2>2, Advance
<1>8. CASE SetsOwner(c)
  <2> DEFINE g == [p EXCEPT !.owner = TRUE]
  <2>1. Done(c, g) /\ UNCHANGED <<config, tmp>> /\ ~At(c, "fill_tmp")
    BY <1>2, <1>8 DEF SetsOwner, fileVars
  <2>2. g \in Processes /\ g.cmd = p.cmd /\ g.steps = p.steps /\ g.owner
    BY <1>1 DEF Processes
  <2> HIDE DEF g
  <2> QED
    BY <1>2, <2>1, <2>2, Advance
<1>9. CASE OpensTmp(c)
  <2>1. Done(c, p) /\ UNCHANGED config /\ ~At(c, "fill_tmp") /\ ~At(c, "load_config") /\ p.cmd \in Writers
    BY <1>2, <1>3, <1>9 DEF OpensTmp, TmpSteps
  <2> QED
    BY <1>1, <1>2, <1>4, <2>1, Advance
<1>10. CASE FillsTmp(c)
  <2>1. /\ Done(c, p) /\ UNCHANGED config /\ ~At(c, "load_config") /\ p.cmd \in Writers
        /\ tmp' = IF p.owner THEN "owned" ELSE "plain"
    BY <1>2, <1>3, <1>10 DEF FillsTmp, TmpSteps
  <2> QED
    BY <1>1, <1>2, <1>4, <2>1, Advance
<1>11. CASE RenamesTmp(c)
  <2>1. Done(c, p) /\ ~At(c, "fill_tmp") /\ ~At(c, "load_config") /\ p.cmd \in Writers
    BY <1>2, <1>3, <1>11 DEF RenamesTmp, TmpSteps
  <2>2. config' = IF p.owner THEN "owned" ELSE "plain"
    BY <1>1, <1>11 DEF RenamesTmp, Holds
  <2> QED
    BY <1>1, <1>2, <1>4, <2>1, <2>2, Advance
<1>12. CASE RenameFails(c)
  <2>1. /\ cli' = [cli EXCEPT ![c] = Idle] /\ UNCHANGED config
        /\ p.cmd \in Writers
    BY <1>2, <1>3, <1>12 DEF RenameFails, TmpSteps
  <2> QED
    BY <2>1, Ends
<1> QED
  BY <1>5, <1>6, <1>7, <1>8, <1>9, <1>10, <1>11, <1>12

LEMMA OwnerPreserves ==
    ASSUME {"setup", "install"} \subseteq Exclusive
    PROVE  OwnerIInv /\ [Next]_vars => OwnerIInv' /\ (config = "owned" => config' = "owned")
<1> SUFFICES ASSUME OwnerIInv, [Next]_vars
             PROVE  OwnerIInv' /\ (config = "owned" => config' = "owned")
  OBVIOUS
<1>1. ASSUME UNCHANGED <<cli, fileVars>> PROVE OwnerIInv' /\ UNCHANGED config
  BY <1>1 DEF fileVars, OwnerIInv, Holds, At
<1>2. ASSUME NEW c \in Clis, NEW cmd \in Commands, Begins(c, cmd) PROVE OwnerIInv' /\ UNCHANGED config
  <2> DEFINE p == [Idle EXCEPT !.cmd = cmd, !.steps = Script[cmd]]
  <2>1. /\ p \in Processes /\ p.cmd = cmd /\ p.steps = Script[cmd]
    BY Scripts, IdleHolds DEF Processes
  <2> HIDE DEF p
  <2>2. /\ UNCHANGED <<config, tmp, secret>>
        /\ cli' = [cli EXCEPT ![c] = p] /\ cli \in [Clis -> Processes]
        /\ cmd \in Exclusive => \A d \in Clis : cli[d].cmd \notin Exclusive
    BY <1>2 DEF Begins, fileVars, OwnerIInv, p
  <2>3. /\ cli' \in [Clis -> Processes]
        /\ cli'[c] = p /\ \A d \in Clis : d # c => cli'[d] = cli[d]
    BY <2>1, <2>2
  <2>4. \A d, e \in Clis : cli'[d].cmd \in Writers /\ cli'[e].cmd \in Writers => d = e
    BY <2>1, <2>2, <2>3 DEF OwnerIInv, Writers
  <2>5. Holds(c)'
    <3>1. Ordered(p.steps) /\ (Writes(p.steps) => p.cmd \in Writers) /\ At(c, "load_config")'
      BY <2>1, <2>3, Scripts DEF At
    <3>2. ~At(c, "rename_tmp")'
      BY <2>1, <2>3, Scripts DEF At
    <3> QED
      BY <2>3, <3>1, <3>2 DEF Holds
  <2>6. \A d \in Clis : d # c => Holds(d)'
    BY <2>2, <2>3, Others
  <2> QED
    BY <2>2, <2>3, <2>4, <2>5, <2>6 DEF OwnerIInv
<1>3. ASSUME NEW c \in Clis, Dies(c) PROVE OwnerIInv' /\ UNCHANGED config
  BY <1>3, Ends DEF Dies, fileVars, OwnerIInv
<1>4. ASSUME NEW c \in Clis, Registers(c) \/ Starts(c) \/ Stops(c) \/ StopsFirst(c) \/ Deletes(c),
             UNCHANGED fileVars
      PROVE  OwnerIInv' /\ UNCHANGED config
  <2> DEFINE p == cli[c]
  <2>1. /\ p.steps # <<>> /\ p.steps[1] \notin TmpSteps /\ p.steps[1] # "load_config"
        /\ Done(c, p)
    BY <1>4 DEF Registers, Starts, Stops, StopsFirst, Deletes, At, TmpSteps
  <2>2. p \in Processes /\ (p.cmd \in Writers /\ config = "owned" => p.owner)
    BY <2>1 DEF OwnerIInv, Holds, At
  <2>3. ~At(c, "fill_tmp")
    BY <2>1 DEF At, TmpSteps
  <2> HIDE DEF p
  <2>4. p = cli[c]
    BY DEF p
  <2> QED
    BY <1>4, <2>1, <2>2, <2>3, <2>4, Advance DEF fileVars, OwnerIInv
<1>5. CASE ControlStep
  BY <1>4, <1>5 DEF ControlStep
<1>6. CASE StartStep \/ RunStep \/ WorkStep \/ Removed \/ UNCHANGED vars
  BY <1>1, <1>6 DEF StartStep, StartPasses, StartStops, RunStep, WorkStep, Removed, machineVars, vars
<1>7. CASE Boot
  <2>1. UNCHANGED fileVars /\ \A c \in Clis : cli'[c] = Idle
    BY <1>7 DEF Boot
  <2>2. cli' \in [Clis -> Processes]
    BY <1>7, IdleHolds DEF Boot
  <2> QED
    BY <2>1, <2>2, IdleHolds DEF fileVars, OwnerIInv, Holds, At, Writers
<1> QED
  BY <1>2, <1>3, <1>5, <1>6, <1>7, FilePreserves DEF Next

\* When the user does not set up and install at once, a command that fails or
\* dies anywhere leaves in config.json the owner it has found there.
THEOREM Kept == {"setup", "install"} \subseteq Exclusive => (Spec => OwnerKept)
<1> SUFFICES ASSUME {"setup", "install"} \subseteq Exclusive
             PROVE  Spec => OwnerKept
  OBVIOUS
<1>1. OwnerIInv /\ [Next]_vars => [config = "owned" => config' = "owned"]_vars
  BY OwnerPreserves
<1>2. OwnerIInv /\ [Next]_vars => OwnerIInv'
  BY OwnerPreserves
<1> QED
  BY <1>1, <1>2, OwnerInit, PTL DEF Spec, OwnerKept

-----------------------------------------------------------------------------
(* The types of the machine, whatever commands run at once. *)

Machine == TypeOK /\ cli \in [Clis -> Processes]

LEMMA StepDone ==
    ASSUME cli \in [Clis -> Processes], NEW c \in Clis, cli[c].steps # <<>>,
           NEW g \in Processes, g.steps = cli[c].steps, Done(c, g)
    PROVE  cli' \in [Clis -> Processes]
<1>1. g.steps \in Seq(Steps)
  BY DEF Processes
<1>2. Tail(g.steps) \in Seq(Steps)
  BY <1>1
<1>3. [g EXCEPT !.steps = Tail(@)] \in Processes
  BY <1>2 DEF Processes
<1> QED
  BY <1>3, IdleHolds DEF Done

LEMMA FileTypes == Machine /\ FileStep => Machine'
<1> SUFFICES ASSUME Machine, FileStep PROVE Machine'
  OBVIOUS
<1> PICK c \in Clis :
          \/ LoadsConfig(c) \/ StoresKey(c) \/ ReadsKey(c) \/ LocksDirectory(c)
          \/ OpensKeyFile(c) \/ FillsKeyFile(c) \/ LocksKeyFile(c)
          \/ GrantsDirectory(c) \/ SetsOwner(c)
          \/ OpensTmp(c) \/ FillsTmp(c) \/ RenamesTmp(c) \/ RenameFails(c)
  BY DEF FileStep
<1> DEFINE p == cli[c]
<1>1. /\ cli \in [Clis -> Processes] /\ p \in Processes /\ p.key \in Keys \cup {"none"}
      /\ TypeOK
  BY DEF Machine, Processes
<1>2. p.steps # <<>>
  BY DEF At, LoadsConfig, StoresKey, ReadsKey, LocksDirectory, OpensKeyFile, FillsKeyFile,
         LocksKeyFile, GrantsDirectory, SetsOwner, OpensTmp, FillsTmp, RenamesTmp, RenameFails
<1>3. ASSUME NEW g \in Processes, g.steps = p.steps, Done(c, g) PROVE cli' \in [Clis -> Processes]
  BY <1>1, <1>2, <1>3, StepDone
<1>4. ServiceTypeOK' /\ shared' \in BOOLEAN /\ marked' \in BOOLEAN
  BY <1>1 DEF FileStep, TypeOK, ServiceTypeOK, serviceVars
<1>5. cli' \in [Clis -> Processes]
  <2>1. CASE LoadsConfig(c)
    <3> DEFINE g == [p EXCEPT !.owner = config = "owned" /\ (p.cmd = "setup" => SetupKeeps)]
    <3>1. g \in Processes /\ g.steps = p.steps
      BY <1>1 DEF Processes, SetupKeeps
    <3> QED
      BY <1>3, <2>1, <3>1 DEF LoadsConfig
  <2>2. CASE ReadsKey(c)
    <3> DEFINE g == [p EXCEPT !.key = secret]
    <3>1. g \in Processes /\ g.steps = p.steps
      BY <1>1 DEF Processes, TypeOK
    <3> QED
      BY <1>3, <2>2, <3>1 DEF ReadsKey
  <2>3. CASE SetsOwner(c)
    <3> DEFINE g == [p EXCEPT !.owner = TRUE]
    <3>1. g \in Processes /\ g.steps = p.steps
      BY <1>1 DEF Processes
    <3> QED
      BY <1>3, <2>3, <3>1 DEF SetsOwner
  <2>4. CASE RenameFails(c)
    BY <1>1, <2>4, IdleHolds DEF RenameFails
  <2>5. CASE StoresKey(c) \/ LocksDirectory(c) \/ OpensKeyFile(c) \/ FillsKeyFile(c)
             \/ LocksKeyFile(c) \/ GrantsDirectory(c) \/ OpensTmp(c) \/ FillsTmp(c) \/ RenamesTmp(c)
    BY <1>1, <1>3, <2>5 DEF StoresKey, LocksDirectory, OpensKeyFile, FillsKeyFile, LocksKeyFile,
                            GrantsDirectory, OpensTmp, FillsTmp, RenamesTmp
  <2> QED
    BY <2>1, <2>2, <2>3, <2>4, <2>5
<1>6. TypeOK'
  <2>1. CASE LoadsConfig(c) \/ StoresKey(c) \/ ReadsKey(c) \/ LocksDirectory(c)
    BY <1>1, <1>4, <2>1 DEF TypeOK, LoadsConfig, StoresKey, ReadsKey, LocksDirectory, fileVars
  <2>2. CASE OpensKeyFile(c) \/ FillsKeyFile(c) \/ LocksKeyFile(c) \/ GrantsDirectory(c) \/ SetsOwner(c)
    BY <1>1, <1>4, <2>2 DEF TypeOK, OpensKeyFile, FillsKeyFile, LocksKeyFile, GrantsDirectory,
                            SetsOwner, fileVars
  <2>3. CASE OpensTmp(c) \/ FillsTmp(c) \/ RenamesTmp(c) \/ RenameFails(c)
    BY <1>1, <1>4, <2>3 DEF TypeOK, OpensTmp, FillsTmp, RenamesTmp, RenameFails
  <2> QED
    BY <2>1, <2>2, <2>3
<1> QED
  BY <1>5, <1>6 DEF Machine

LEMMA MachineTypes == Machine /\ ServiceTypeOK' /\ [Next]_vars => Machine'
<1> SUFFICES ASSUME Machine, ServiceTypeOK', [Next]_vars PROVE Machine'
  OBVIOUS
<1> USE DEF Machine, TypeOK
<1>1. ASSUME UNCHANGED <<fileVars, shared>>, marked' \in BOOLEAN, cli' \in [Clis -> Processes]
      PROVE  Machine'
  BY <1>1 DEF fileVars
<1>2. ASSUME NEW c \in Clis, NEW cmd \in Commands, Begins(c, cmd) PROVE Machine'
  <2>1. [Idle EXCEPT !.cmd = cmd, !.steps = Script[cmd]] \in Processes
    BY Scripts, IdleHolds DEF Processes
  <2> QED
    BY <1>1, <1>2, <2>1 DEF Begins
<1>3. ASSUME NEW c \in Clis, Dies(c) PROVE Machine'
  BY <1>1, <1>3, IdleHolds DEF Dies
<1>4. CASE ControlStep
  <2> PICK c \in Clis : Registers(c) \/ Starts(c) \/ Stops(c) \/ StopsFirst(c) \/ Deletes(c)
    BY <1>4 DEF ControlStep
  <2>1. cli[c].steps # <<>> /\ Done(c, cli[c]) /\ marked' \in BOOLEAN
    BY DEF Registers, Starts, Stops, StopsFirst, Deletes, At
  <2> QED
    BY <1>1, <1>4, <2>1, StepDone DEF ControlStep
<1>5. CASE StartStep \/ RunStep \/ WorkStep
  BY <1>1, <1>5 DEF StartStep, StartPasses, StartStops, RunStep, WorkStep, machineVars
<1>6. CASE Removed
  BY <1>1, <1>6 DEF Removed
<1>7. CASE Boot
  BY <1>1, <1>7, IdleHolds DEF Boot
<1>8. CASE UNCHANGED vars
  BY <1>1, <1>8 DEF vars, machineVars
<1> QED
  BY <1>2, <1>3, <1>4, <1>5, <1>6, <1>7, <1>8, FileTypes DEF Next

\* The commands and the service keep what is on the machine in range, several
\* commands at once too: service-key.enc is missing, cut, or one of the keys.
THEOREM TypeCorrect == Spec => []TypeOK
<1>1. InstallationInit /\ ServiceTypeOK => Machine
  BY IdleHolds DEF InstallationInit, Machine, TypeOK
<1>2. ServiceIInv => ServiceTypeOK
  BY DEF ServiceIInv
<1>3. Machine => TypeOK
  BY DEF Machine
<1> QED
  BY <1>1, <1>2, <1>3, InitEstablishes, ServicePreserves, MachineTypes, PTL DEF Spec

-----------------------------------------------------------------------------
(* What is in place when a service is registered.  What a step of the      *)
(* installation brings about lasts once no step that is left undoes it:    *)
(* each step that could is followed by one that does it again.             *)

UserCommands == {"setup", "install", "terminal"}

Left(s) == {s[i] : i \in 1..Len(s)}

Followed(s, a, b) == \A i \in 1..Len(s) : s[i] = a => \E j \in i + 1 .. Len(s) : s[j] = b

Chained(s) ==
    /\ Followed(s, "load_config", "set_owner")
    /\ Followed(s, "set_owner", "rename_tmp")
    /\ Followed(s, "read_key", "fill_key_file")
    /\ Followed(s, "open_key_file", "fill_key_file")
    /\ Followed(s, "lock_directory", "grant_directory")
    /\ \A i \in 1..Len(s) : s[i] # "store_key" /\ (s[i] = "register" => i = Len(s))

\* The steps on the key, its file and the directory.
UserSteps == {"store_key", "lock_directory", "open_key_file", "fill_key_file",
              "lock_key_file", "grant_directory"}

Confined(c) ==
    /\ \A x \in UserSteps : x \in Left(cli[c].steps) => cli[c].cmd \in UserCommands
    /\ "register" \in Left(cli[c].steps) => cli[c].cmd = "install"

\* What holds of the machine when l are the steps that are left to p.
InPlace(p, l, theSecret, theKeyFile, isLocked, theAccess, theConfig) ==
    /\ "read_key" \notin l => p.key = theSecret
    /\ "read_key" \notin l /\ "fill_key_file" \notin l => theKeyFile = theSecret
    /\ "lock_key_file" \notin l => isLocked
    /\ "grant_directory" \notin l => theAccess = "user_and_service"
    /\ "set_owner" \notin l => p.owner
    /\ "set_owner" \notin l /\ "rename_tmp" \notin l => theConfig = "owned"

Prepared(c) ==
    /\ Chained(cli[c].steps)
    /\ InPlace(cli[c], Left(cli[c].steps), secret, keyFile, keyLocked, access, config)

PreparedIInv ==
    /\ \A c \in Clis : Confined(c)
    /\ \A c \in Clis : cli[c].cmd = "install" => Prepared(c)
    /\ \A c, d \in Clis : cli[c].cmd \in UserCommands /\ cli[d].cmd \in UserCommands => c = d

LEMMA InstallScript ==
    /\ Script["install"] = InstallSteps
    /\ Len(InstallSteps) = 12
    /\ InstallSteps[1] = "load_config" /\ InstallSteps[2] = "read_key"
    /\ InstallSteps[3] = "lock_directory" /\ InstallSteps[4] = "open_key_file"
    /\ InstallSteps[5] = "fill_key_file" /\ InstallSteps[6] = "lock_key_file"
    /\ InstallSteps[7] = "grant_directory" /\ InstallSteps[8] = "set_owner"
    /\ InstallSteps[9] = "open_tmp" /\ InstallSteps[10] = "fill_tmp"
    /\ InstallSteps[11] = "rename_tmp" /\ InstallSteps[12] = "register"
<1>1. Script["install"] = InstallSteps
  BY DEF Script
<1>2. Len(InstallSteps) = 12
  BY DEF InstallSteps, Ready, Save
<1>3. /\ InstallSteps[1] = "load_config" /\ InstallSteps[2] = "read_key"
      /\ InstallSteps[3] = "lock_directory" /\ InstallSteps[4] = "open_key_file"
  BY DEF InstallSteps, Ready, Save
<1>4. /\ InstallSteps[5] = "fill_key_file" /\ InstallSteps[6] = "lock_key_file"
      /\ InstallSteps[7] = "grant_directory" /\ InstallSteps[8] = "set_owner"
  BY DEF InstallSteps, Ready, Save
<1>5. /\ InstallSteps[9] = "open_tmp" /\ InstallSteps[10] = "fill_tmp"
      /\ InstallSteps[11] = "rename_tmp" /\ InstallSteps[12] = "register"
  BY DEF InstallSteps, Ready, Save
<1> QED
  BY <1>1, <1>2, <1>3, <1>4, <1>5

LEMMA InstallChained == Chained(InstallSteps)
<1> DEFINE s == InstallSteps
<1>1. /\ Len(s) = 12
      /\ s[1] = "load_config" /\ s[2] = "read_key" /\ s[3] = "lock_directory" /\ s[4] = "open_key_file"
      /\ s[5] = "fill_key_file" /\ s[6] = "lock_key_file" /\ s[7] = "grant_directory" /\ s[8] = "set_owner"
      /\ s[9] = "open_tmp" /\ s[10] = "fill_tmp" /\ s[11] = "rename_tmp" /\ s[12] = "register"
  BY InstallScript
<1> HIDE DEF s
<1>2. \A i \in 1..Len(s) : i \in {1, 2, 3, 4, 5, 6, 7, 8, 9, 10, 11, 12}
  BY <1>1
<1>3. \A i \in 1..Len(s) : (s[i] = "load_config" => i = 1) /\ (s[i] = "set_owner" => i = 8)
  BY <1>1, <1>2
<1>4. \A i \in 1..Len(s) : (s[i] = "read_key" => i = 2) /\ (s[i] = "open_key_file" => i = 4)
  BY <1>1, <1>2
<1>5. \A i \in 1..Len(s) : (s[i] = "lock_directory" => i = 3) /\ (s[i] = "register" => i = 12)
  BY <1>1, <1>2
<1>6. \A i \in 1..Len(s) : s[i] # "store_key"
  BY <1>1, <1>2
<1>7. Followed(s, "load_config", "set_owner") /\ Followed(s, "set_owner", "rename_tmp")
  BY <1>1, <1>3 DEF Followed
<1>8. Followed(s, "read_key", "fill_key_file") /\ Followed(s, "open_key_file", "fill_key_file")
  BY <1>1, <1>4 DEF Followed
<1>9. Followed(s, "lock_directory", "grant_directory")
  BY <1>1, <1>5 DEF Followed
<1> QED
  BY <1>1, <1>5, <1>6, <1>7, <1>8, <1>9 DEF Chained, s

\* What is left of a chained script is chained, and it is all but the first.
LEMMA RestChained ==
    ASSUME NEW s \in Seq(Steps), s # <<>>, Len(s) # 1
    PROVE  /\ Left(Tail(s)) \subseteq Left(s) /\ Left(s) = Left(Tail(s)) \cup {s[1]}
           /\ Chained(s) => Chained(Tail(s))
<1> DEFINE t == Tail(s)
<1>1. Len(s) \in Nat /\ Len(s) # 0
  OBVIOUS
<1>2. t \in Seq(Steps) /\ Len(t) = Len(s) - 1 /\ \A i \in 1..Len(t) : t[i] = s[i + 1]
  OBVIOUS
<1> HIDE DEF t
<1>3. Left(t) \subseteq Left(s)
  BY <1>1, <1>2 DEF Left
<1>4. Left(s) = Left(t) \cup {s[1]}
  <2>1. ASSUME NEW i \in 1..Len(s) PROVE s[i] \in Left(t) \cup {s[1]}
    <3>1. CASE i # 1
      <4>1. i - 1 \in 1..Len(t) /\ i - 1 + 1 = i
        BY <1>1, <1>2, <3>1
      <4> QED
        BY <1>2, <4>1 DEF Left
    <3> QED
      BY <3>1
  <2>2. s[1] \in Left(s)
    BY <1>1 DEF Left
  <2> QED
    BY <1>3, <2>1, <2>2 DEF Left
<1>5. ASSUME NEW a, NEW b, Followed(s, a, b) PROVE Followed(t, a, b)
  <2> SUFFICES ASSUME NEW i \in 1..Len(t), t[i] = a PROVE \E j \in i + 1 .. Len(t) : t[j] = b
    BY DEF Followed
  <2>1. i + 1 \in 1..Len(s) /\ s[i + 1] = a
    BY <1>1, <1>2
  <2>2. PICK j \in i + 1 + 1 .. Len(s) : s[j] = b
    BY <1>5, <2>1 DEF Followed
  <2>3. j - 1 \in i + 1 .. Len(t) /\ j - 1 \in 1..Len(t) /\ j - 1 + 1 = j
    BY <1>1, <1>2, <2>2
  <2> QED
    BY <1>2, <2>2, <2>3
<1>6. ASSUME Chained(s), NEW i \in 1..Len(t)
      PROVE  t[i] # "store_key" /\ (t[i] = "register" => i = Len(t))
  <2>1. i + 1 \in 1..Len(s) /\ s[i + 1] = t[i] /\ (i + 1 = Len(s) <=> i = Len(t))
    BY <1>1, <1>2
  <2> QED
    BY <1>6, <2>1 DEF Chained
<1>7. Chained(s) => Chained(t)
  BY <1>5, <1>6 DEF Chained
<1> QED
  BY <1>3, <1>4, <1>7 DEF t

\* A step that is followed by another is not the last, and the other is left.
LEMMA StillLeft ==
    ASSUME NEW s \in Seq(Steps), s # <<>>, NEW b, Followed(s, s[1], b)
    PROVE  Len(s) # 1 /\ b \in Left(Tail(s))
<1>1. Len(s) \in Nat /\ Len(s) # 0
  OBVIOUS
<1>2. PICK j \in 2..Len(s) : s[j] = b
  BY <1>1 DEF Followed
<1>3. Len(s) # 1 /\ j - 1 \in 1..Len(s) - 1
  BY <1>1, <1>2
<1>4. Len(Tail(s)) = Len(s) - 1 /\ \A i \in 1..Len(Tail(s)) : Tail(s)[i] = s[i + 1]
  OBVIOUS
<1>5. Tail(s)[j - 1] = b
  BY <1>2, <1>3, <1>4
<1> QED
  BY <1>3, <1>4, <1>5 DEF Left

\* When the service is to be registered, that is all that is left.
LEMMA RegisterAlone ==
    ASSUME NEW s \in Seq(Steps), s # <<>>, Chained(s), s[1] = "register"
    PROVE  Left(s) = {"register"}
<1>1. Len(s) \in Nat /\ Len(s) # 0
  OBVIOUS
<1>2. 1 \in 1..Len(s)
  BY <1>1
<1>3. Len(s) = 1
  BY <1>2 DEF Chained
<1> QED
  BY <1>3 DEF Left

\* Which commands have steps on what an installation prepares.
LEMMA ScriptsConfined ==
    ASSUME NEW cmd \in Commands
    PROVE  /\ \A x \in UserSteps : x \in Left(Script[cmd]) => cmd \in UserCommands
           /\ "register" \in Left(Script[cmd]) => cmd = "install"
<1>1. CASE cmd = "terminal"
  BY <1>1 DEF Script, Ready, Left, UserSteps, UserCommands
<1>2. CASE cmd = "start"
  BY <1>2 DEF Script, Left, UserSteps
<1>3. CASE cmd = "stop"
  BY <1>3 DEF Script, Left, UserSteps
<1>4. CASE cmd = "uninstall"
  BY <1>4 DEF Script, Left, UserSteps
<1>5. CASE cmd = "setup"
  <2>1. /\ Len(Script["setup"]) = 6
        /\ Script["setup"][1] = "load_config" /\ Script["setup"][2] = "store_key"
        /\ Script["setup"][3] = "lock_directory" /\ Script["setup"][4] = "open_tmp"
        /\ Script["setup"][5] = "fill_tmp" /\ Script["setup"][6] = "rename_tmp"
    BY DEF Script, Save
  <2>2. "register" \notin Left(Script["setup"])
    BY <2>1 DEF Left
  <2> QED
    BY <1>5, <2>2 DEF UserCommands
<1>6. CASE cmd = "install"
  BY <1>6 DEF UserCommands
<1> QED
  BY <1>1, <1>2, <1>3, <1>4, <1>5, <1>6 DEF Commands

\* What no step but those of the user's commands may take away.
Lasting ==
    /\ UNCHANGED <<secret, keyFile, keyLocked>>
    /\ access = "user_and_service" => access' = "user_and_service"
    /\ config = "owned" => config' = "owned"

\* What one command does to the machine takes nothing from another that
\* installs: it does it no harm, or is the only one.
LEMMA OthersPrepared ==
    ASSUME PreparedIInv, NEW c \in Clis, Lasting \/ cli[c].cmd \in UserCommands,
           NEW d \in Clis, d # c, cli'[d] = cli[d], cli[d].cmd = "install"
    PROVE  Prepared(d)'
<1>1. Prepared(d)
  BY DEF PreparedIInv
<1>2. Lasting
  BY DEF PreparedIInv, UserCommands
<1> QED
  BY <1>1, <1>2 DEF Prepared, InPlace, Lasting

\* A command that ends, or dies.
LEMMA EndsPrepared ==
    ASSUME OwnerIInv, PreparedIInv,
           NEW c \in Clis, cli' = [cli EXCEPT ![c] = Idle],
           Lasting \/ cli[c].cmd \in UserCommands
    PROVE  PreparedIInv'
<1>1. cli'[c] = Idle /\ \A d \in Clis : d # c => cli'[d] = cli[d]
  BY DEF OwnerIInv
<1>2. Left(<<>>) = {}
  BY DEF Left
<1>3. \A d \in Clis : Confined(d)'
  BY <1>1, <1>2, IdleHolds DEF PreparedIInv, Confined
<1>4. \A d \in Clis : cli'[d].cmd = "install" => Prepared(d)'
  BY <1>1, OthersPrepared, IdleHolds
<1>5. \A d, e \in Clis : cli'[d].cmd \in UserCommands /\ cli'[e].cmd \in UserCommands => d = e
  BY <1>1, IdleHolds DEF PreparedIInv, UserCommands
<1> QED
  BY <1>3, <1>4, <1>5 DEF PreparedIInv

\* The step of one command.
LEMMA AdvancePrepared ==
    ASSUME OwnerIInv, PreparedIInv,
           NEW c \in Clis, cli[c].steps # <<>>,
           NEW g \in Processes, g.cmd = cli[c].cmd, g.steps = cli[c].steps,
           Done(c, g),
           Lasting \/ cli[c].cmd \in UserCommands,
           g.cmd = "install" /\ Len(g.steps) # 1 =>
               InPlace(g, Left(Tail(g.steps)), secret', keyFile', keyLocked', access', config')
    PROVE  PreparedIInv'
<1>1. g.steps \in Seq(Steps) /\ cli \in [Clis -> Processes]
  BY DEF OwnerIInv, Processes
<1>2. CASE Len(g.steps) = 1
  BY <1>2, EndsPrepared DEF Done
<1>3. CASE Len(g.steps) # 1
  <2> DEFINE next == [g EXCEPT !.steps = Tail(@)]
  <2>1. cli'[c] = next /\ \A d \in Clis : d # c => cli'[d] = cli[d]
    BY <1>1, <1>3 DEF Done
  <2>2. /\ next.cmd = g.cmd /\ next.steps = Tail(g.steps)
        /\ next.key = g.key /\ next.owner = g.owner
    BY DEF Processes
  <2> HIDE DEF next
  <2>3. /\ Left(next.steps) \subseteq Left(cli[c].steps)
        /\ Chained(cli[c].steps) => Chained(next.steps)
    BY <1>1, <1>3, <2>2, RestChained
  <2>4. ASSUME NEW d \in Clis PROVE Confined(d)'
    <3>1. Confined(d)
      BY DEF PreparedIInv
    <3> QED
      BY <2>1, <2>2, <2>3, <3>1 DEF Confined
  <2>5. ASSUME cli'[c].cmd = "install" PROVE Prepared(c)'
    <3>1. Chained(cli'[c].steps)
      BY <2>1, <2>2, <2>3, <2>5 DEF PreparedIInv, Prepared
    <3>2. InPlace(cli'[c], Left(cli'[c].steps), secret', keyFile', keyLocked', access', config')
      BY <1>3, <2>1, <2>2, <2>5 DEF InPlace
    <3> QED
      BY <3>1, <3>2 DEF Prepared
  <2>6. \A d \in Clis : d # c /\ cli'[d].cmd = "install" => Prepared(d)'
    BY <2>1, OthersPrepared
  <2>7. \A d, e \in Clis : cli'[d].cmd \in UserCommands /\ cli'[e].cmd \in UserCommands => d = e
    BY <2>1, <2>2 DEF PreparedIInv
  <2> QED
    BY <2>4, <2>5, <2>6, <2>7 DEF PreparedIInv
<1> QED
  BY <1>2, <1>3

LEMMA PreparedInit == InstallationInit => PreparedIInv
<1> SUFFICES ASSUME InstallationInit PROVE PreparedIInv
  OBVIOUS
<1>1. \A c \in Clis : cli[c].cmd = "none" /\ cli[c].steps = <<>>
  BY IdleHolds DEF InstallationInit
<1>2. Left(<<>>) = {}
  BY DEF Left
<1> QED
  BY <1>1, <1>2 DEF PreparedIInv, Confined, UserCommands

\* A command begins: an installation has everything before it.
LEMMA BeginsPrepared ==
    ASSUME UserCommands \subseteq Exclusive, OwnerIInv, PreparedIInv,
           NEW c \in Clis, NEW cmd \in Commands, Begins(c, cmd)
    PROVE  PreparedIInv'
<1> DEFINE p == [Idle EXCEPT !.cmd = cmd, !.steps = Script[cmd]]
<1>1. p.cmd = cmd /\ p.steps = Script[cmd]
  BY DEF Idle
<1> HIDE DEF p
<1>2. /\ UNCHANGED fileVars
      /\ cli' = [cli EXCEPT ![c] = p] /\ cli \in [Clis -> Processes]
      /\ cmd \in Exclusive => \A d \in Clis : cli[d].cmd \notin Exclusive
  BY DEF Begins, OwnerIInv, p
<1>3. cli'[c] = p /\ \A d \in Clis : d # c => cli'[d] = cli[d]
  BY <1>2
<1>4. Lasting
  BY <1>2 DEF Lasting, fileVars
<1>5. ASSUME NEW d \in Clis PROVE Confined(d)'
  <2>1. CASE d = c
    BY <1>1, <1>3, <2>1, ScriptsConfined DEF Confined
  <2>2. CASE d # c
    <3>1. Confined(d)
      BY DEF PreparedIInv
    <3> QED
      BY <1>3, <2>2, <3>1 DEF Confined
  <2> QED
    BY <2>1, <2>2
<1>6. ASSUME cmd = "install" PROVE Prepared(c)'
  <2>1. p.steps = InstallSteps
    BY <1>1, <1>6, InstallScript
  <2>2. {InstallSteps[2], InstallSteps[6], InstallSteps[7], InstallSteps[8]} \subseteq Left(InstallSteps)
    BY InstallScript DEF Left
  <2>3. {"read_key", "lock_key_file", "grant_directory", "set_owner"} \subseteq Left(InstallSteps)
    BY <2>2, InstallScript
  <2> QED
    BY <1>3, <2>1, <2>3, InstallChained DEF Prepared, InPlace
<1>7. \A d \in Clis : cli'[d].cmd = "install" => Prepared(d)'
  BY <1>1, <1>3, <1>4, <1>6, OthersPrepared
<1>8. \A d, e \in Clis : cli'[d].cmd \in UserCommands /\ cli'[e].cmd \in UserCommands => d = e
  BY <1>1, <1>2, <1>3 DEF PreparedIInv
<1> QED
  BY <1>5, <1>7, <1>8 DEF PreparedIInv

\* What is left after a step is what was left but for the step.
LEMMA Remaining ==
    ASSUME NEW s \in Seq(Steps), s # <<>>
    PROVE  /\ s[1] \in Left(s)
           /\ Len(s) # 1 => \A x : x # s[1] => (x \in Left(Tail(s)) <=> x \in Left(s))
<1>1. Len(s) \in Nat /\ Len(s) # 0
  OBVIOUS
<1>2. s[1] \in Left(s)
  BY <1>1 DEF Left
<1> QED
  BY <1>2, RestChained

\* The steps on the files.
LEMMA FilesPrepared ==
    ASSUME OwnerIInv, PreparedIInv, FileStep
    PROVE  PreparedIInv'
<1> PICK c \in Clis :
          \/ LoadsConfig(c) \/ StoresKey(c) \/ ReadsKey(c) \/ LocksDirectory(c)
          \/ OpensKeyFile(c) \/ FillsKeyFile(c) \/ LocksKeyFile(c)
          \/ GrantsDirectory(c) \/ SetsOwner(c)
          \/ OpensTmp(c) \/ FillsTmp(c) \/ RenamesTmp(c) \/ RenameFails(c)
  BY DEF FileStep
<1> DEFINE p == cli[c]
           all == Left(p.steps)
           rest == Left(Tail(p.steps))
<1>1. /\ cli \in [Clis -> Processes] /\ p \in Processes /\ Holds(c)
      /\ p.steps \in Seq(Steps) /\ p.owner \in BOOLEAN
  BY DEF OwnerIInv, Processes
<1>2. p.steps # <<>> /\ (\A x : At(c, x) <=> p.steps[1] = x)
  BY <1>1 DEF At, LoadsConfig, StoresKey, ReadsKey, LocksDirectory, OpensKeyFile, FillsKeyFile,
              LocksKeyFile, GrantsDirectory, SetsOwner, OpensTmp, FillsTmp, RenamesTmp, RenameFails
<1>3. p.steps[1] \in TmpSteps => p.cmd \in Writers
  BY <1>1, <1>2 DEF Holds, Writes
<1>4. /\ p.steps[1] \in all
      /\ Len(p.steps) # 1 => \A x : x # p.steps[1] => (x \in rest <=> x \in all)
  BY <1>1, <1>2, Remaining
<1>5. p.steps[1] \in UserSteps \cup TmpSteps => p.cmd \in UserCommands
  BY <1>3, <1>4 DEF PreparedIInv, Confined, UserCommands, Writers
<1>6. ASSUME p.cmd = "install"
      PROVE  Chained(p.steps) /\ InPlace(p, all, secret, keyFile, keyLocked, access, config)
  BY <1>6 DEF PreparedIInv, Prepared
<1>7. ASSUME NEW b, p.cmd = "install", Followed(p.steps, p.steps[1], b) PROVE b \in rest
  BY <1>1, <1>2, <1>7, StillLeft
<1> HIDE DEF p, all, rest
<1>8. ASSUME NEW g \in Processes, g.cmd = p.cmd, g.steps = p.steps, Done(c, g),
             Lasting \/ p.cmd \in UserCommands,
             p.cmd = "install" /\ Len(p.steps) # 1 =>
                 InPlace(g, rest, secret', keyFile', keyLocked', access', config')
      PROVE  PreparedIInv'
  BY <1>2, <1>8, AdvancePrepared DEF p, rest
<1>9. CASE LoadsConfig(c)
  <2> DEFINE g == [p EXCEPT !.owner = config = "owned" /\ (p.cmd = "setup" => SetupKeeps)]
  <2>1. /\ Done(c, g) /\ p.steps[1] = "load_config" /\ Lasting
        /\ UNCHANGED <<secret, keyFile, keyLocked, config>>
    BY <1>2, <1>9 DEF LoadsConfig, Lasting, p
  <2>2. g \in Processes /\ g.cmd = p.cmd /\ g.steps = p.steps /\ g.key = p.key
    BY <1>1 DEF Processes, SetupKeeps
  <2> HIDE DEF g
  <2>3. ASSUME p.cmd = "install", Len(p.steps) # 1
        PROVE  InPlace(g, rest, secret', keyFile', keyLocked', access', config')
    <3>1. "set_owner" \in rest
      BY <1>6, <1>7, <2>1, <2>3 DEF Chained
    <3> QED
      BY <1>4, <1>6, <2>1, <2>2, <2>3, <3>1 DEF InPlace, Lasting
  <2> QED
    BY <1>8, <2>1, <2>2, <2>3
<1>10. CASE StoresKey(c)
  <2>1. Done(c, p) /\ p.steps[1] = "store_key"
    BY <1>2, <1>10 DEF StoresKey, p
  <2>2. p.cmd # "install"
    <3>1. 1 \in 1..Len(p.steps)
      BY <1>1, <1>2 DEF p
    <3> QED
      BY <1>6, <2>1, <3>1 DEF Chained
  <2> QED
    BY <1>1, <1>5, <1>8, <2>1, <2>2 DEF UserSteps
<1>11. CASE ReadsKey(c)
  <2> DEFINE g == [p EXCEPT !.key = secret]
  <2>1. Done(c, g) /\ p.steps[1] = "read_key" /\ UNCHANGED fileVars
    BY <1>2, <1>11 DEF ReadsKey, p
  <2>2. g \in Processes /\ g.cmd = p.cmd /\ g.steps = p.steps /\ g.owner = p.owner /\ g.key = secret
    BY <1>1 DEF Processes, OwnerIInv
  <2> HIDE DEF g
  <2>3. Lasting
    BY <2>1 DEF Lasting, fileVars
  <2>4. ASSUME p.cmd = "install", Len(p.steps) # 1
        PROVE  InPlace(g, rest, secret', keyFile', keyLocked', access', config')
    <3>1. "fill_key_file" \in rest
      BY <1>6, <1>7, <2>1, <2>4 DEF Chained
    <3> QED
      BY <1>4, <1>6, <2>1, <2>2, <2>4, <3>1 DEF InPlace, fileVars
  <2> QED
    BY <1>8, <2>1, <2>2, <2>3, <2>4
<1>12. CASE LocksDirectory(c)
  <2>1. /\ Done(c, p) /\ p.steps[1] = "lock_directory"
        /\ UNCHANGED <<secret, keyFile, keyLocked, config>>
    BY <1>2, <1>12 DEF LocksDirectory, p
  <2>2. ASSUME p.cmd = "install", Len(p.steps) # 1
        PROVE  InPlace(p, rest, secret', keyFile', keyLocked', access', config')
    <3>1. "grant_directory" \in rest
      BY <1>6, <1>7, <2>1, <2>2 DEF Chained
    <3> QED
      BY <1>4, <1>6, <2>1, <2>2, <3>1 DEF InPlace
  <2> QED
    BY <1>1, <1>5, <1>8, <2>1, <2>2 DEF UserSteps
<1>13. CASE OpensKeyFile(c)
  <2>1. /\ Done(c, p) /\ p.steps[1] = "open_key_file"
        /\ UNCHANGED <<secret, keyLocked, access, config>>
    BY <1>2, <1>13 DEF OpensKeyFile, p
  <2>2. ASSUME p.cmd = "install", Len(p.steps) # 1
        PROVE  InPlace(p, rest, secret', keyFile', keyLocked', access', config')
    <3>1. "fill_key_file" \in rest
      BY <1>6, <1>7, <2>1, <2>2 DEF Chained
    <3> QED
      BY <1>4, <1>6, <2>1, <2>2, <3>1 DEF InPlace
  <2> QED
    BY <1>1, <1>5, <1>8, <2>1, <2>2 DEF UserSteps
<1>14. CASE FillsKeyFile(c)
  <2>1. /\ Done(c, p) /\ p.steps[1] = "fill_key_file" /\ keyFile' = p.key
        /\ UNCHANGED <<secret, keyLocked, access, config>>
    BY <1>2, <1>14 DEF FillsKeyFile, p
  <2>2. ASSUME p.cmd = "install", Len(p.steps) # 1
        PROVE  InPlace(p, rest, secret', keyFile', keyLocked', access', config')
    BY <1>4, <1>6, <2>1, <2>2 DEF InPlace
  <2> QED
    BY <1>1, <1>5, <1>8, <2>1, <2>2 DEF UserSteps
<1>15. CASE LocksKeyFile(c)
  <2>1. /\ Done(c, p) /\ p.steps[1] = "lock_key_file" /\ keyLocked' = TRUE
        /\ UNCHANGED <<secret, keyFile, access, config>>
    BY <1>2, <1>15 DEF LocksKeyFile, p
  <2>2. ASSUME p.cmd = "install", Len(p.steps) # 1
        PROVE  InPlace(p, rest, secret', keyFile', keyLocked', access', config')
    BY <1>4, <1>6, <2>1, <2>2 DEF InPlace
  <2> QED
    BY <1>1, <1>5, <1>8, <2>1, <2>2 DEF UserSteps
<1>16. CASE GrantsDirectory(c)
  <2>1. /\ Done(c, p) /\ p.steps[1] = "grant_directory" /\ access' = "user_and_service"
        /\ UNCHANGED <<secret, keyFile, keyLocked, config>>
    BY <1>2, <1>16 DEF GrantsDirectory, p
  <2>2. ASSUME p.cmd = "install", Len(p.steps) # 1
        PROVE  InPlace(p, rest, secret', keyFile', keyLocked', access', config')
    BY <1>4, <1>6, <2>1, <2>2 DEF InPlace
  <2> QED
    BY <1>1, <1>5, <1>8, <2>1, <2>2 DEF UserSteps
<1>17. CASE SetsOwner(c)
  <2> DEFINE g == [p EXCEPT !.owner = TRUE]
  <2>1. Done(c, g) /\ p.steps[1] = "set_owner" /\ UNCHANGED fileVars
    BY <1>2, <1>17 DEF SetsOwner, p
  <2>2. g \in Processes /\ g.cmd = p.cmd /\ g.steps = p.steps /\ g.owner /\ g.key = p.key
    BY <1>1 DEF Processes
  <2> HIDE DEF g
  <2>3. Lasting
    BY <2>1 DEF Lasting, fileVars
  <2>4. ASSUME p.cmd = "install", Len(p.steps) # 1
        PROVE  InPlace(g, rest, secret', keyFile', keyLocked', access', config')
    <3>1. "rename_tmp" \in rest
      BY <1>6, <1>7, <2>1, <2>4 DEF Chained
    <3> QED
      BY <1>4, <1>6, <2>1, <2>2, <2>4, <3>1 DEF InPlace, fileVars
  <2> QED
    BY <1>8, <2>1, <2>2, <2>3, <2>4
<1>18. CASE OpensTmp(c) \/ FillsTmp(c)
  <2>1. /\ Done(c, p) /\ p.steps[1] \in {"open_tmp", "fill_tmp"}
        /\ UNCHANGED <<secret, keyFile, keyLocked, access, config>>
    BY <1>2, <1>18 DEF OpensTmp, FillsTmp, p
  <2>2. ASSUME p.cmd = "install", Len(p.steps) # 1
        PROVE  InPlace(p, rest, secret', keyFile', keyLocked', access', config')
    BY <1>4, <1>6, <2>1, <2>2 DEF InPlace
  <2> QED
    BY <1>1, <1>5, <1>8, <2>1, <2>2 DEF TmpSteps
<1>19. CASE RenamesTmp(c)
  <2>1. /\ Done(c, p) /\ p.steps[1] = "rename_tmp"
        /\ UNCHANGED <<secret, keyFile, keyLocked, access>>
        /\ config' = IF p.owner THEN "owned" ELSE "plain"
    BY <1>1, <1>2, <1>19 DEF RenamesTmp, Holds, p
  <2>2. ASSUME p.cmd = "install", Len(p.steps) # 1
        PROVE  InPlace(p, rest, secret', keyFile', keyLocked', access', config')
    BY <1>4, <1>6, <2>1, <2>2 DEF InPlace
  <2> QED
    BY <1>1, <1>5, <1>8, <2>1, <2>2 DEF TmpSteps
<1>20. CASE RenameFails(c)
  <2>1. cli' = [cli EXCEPT ![c] = Idle] /\ p.steps[1] = "rename_tmp"
    BY <1>2, <1>20 DEF RenameFails
  <2>2. cli[c].cmd \in UserCommands
    BY <1>5, <2>1 DEF TmpSteps, p
  <2> QED
    BY <2>1, <2>2, EndsPrepared
<1> QED
  BY <1>9, <1>10, <1>11, <1>12, <1>13, <1>14, <1>15, <1>16, <1>17, <1>18, <1>19, <1>20

LEMMA PreparedPreserves ==
    ASSUME UserCommands \subseteq Exclusive, OwnerIInv, PreparedIInv, [Next]_vars
    PROVE  PreparedIInv'
<1>1. ASSUME UNCHANGED <<cli, fileVars>> PROVE PreparedIInv'
  BY <1>1 DEF fileVars, PreparedIInv, Confined, Prepared
<1>2. ASSUME NEW c \in Clis, Dies(c) PROVE PreparedIInv'
  BY <1>2, EndsPrepared DEF Dies, Lasting, fileVars
<1>3. ASSUME NEW c \in Clis, Registers(c) \/ Starts(c) \/ Stops(c) \/ StopsFirst(c) \/ Deletes(c),
             UNCHANGED fileVars
      PROVE  PreparedIInv'
  <2> DEFINE p == cli[c]
  <2>1. p.steps # <<>> /\ p.steps[1] \in {"register", "start", "stop", "stop_first", "delete"} /\ Done(c, p)
    BY <1>3 DEF Registers, Starts, Stops, StopsFirst, Deletes, At
  <2>2. p \in Processes /\ p.steps \in Seq(Steps)
    BY DEF OwnerIInv, Processes
  <2>3. Lasting
    BY <1>3 DEF Lasting, fileVars
  <2>4. ASSUME p.cmd = "install", Len(p.steps) # 1
        PROVE  InPlace(p, Left(Tail(p.steps)), secret', keyFile', keyLocked', access', config')
    <3>1. InPlace(p, Left(p.steps), secret, keyFile, keyLocked, access, config)
      BY <2>4 DEF PreparedIInv, Prepared
    <3>2. \A x : x # p.steps[1] => (x \in Left(Tail(p.steps)) <=> x \in Left(p.steps))
      BY <2>1, <2>2, <2>4, Remaining
    <3> QED
      BY <1>3, <2>1, <3>1, <3>2 DEF InPlace, fileVars
  <2> HIDE DEF p
  <2> QED
    BY <2>1, <2>2, <2>3, <2>4, AdvancePrepared DEF p
<1>4. CASE ControlStep
  BY <1>3, <1>4 DEF ControlStep
<1>5. CASE StartStep \/ RunStep \/ WorkStep \/ Removed \/ UNCHANGED vars
  BY <1>1, <1>5 DEF StartStep, StartPasses, StartStops, RunStep, WorkStep, Removed, machineVars, vars
<1>6. CASE Boot
  <2>1. \A c \in Clis : cli'[c] = Idle
    BY <1>6 DEF Boot
  <2>2. Left(<<>>) = {}
    BY DEF Left
  <2> QED
    BY <2>1, <2>2, IdleHolds DEF PreparedIInv, Confined, UserCommands
<1> QED
  BY <1>2, <1>4, <1>5, <1>6, BeginsPrepared, FilesPrepared DEF Next

\* No process starts without a service, nor while Execute goes on: one that
\* the manager takes for stopped is gone or about to return.
Settled == scm \in {"absent", "stopped"} => at \in {0, Returning}

LEMMA SettledPreserves == Settled /\ [Next]_vars => Settled'
<1> SUFFICES ASSUME Settled, [Next]_vars PROVE Settled'
  OBVIOUS
<1> USE Positions, Names
<1>1. ASSUME at' = at, scm' = scm \/ scm' \notin {"absent", "stopped"} \/ scm \in {"absent", "stopped"}
      PROVE  Settled'
  BY <1>1 DEF Settled
<1>2. ASSUME NEW c \in Clis, Registers(c) \/ Starts(c) \/ Stops(c) \/ StopsFirst(c) \/ Deletes(c)
      PROVE  Settled'
  <2>1. CASE Starts(c)
    BY <2>1 DEF Starts, Launched, Settled
  <2>2. CASE Registers(c) \/ Stops(c) \/ StopsFirst(c) \/ Deletes(c)
    BY <1>1, <2>2 DEF Registers, Stops, StopsFirst, Deletes, AsksStop, serviceVars
  <2> QED
    BY <1>2, <2>1, <2>2
<1>3. CASE StartStep
  <2>1. PICK i \in DOMAIN Startup : Passes(Startup[i]) \/ NoPipe \/ StartFails(Startup[i])
    BY <1>3 DEF StartStep, StartPasses, StartStops
  <2>2. at \in 1..8 /\ (scm' = scm \/ scm' = "running" \/ at' = Returning)
    BY <2>1 DEF Passes, NoPipe, StartFails
  <2>3. scm \notin {"absent", "stopped"}
    BY <2>2 DEF Settled
  <2> QED
    BY <2>2, <2>3 DEF Settled
<1>4. CASE RunStep
  <2>1. CASE ProcessEnds
    BY <2>1 DEF ProcessEnds, ProcessGone, Settled
  <2>2. CASE ReceivesStop
    BY <2>2 DEF ReceivesStop, Settled
  <2>3. CASE RunsDeferred
    BY <1>1, <2>3 DEF RunsDeferred
  <2> QED
    BY <1>4, <2>1, <2>2, <2>3 DEF RunStep, Execute
<1>5. CASE WorkStep
  <2>1. CASE ProcessDies
    BY <2>1 DEF ProcessDies, ProcessGone, Settled
  <2>2. CASE Works
    BY <1>1, <2>2 DEF Works, TaskBegins, HandlerBegins, PollingEnds, LeavesBehind, Builds, Sends, WorkEnds
  <2> QED
    BY <1>5, <2>1, <2>2 DEF WorkStep
<1>6. CASE Removed
  BY <1>1, <1>6 DEF Removed
<1>7. CASE Boot
  BY <1>7 DEF Boot, ProcessGone, ProcessRestarted, Settled
<1>8. ASSUME UNCHANGED serviceVars PROVE Settled'
  BY <1>1, <1>8 DEF serviceVars
<1> QED
  BY <1>2, <1>3, <1>4, <1>5, <1>6, <1>7, <1>8
  DEF Next, Begins, Dies, FileStep, ControlStep, vars

\* Only the installation registers a service, as the last of its steps.
LEMMA OnlyRegisters ==
    ASSUME OwnerIInv, PreparedIInv, Settled, [Next]_vars, scm = "absent", scm' # "absent"
    PROVE  keyFile = secret /\ keyLocked /\ access = "user_and_service" /\ config = "owned"
<1> USE Positions, Names
<1>1. at \in {0, 10}
  BY DEF Settled
<1>2. ~StartStep
  BY <1>1 DEF StartStep, StartPasses, StartStops, Passes, NoPipe, StartFails
<1>3. ~RunStep /\ ~WorkStep
  BY <1>1 DEF RunStep, Execute, ReceivesStop, RunsDeferred, ProcessEnds, WorkStep, Works, TaskBegins,
              HandlerBegins, PollingEnds, LeavesBehind, Builds, Sends, WorkEnds, ProcessDies
<1>4. ~Removed /\ ~Boot /\ ~FileStep /\ ~UNCHANGED vars
  BY DEF Removed, Boot, FileStep, vars, serviceVars
<1>5. \A c \in Clis : ~Dies(c) /\ \A cmd \in Commands : ~Begins(c, cmd)
  BY DEF Dies, Begins, serviceVars
<1>6. PICK c \in Clis : Registers(c) \/ Starts(c) \/ Stops(c) \/ StopsFirst(c) \/ Deletes(c)
  BY <1>2, <1>3, <1>4, <1>5 DEF Next, ControlStep
<1>7. Registers(c)
  BY <1>6 DEF Starts, Stops, StopsFirst, Deletes
<1> DEFINE p == cli[c]
<1>8. p.steps \in Seq(Steps) /\ p.steps # <<>> /\ p.steps[1] = "register"
  BY <1>7 DEF OwnerIInv, Processes, Registers, At
<1>9. p.cmd = "install"
  BY <1>8, Remaining DEF PreparedIInv, Confined
<1>10. Chained(p.steps) /\ InPlace(p, Left(p.steps), secret, keyFile, keyLocked, access, config)
  BY <1>9 DEF PreparedIInv, Prepared
<1>11. Left(p.steps) = {"register"}
  BY <1>8, <1>10, RegisterAlone
<1> QED
  BY <1>10, <1>11 DEF InPlace

\* When the user runs one command at a time that touches the key, its file or
\* the directory, a service that is registered has all it needs to start.
THEOREM Registered ==
    {"setup", "install", "terminal"} \subseteq Exclusive => (Spec => RegisteredLast)
<1> SUFFICES ASSUME {"setup", "install", "terminal"} \subseteq Exclusive
             PROVE  Spec => RegisteredLast
  OBVIOUS
<1> DEFINE IInv == OwnerIInv /\ PreparedIInv /\ Settled
<1>1. InstallationInit => IInv
  BY OwnerInit, PreparedInit DEF InstallationInit, ServiceInit, Settled
<1>2. IInv /\ [Next]_vars => IInv'
  BY OwnerPreserves, PreparedPreserves, SettledPreserves DEF UserCommands
<1>3. IInv /\ [Next]_vars =>
          [scm = "absent" /\ scm' # "absent" =>
              keyFile = secret /\ keyLocked /\ access = "user_and_service" /\ config = "owned"]_vars
  BY OnlyRegisters
<1> QED
  BY <1>1, <1>2, <1>3, PTL DEF Spec, RegisteredLast
=============================================================================
