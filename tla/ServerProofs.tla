----------------------------- MODULE ServerProofs -----------------------------
(* Proofs about the process, for any requests, timeouts, environment and number  *)
(* of restarts.                                                                  *)
EXTENDS Server, TLAPS

USE ServerAssumption

Up == {"serving", "draining"}

ServerTypeOK ==
  /\ clock \in 0 .. MaxTime
  /\ {signalAt, dockerAt} \subseteq 0 .. Never
  /\ proc \in {"load", "migrate", "construct", "down"} \cup Up
  /\ listener \in {"none", "open", "failing", "closed"}
  /\ req \in [Requests -> {"none", "running", "answered", "refused", "cut"}]

(* How far main has come says what it has checked; the schema survives it.       *)
Checked ==
  /\ proc \in {"migrate", "construct"} \cup Up => Loads(env)
  /\ proc \in {"construct"} \cup Up => migrated
  /\ proc \in Up => Constructs(env)
  /\ migrated => Loads(env)

(* What runs was accepted by a listener of this process, which shuts down only   *)
(* after it was told to.                                                         *)
Held ==
  /\ listener # "none" => proc \in Up
  /\ Running # {} => listener # "none"
  /\ proc = "draining" => signalAt # Never

ServerInv == ServerTypeOK /\ Checked /\ Held

(* The process ends with requests running only when it may cut them off.         *)
MayExit == Running = {} \/ MayCut

(* An exit, with whatever code, leaves nothing of the process behind.            *)
LEMMA ExitKeeps ==
  ASSUME ServerInv, NEW c, Exit(c)
  PROVE  ServerTypeOK' /\ Checked' /\ Held'
<1>1. ServerTypeOK'
  BY DEF ServerInv, ServerTypeOK, Exit, world, Running, Never
<1>2. Running' = {}
  BY DEF Exit, Running, ServerInv, ServerTypeOK
<1> QED BY <1>1, <1>2 DEF ServerInv, Checked, Held, Exit, world, Up

(* Every way in which the process ends by itself or is killed.                   *)
LEMMA ExitOnlyLate ==
  ASSUME ServerInv, NEW c, Exit(c),
         Load \/ Migrate \/ Construct \/ Listen(FALSE) \/ ServeFails \/ ShutdownEnds \/ Kill
  PROVE  MayExit
<1> USE DEF ServerInv, ServerTypeOK, Held, Up
<1>1. CASE Load \/ Migrate \/ Construct
  BY <1>1 DEF Load, Migrate, Construct, MayExit
<1>2. CASE Listen(FALSE)
  BY <1>2 DEF Listen, MayExit
<1>3. CASE ShutdownEnds
  BY <1>3 DEF ShutdownEnds, MayExit, MayCut, Over
<1>4. CASE Kill
  BY <1>4 DEF Kill, MayExit, MayCut
<1>5. CASE ServeFails
  BY <1>5 DEF ServeFails, MayExit, MayCut
<1> QED BY <1>1, <1>2, <1>3, <1>4, <1>5

(* A step either ends the process, in one of those ways, or cuts nothing off and *)
(* ends it only at a signal.                                                     *)
Exits == \E c \in {"ok", "fatal", "killed"} : Exit(c) /\ MayExit /\ (c = "ok" => Running = {})

Stays ==
  /\ \A r \in Requests : req'[r] = "cut" => req[r] = "cut"
  /\ proc # "down" /\ proc' = "down" => code' # "ok"

(* The steps of main before it listens.                                          *)
LEMMA StartupStep ==
  ASSUME ServerInv, Load \/ Migrate \/ Construct
  PROVE  ServerInv' /\ (Exits \/ Stays)
<1>1. CASE Exit("fatal")
  BY <1>1, ExitKeeps, ExitOnlyLate DEF Exits, ServerInv
<1>2. CASE ~Exit("fatal")
  <2>1. /\ UNCHANGED <<world, listener, req, signalAt, dockerAt, code>>
        /\ proc' \in {"migrate", "construct", "serving"} /\ proc # "down"
        /\ Running' = Running
    BY <1>2 DEF Load, Migrate, Construct, Goes, Running
  <2>2. Checked'
    BY <1>2 DEF Load, Migrate, Construct, Goes, world, ServerInv, Checked, Up
  <2>3. Held' /\ ServerTypeOK'
    <3>1. Running = {} /\ listener = "none"
      BY DEF Load, Migrate, Construct, ServerInv, ServerTypeOK, Held, Up
    <3> QED BY <2>1, <3>1 DEF world, ServerInv, ServerTypeOK, Held, Up
  <2>4. Stays BY <2>1 DEF Stays
  <2> QED BY <2>2, <2>3, <2>4 DEF ServerInv
<1> QED BY <1>1, <1>2

(* The goroutine of ListenAndServe, to the error it returns.                     *)
LEMMA ListenStep ==
  ASSUME ServerInv, NEW bound \in BOOLEAN,
         Listen(bound) \/ ListenLate \/ AcceptFails \/ ServeFails
  PROVE  ServerInv' /\ (Exits \/ Stays)
<1>1. CASE Listen(bound) /\ ~bound
  <2>1. Exit("fatal") /\ Running = {}
    BY <1>1 DEF Listen, ServerInv, Held
  <2> QED BY <2>1, ExitKeeps DEF Exits, MayExit, ServerInv
<1>2. CASE (Listen(bound) /\ bound) \/ ListenLate \/ AcceptFails
  BY <1>2 DEF Listen, ListenLate, AcceptFails, world, ServerInv, ServerTypeOK, Checked, Held,
    Running, Stays, Up
<1>3. CASE ServeFails
  <2>1. Exit("fatal") BY <1>3 DEF ServeFails
  <2> QED BY <1>3, <2>1, ExitKeeps, ExitOnlyLate DEF Exits, ServerInv
<1> QED BY <1>1, <1>2, <1>3

(* The steps of a request.                                                       *)
LEMMA RequestStep ==
  ASSUME ServerInv, NEW r \in Requests, Arrive(r) \/ Finish(r)
  PROVE  ServerInv' /\ Stays
<1> USE DEF ServerInv, ServerTypeOK, Up
<1>1. ServerTypeOK' BY DEF Arrive, Finish, world
<1>2. Checked' BY DEF Arrive, Finish, world, Checked
<1>3. Held'
  <2>1. CASE Arrive(r) /\ listener = "open" BY <2>1 DEF Arrive, world, Held
  <2>2. CASE Finish(r) \/ listener # "open"
    <3>1. Running' \subseteq Running BY <2>2 DEF Arrive, Finish, Running
    <3> QED BY <3>1 DEF Arrive, Finish, world, Held
  <2> QED BY <2>1, <2>2
<1>4. Stays BY DEF Arrive, Finish, Stays
<1> QED BY <1>1, <1>2, <1>3, <1>4

(* The steps of the shutdown, and the signals that start and end it.             *)
LEMMA ShutdownStep ==
  ASSUME ServerInv,
         CloseListener \/ ShutdownEnds \/ Kill \/ Signal \/ DockerStop
  PROVE  ServerInv' /\ (Exits \/ Stays)
<1>1. CASE ShutdownEnds
  <2>1. PICK c \in {"ok", "fatal"} : Exit(c) /\ (c = "ok" => Running = {})
    BY <1>1 DEF ShutdownEnds
  <2> QED BY <1>1, <2>1, ExitKeeps, ExitOnlyLate DEF Exits, ServerInv
<1>2. CASE Kill
  <2>1. Exit("killed") BY <1>2 DEF Kill
  <2> QED BY <1>2, <2>1, ExitKeeps, ExitOnlyLate DEF Exits, ServerInv
<1>3. CASE CloseListener
  BY <1>3 DEF CloseListener, world, ServerInv, ServerTypeOK, Checked, Held, Running, Stays, Up
<1>4. CASE Signal \/ DockerStop
  <2>1. clock + Grace <= MaxTime /\ clock \in 0 .. Never /\ clock # Never
    BY <1>4 DEF Signal, DockerStop, ServerInv, ServerTypeOK, Never
  <2>2. UNCHANGED <<world, listener, req, migrated>> /\ dockerAt' \in {dockerAt, clock}
    BY <1>4 DEF Signal, DockerStop
  <2>3. Running' = Running
    BY <2>2 DEF Running
  <2>4. Terminate \/ UNCHANGED <<proc, code, signalAt>>
    BY <1>4 DEF Signal, DockerStop
  <2>5. ServerTypeOK' /\ Checked' /\ Held'
    BY <2>1, <2>2, <2>3, <2>4 DEF Terminate, world, ServerInv, ServerTypeOK, Checked, Held, Up
  <2>6. Stays
    BY <2>2, <2>4 DEF Terminate, Stays
  <2> QED BY <2>5, <2>6 DEF ServerInv
<1> QED BY <1>1, <1>2, <1>3, <1>4

(* The steps of the database, the clock and the supervisor.                      *)
LEMMA OutsideStep ==
  ASSUME ServerInv, Restart \/ DatabaseUp \/ DatabaseDown \/ Tick
  PROVE  ServerInv' /\ Stays
<1>1. CASE Restart
  BY <1>1 DEF Restart, world, Never, ServerInv, ServerTypeOK, Checked, Held, Running, Stays, Up
<1>2. CASE DatabaseUp \/ DatabaseDown \/ Tick
  BY <1>2 DEF DatabaseUp, DatabaseDown, Tick, ServerInv, ServerTypeOK, Checked, Held, Running,
    Stays, Up
<1> QED BY <1>1, <1>2

(* So every step keeps the invariant, and exits as it may or cuts nothing off.   *)
LEMMA ServerStep ==
  ASSUME ServerInv, Next
  PROVE  ServerInv' /\ (Exits \/ Stays)
BY StartupStep, ListenStep, RequestStep, ShutdownStep, OutsideStep DEF Next, Process, Outside

(* The invariant holds to begin with.                                            *)
LEMMA ServerInit == Init => ServerInv
BY DEF Init, ServerInv, ServerTypeOK, Checked, Held, Running, Up, Never

(* And where nothing happens.                                                    *)
LEMMA ServerStutter ==
  ASSUME ServerInv, UNCHANGED vars
  PROVE  ServerInv'
BY DEF vars, ServerInv, ServerTypeOK, Checked, Held, Running

(* In every run of the server the invariant holds (main and run in cmd/api).     *)
THEOREM ServerInvariance == Spec => []ServerInv
<1>1. ServerInv /\ [Next]_vars => ServerInv'
  BY ServerStep, ServerStutter
<1> QED BY <1>1, ServerInit, PTL DEF Spec

(* Requests are only accepted by a process whose configuration is whole and      *)
(* whose schema is there (main.go:67-129), through any number of restarts.        *)
THEOREM ServedConfigured == Spec => []ServesConfigured
<1>1. ServerInv => ServesConfigured
  BY DEF ServerInv, ServesConfigured, Checked, Held
<1> QED BY <1>1, ServerInvariance, PTL

(* A request is cut off only when the grace of main or of Docker is over          *)
(* (main.go:57), or by a listener that has failed (main.go:49-50).               *)
THEOREM CutLate == Spec => CutOnlyLate
<1> DEFINE Cut == \A r \in Requests : req[r] = "running" /\ req'[r] = "cut" => MayCut
<1>1. ServerInv /\ [Next]_vars => [Cut]_vars
  <2>1. ServerInv /\ Next => Cut
    BY ServerStep DEF Exits, Stays, MayExit, Running
  <2> QED BY <2>1
<1> QED BY <1>1, ServerInvariance, PTL DEF Spec, CutOnlyLate

(* Exit code 0 means everything accepted was answered (main.go:60).              *)
THEOREM CleanExit == Spec => CleanExitAnswersAll
<1> DEFINE Clean == proc # "down" /\ proc' = "down" /\ code' = "ok" =>
      \A r \in Requests : req'[r] # "cut" \/ req[r] = "cut"
<1>1. ServerInv /\ [Next]_vars => [Clean]_vars
  <2>1. ServerInv /\ Next => Clean
    <3> SUFFICES ASSUME ServerInv, Next PROVE Clean
      OBVIOUS
    <3>1. CASE Exits
      BY <3>1 DEF Exits, Exit, Running, ServerInv, ServerTypeOK
    <3>2. CASE Stays
      BY <3>2 DEF Stays
    <3> QED BY <3>1, <3>2, ServerStep
  <2> QED BY <2>1
<1> QED BY <1>1, ServerInvariance, PTL DEF Spec, CleanExitAnswersAll
==============================================================================
