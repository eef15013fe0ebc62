------------------------------- MODULE Server --------------------------------
(* cmd/main.go: the process that docker-compose.yml keeps up, from run() to the  *)
(* end of Shutdown, and the requests it holds.  A unit of time is the greatest   *)
(* that divides the timeouts (10 seconds).  net/http, the operating system,      *)
(* Docker and PostgreSQL are external.                                           *)
EXTENDS Naturals, Config

CONSTANTS Requests,         \* the requests clients send, each once
          Grace,            \* context.WithTimeout(..., 30*time.Second)
          StopGrace,        \* how long docker stop waits before it kills
          MaxTime,          \* bound on the clock
          MaxFlaps          \* bound on how often PostgreSQL goes away

ASSUME ServerAssumption ==
  /\ {Grace, StopGrace} \subseteq Nat \ {0}
  /\ MaxTime \in Nat /\ MaxFlaps \in Nat

VARIABLES clock,
          env,              \* the environment and .env of the container
          proc,             \* where main is
          listener,         \* the goroutine of ListenAndServe: none, open, failing, closed
          req,              \* req[r]: none, running, answered, refused or cut
          signalAt,         \* when main received SIGINT or SIGTERM, or Never
          dockerAt,         \* when docker stop was called, or Never
          code,             \* the exit code of the last process, or "none"
          database,         \* whether PostgreSQL answers
          migrated,         \* whether Migrate has succeeded on it
          flaps

vars == <<clock, env, proc, listener, req, signalAt, dockerAt, code, database, migrated, flaps>>
world == <<clock, env, database, flaps>>

Never == MaxTime + 1

Init ==
  /\ clock = 0 /\ env \in Environments /\ proc = "load" /\ listener = "none"
  /\ req = [r \in Requests |-> "none"]
  /\ signalAt = Never /\ dockerAt = Never /\ code = "none"
  /\ database \in BOOLEAN /\ migrated = FALSE /\ flaps = 0

Running == {r \in Requests : req[r] = "running"}

(* The process ends: its listener goes, what it was serving is cut off.          *)
Exit(c) ==
  /\ proc' = "down" /\ code' = c /\ listener' = "none"
  /\ req' = [r \in Requests |-> IF r \in Running THEN "cut" ELSE req[r]]
  /\ UNCHANGED <<world, signalAt, dockerAt, migrated>>

Goes(to) == proc' = to /\ UNCHANGED <<world, listener, req, signalAt, dockerAt, code>>

Load ==
  /\ proc = "load"
  /\ IF Loads(env) THEN Goes("migrate") /\ UNCHANGED migrated ELSE Exit("fatal")

(* database.New opens no connection; Migrate is the first to need one.           *)
Migrate ==
  /\ proc = "migrate"
  /\ IF database THEN Goes("construct") /\ migrated' = TRUE ELSE Exit("fatal")

(* Mutant: the constructors take what they get.                                  *)
ConstructUnchecked ==
  /\ proc = "construct"
  /\ Goes("serving") /\ UNCHANGED migrated

Construct ==
  /\ proc = "construct"
  /\ IF Constructs(env) THEN Goes("serving") /\ UNCHANGED migrated ELSE Exit("fatal")

(* ListenAndServe, in its goroutine, whether or not it can bind.                 *)
Listen(bound) ==
  /\ proc \in {"serving", "draining"} /\ listener = "none"
  /\ IF bound
       THEN /\ listener' = "open"
            /\ UNCHANGED <<world, proc, req, signalAt, dockerAt, code, migrated>>
       ELSE Exit("fatal")

(* Once Shutdown has begun it does not listen, and returns ErrServerClosed.      *)
ListenLate ==
  /\ proc = "draining" /\ listener = "none"
  /\ listener' = "closed"
  /\ UNCHANGED <<world, proc, req, signalAt, dockerAt, code, migrated>>

(* Accept fails for good, before Shutdown has begun.                             *)
AcceptFails ==
  /\ listener = "open" /\ listener' = "failing"
  /\ UNCHANGED <<world, proc, req, signalAt, dockerAt, code, migrated>>

(* Its error is not ErrServerClosed: log.Fatal, whatever is being served.         *)
ServeFails == listener = "failing" /\ Exit("fatal")

Arrive(r) ==
  /\ req[r] = "none"
  /\ IF listener = "open"
       THEN req' = [req EXCEPT ![r] = "running"]
       ELSE req' = [req EXCEPT ![r] = "refused"]
  /\ UNCHANGED <<world, proc, listener, signalAt, dockerAt, code, migrated>>

(* A handler answers.  Its context ends after 60 seconds, but nothing stops it.   *)
Finish(r) ==
  /\ req[r] = "running"
  /\ req' = [req EXCEPT ![r] = "answered"]
  /\ UNCHANGED <<world, proc, listener, signalAt, dockerAt, code, migrated>>

(* SIGINT or SIGTERM.  Before main listens for it, it kills the process;         *)
(* afterwards main calls Shutdown, and later signals are swallowed.              *)
Terminate ==
  \/ /\ proc = "serving" /\ proc' = "draining"
     /\ signalAt' = clock /\ UNCHANGED code
  \/ /\ proc \in {"load", "migrate", "construct"} /\ proc' = "down"
     /\ code' = "killed" /\ UNCHANGED signalAt

Signal ==
  /\ clock + Grace <= MaxTime
  /\ Terminate
  /\ UNCHANGED <<world, listener, req, dockerAt, migrated>>

(* docker stop: SIGTERM, also to a process that was told before, and no restart. *)
DockerStop ==
  /\ dockerAt = Never /\ clock + Grace <= MaxTime
  /\ dockerAt' = clock
  /\ \/ Terminate
     \/ proc \in {"draining", "down"} /\ UNCHANGED <<proc, code, signalAt>>
  /\ UNCHANGED <<world, listener, req, migrated>>

(* Mutant: the test for http.ErrServerClosed is missing.                         *)
CloseListenerFatal ==
  /\ proc = "draining" /\ listener = "open"
  /\ Exit("fatal")

(* Shutdown closes the listener first; ListenAndServe returns ErrServerClosed,   *)
(* which is no reason to end the process.                                        *)
CloseListener ==
  /\ proc = "draining" /\ listener = "open"
  /\ listener' = "closed"
  /\ UNCHANGED <<world, proc, req, signalAt, dockerAt, code, migrated>>

(* Mutant: the error of Shutdown is dropped.                                     *)
ShutdownEndsQuiet ==
  /\ proc = "draining" /\ listener # "open"
  /\ Running = {} \/ clock >= signalAt + Grace
  /\ Exit("ok")

(* Mutant: Shutdown is called without a deadline.                                *)
ShutdownEndsUnbounded ==
  /\ proc = "draining" /\ listener # "open"
  /\ Running = {} /\ Exit("ok")

(* Shutdown returns when nothing runs, or with the error of its context.         *)
ShutdownEnds ==
  /\ proc = "draining" /\ listener # "open"
  /\ \/ Running = {} /\ Exit("ok")
     \/ Running # {} /\ clock >= signalAt + Grace /\ Exit("fatal")

(* Whether what began at a time has lasted for d.                                 *)
Over(at, d) == at # Never /\ clock >= at + d

(* docker stop, when its patience is over.                                       *)
Kill ==
  /\ proc # "down" /\ Over(dockerAt, StopGrace)
  /\ Exit("killed")

(* Mutant: restart: on-failure, taken the wrong way round.                       *)
RestartOnSuccess ==
  /\ proc = "down" /\ dockerAt = Never /\ code = "ok"
  /\ proc' = "load" /\ signalAt' = Never
  /\ UNCHANGED <<world, listener, req, dockerAt, code, migrated>>

(* restart: unless-stopped.                                                      *)
Restart ==
  /\ proc = "down" /\ dockerAt = Never
  /\ proc' = "load" /\ signalAt' = Never
  /\ UNCHANGED <<world, listener, req, dockerAt, code, migrated>>

(* No timer is overslept.                                                        *)
Due ==
  \/ proc = "draining" /\ Over(signalAt, Grace)
  \/ proc # "down" /\ Over(dockerAt, StopGrace)

Tick ==
  /\ clock < MaxTime /\ ~Due
  /\ clock' = clock + 1
  /\ UNCHANGED <<env, proc, listener, req, signalAt, dockerAt, code, database, migrated, flaps>>

DatabaseUp ==
  /\ ~database /\ database' = TRUE
  /\ UNCHANGED <<clock, env, proc, listener, req, signalAt, dockerAt, code, migrated, flaps>>

DatabaseDown ==
  /\ database /\ flaps < MaxFlaps
  /\ database' = FALSE /\ flaps' = flaps + 1
  /\ UNCHANGED <<clock, env, proc, listener, req, signalAt, dockerAt, code, migrated>>

Process ==
  \/ Load \/ Migrate \/ Construct
  \/ Listen(TRUE) \/ ListenLate \/ ServeFails
  \/ CloseListener \/ ShutdownEnds
Outside == Kill \/ Restart \/ DatabaseUp \/ Tick

Next ==
  \/ Process \/ Outside \/ DatabaseDown \/ Listen(FALSE) \/ AcceptFails
  \/ \E r \in Requests : Arrive(r) \/ Finish(r)
  \/ Signal \/ DockerStop

Spec == Init /\ [][Next]_vars

(* main goes on, Docker does what it is set to, PostgreSQL comes up, time        *)
(* passes, and the port is not always taken.  Nothing is asked of a handler.      *)
FairSpec ==
  /\ Spec
  /\ WF_vars(Process) /\ WF_vars(Kill) /\ WF_vars(Restart)
  /\ WF_vars(DatabaseUp) /\ WF_vars(Tick) /\ SF_vars(Listen(TRUE))

--------------------------------------------------------------------------------
(* An accepted request is cut off only when the time main grants it after the     *)
(* signal is over (main.go:57), or that of Docker, which grants less, or by a     *)
(* listener that has failed (main.go:49-50): log.Fatal then waits for nobody.    *)
(* A request that takes up to 60 seconds can be cut at 30.                       *)
MayCut == listener = "failing" \/ Over(signalAt, Grace) \/ Over(dockerAt, StopGrace)

CutOnlyLate ==
  [][\A r \in Requests : req[r] = "running" /\ req'[r] = "cut" => MayCut]_vars

(* A process that ends with exit code 0 has answered all it accepted.            *)
CleanExitAnswersAll ==
  [][proc # "down" /\ proc' = "down" /\ code' = "ok" => \A r \in Requests : req'[r] # "cut" \/ req[r] = "cut"]_vars

(* Requests are accepted only by a process whose configuration is whole and      *)
(* whose schema is there; one that Load refuses has not touched the database.    *)
ServesConfigured ==
  /\ listener = "open" => Loads(env) /\ Constructs(env) /\ migrated
  /\ migrated => Loads(env)

(* A signalled process ends, though a handler may hang.                          *)
StopEnds == proc = "draining" ~> proc = "down"

(* With a good configuration the service comes up, whatever the order in which   *)
(* it and PostgreSQL start, unless docker stop ends it.                          *)
ComesUp ==
  Loads(env) /\ Constructs(env) => <>(listener = "open" \/ dockerAt # Never)
==============================================================================
