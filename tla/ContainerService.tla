-------------------------- MODULE ContainerService ---------------------------
(***************************************************************************)
(* yellowbox.subclasses: a service made of docker containers, from the     *)
(* entry to the exit of the context manager run() (or arun()), against a   *)
(* docker daemon whose containers exit when they like.                     *)
(*                                                                         *)
(* One call to the daemon is one step.  A call that fails raises, and the  *)
(* exception is followed out of the method, the context managers and run().*)
(***************************************************************************)
EXTENDS Retry, Sequences, FiniteSets, SequencesExt

CONSTANTS
  Order,     \* ContainerService.containers: a sequence
  Endpoints, \* _endpoint_containers: the part of it that is connected
  MaxCalls   \* bound on the start() and stop() calls in the body

Containers == Range(Order)

ASSUME ServiceAssumption ==
  /\ Order \in Seq(Containers) /\ IsInjective(Order) /\ Order # <<>>
  /\ Endpoints \in Seq(Containers) /\ IsInjective(Endpoints) /\ Endpoints # <<>>
  /\ MaxCalls \in Nat

VARIABLES
  (* the daemon *)
  state,     \* "none", "created", "running", "exited" or "removed"
  attached,  \* the containers connected to the user's network
  ownNetwork, \* the network that a KafkaService makes for its containers: "unmade", "made" or
              \* "removed"; "none" for a service that has none
  (* the service and its caller *)
  remove,    \* ContainerService.remove
  network,   \* run() was given a network
  phase,     \* where run() is: "create", "link", "connect", "start", "startup", "body", "stop",
             \* "disconnect" or "end"; "over" when its caller has let go of the service
  at,        \* the index of the container whose turn it is
  step,      \* within stop(): "unlink", "check", "kill", "wait" or "remove"
  caller,    \* who called start() or stop(): "run" or the "body"
  raising,   \* an exception is on its way out of run()
  calls,     \* the calls made in the body
  (* history *)
  signalled, \* the containers that were sent the signal of a stop()
  crashed,   \* the containers that exited without it
  failures   \* what has failed: "create", "link", "connect", "start", "startup", "unlink",
             \* "kill" or "wait"

daemonVars == <<state, attached, ownNetwork>>
placeVars == <<phase, at, step, caller, raising>>
historyVars == <<signalled, crashed, failures>>
vars == <<daemonVars, remove, network, placeVars, calls, historyVars, retryVars>>

Init ==
  /\ state = [c \in Containers |-> "none"]
  /\ attached = {} /\ ownNetwork \in {"none", "unmade"}
  /\ remove \in BOOLEAN /\ network \in BOOLEAN
  /\ phase = "create" /\ at = 1 /\ step = "check" /\ caller = "run"
  /\ raising = FALSE
  /\ calls = 0
  /\ signalled = {} /\ crashed = {} /\ failures = {}
  /\ RetryInit

--------------------------------------------------------------------------------
Place(p, i) == phase' = p /\ at' = i /\ step' = "check"
Fail(what) == failures' = failures \cup {what}
Set(c, s) == state' = [state EXCEPT ![c] = s]

\* The exit of networks.connect, or the end of run() without a network.
LeaveNetwork == IF network THEN Place("disconnect", Len(Endpoints)) ELSE Place("end", 1)

\* stop(), of a KafkaService if the containers have a network of their own.
BeginStop ==
  /\ phase' = "stop" /\ at' = Len(Order)
  /\ step' = IF ownNetwork = "none" THEN "check" ELSE "unlink"

\* A call in the body that raises leaves the body, and with it "with service".
LeaveBody == BeginStop /\ caller' = "run"

\* (a defective variant: networks.connect has no finally)
RaisePastNetwork ==
  /\ raising' = TRUE
  /\ IF caller = "body" THEN LeaveBody ELSE Place("end", 1) /\ UNCHANGED caller

\* An exception out of start() or stop(): run() calls start() outside "with service".
Raise ==
  /\ raising' = TRUE
  /\ IF caller = "body" THEN LeaveBody ELSE LeaveNetwork /\ UNCHANGED caller

--------------------------------------------------------------------------------
(* The entry of run(). *)

\* What run() does with the service it has made.
AfterConstructor == IF network THEN Place("connect", 1) ELSE Place("start", 1)

\* The constructor: one container after the other, from a SafeContainerCreator.
Create ==
  /\ phase = "create"
  /\ Set(Order[at], "created")
  /\ IF at < Len(Order) THEN Place("create", at + 1)
     ELSE IF ownNetwork = "unmade" THEN Place("link", 1) ELSE AfterConstructor
  /\ UNCHANGED <<attached, ownNetwork, remove, network, caller, raising, calls, historyVars,
                 retryVars>>

\* (a defective variant: the container made last is forgotten)
CreateFailsKeepingLast ==
  /\ phase = "create"
  /\ state' = [c \in Containers |->
                 IF state[c] = "created" /\ c # Order[at - 1] THEN "removed" ELSE state[c]]
  /\ Place("end", 1) /\ raising' = TRUE
  /\ Fail("create")
  /\ UNCHANGED <<attached, ownNetwork, remove, network, caller, calls, signalled, crashed, retryVars>>

\* A container cannot be created: those before it are removed, and the exception goes on.
CreateFails ==
  /\ phase = "create"
  /\ state' = [c \in Containers |-> IF state[c] = "created" THEN "removed" ELSE state[c]]
  /\ Place("end", 1) /\ raising' = TRUE
  /\ Fail("create")
  /\ UNCHANGED <<attached, ownNetwork, remove, network, caller, calls, signalled, crashed, retryVars>>

\* The constructor of KafkaService goes on: the network, with both containers in it.
MakeNetwork ==
  /\ phase = "link"
  /\ ownNetwork' = "made"
  /\ AfterConstructor
  /\ UNCHANGED <<state, attached, remove, network, caller, raising, calls, historyVars, retryVars>>

\* The network cannot be made, or a container not be put into it: nothing is undone.
MakeNetworkFails ==
  /\ phase = "link"
  /\ ownNetwork' \in {"unmade", "made"}
  /\ Place("end", 1) /\ raising' = TRUE
  /\ Fail("link")
  /\ UNCHANGED <<state, attached, remove, network, caller, calls, signalled, crashed, retryVars>>

Connect ==
  /\ phase = "connect"
  /\ attached' = attached \cup {Endpoints[at]}
  /\ IF at < Len(Endpoints) THEN Place("connect", at + 1) ELSE Place("start", 1)
  /\ UNCHANGED <<state, ownNetwork, remove, network, caller, raising, calls, historyVars, retryVars>>

\* networks.connect calls connect() before its try: nothing is undone.
ConnectFails ==
  /\ phase = "connect"
  /\ Place("end", 1) /\ raising' = TRUE
  /\ Fail("connect")
  /\ UNCHANGED <<daemonVars, remove, network, caller, calls, signalled, crashed, retryVars>>

--------------------------------------------------------------------------------
(* start(). *)

\* The test of c.status against "started" never holds, as no container has that
\* status; starting one that runs changes nothing.
StartContainer ==
  /\ phase = "start" /\ state[Order[at]] \in {"created", "running", "exited"}
  /\ Set(Order[at], "running")
  /\ IF at < Len(Order)
     THEN Place("start", at + 1) /\ UNCHANGED retryVars
     ELSE Place("startup", 1) /\ BeginRetry
  /\ signalled' = signalled \ {Order[at]} /\ crashed' = crashed \ {Order[at]}
  /\ UNCHANGED <<attached, ownNetwork, remove, network, caller, raising, calls, failures>>

\* The daemon refuses, as it does for a container that has been removed.
StartFails ==
  /\ phase = "start"
  /\ Raise
  /\ Fail("start")
  /\ UNCHANGED <<daemonVars, remove, network, calls, signalled, crashed, retryVars>>

\* The check of the service passes only if its containers are there to answer.
Startup ==
  /\ phase = "startup"
  /\ \/ (\A c \in Containers : state[c] = "running") /\ TrySucceeds
     \/ Try
  /\ UNCHANGED <<daemonVars, remove, network, placeVars, calls, historyVars>>

StartupReturns ==
  /\ phase = "startup" /\ retrying = "returned"
  /\ Place("body", 1) /\ caller' = "body"
  /\ EndRetry
  /\ UNCHANGED <<daemonVars, remove, network, raising, calls, historyVars>>

StartupRaises ==
  /\ phase = "startup" /\ retrying \in {"raised", "propagated"}
  /\ Raise
  /\ Fail("startup")
  /\ EndRetry
  /\ UNCHANGED <<daemonVars, remove, network, calls, signalled, crashed>>

--------------------------------------------------------------------------------
(* The body of the with statement. *)

CallStop ==
  /\ phase = "body" /\ calls < MaxCalls
  /\ calls' = calls + 1
  /\ BeginStop
  /\ UNCHANGED <<daemonVars, remove, network, caller, raising, historyVars, retryVars>>

CallStart ==
  /\ phase = "body" /\ calls < MaxCalls
  /\ calls' = calls + 1
  /\ Place("start", 1)
  /\ UNCHANGED <<daemonVars, remove, network, caller, raising, historyVars, retryVars>>

\* The body ends, by itself or by an exception of its own.
EndBody ==
  /\ phase = "body"
  /\ LeaveBody
  /\ raising' \in BOOLEAN
  /\ UNCHANGED <<daemonVars, remove, network, calls, historyVars, retryVars>>

--------------------------------------------------------------------------------
(* stop(): the containers in reverse, each checked, killed, waited for and removed. *)

Stopping(s) == phase = "stop" /\ step = s

\* The turn of the next container, or the return of stop().
NextToStop ==
  IF at > 1 THEN Place("stop", at - 1) /\ UNCHANGED caller
  ELSE IF caller = "body" THEN Place("body", 1) /\ UNCHANGED caller
  ELSE LeaveNetwork /\ UNCHANGED caller

\* KafkaService: the containers are taken out of the network and it is removed, first.
Unlink ==
  /\ Stopping("unlink") /\ ownNetwork = "made"
  /\ ownNetwork' = "removed"
  /\ step' = "check"
  /\ UNCHANGED <<state, attached, remove, network, phase, at, caller, raising, calls, historyVars,
                 retryVars>>

\* A second stop() finds no network, and does not get to the containers.
UnlinkFails ==
  /\ Stopping("unlink") /\ ownNetwork = "removed"
  /\ Raise
  /\ Fail("unlink")
  /\ UNCHANGED <<daemonVars, remove, network, calls, signalled, crashed, retryVars>>

\* is_alive: neither removed nor exited; a container never started is alive.
CheckAlive ==
  /\ Stopping("check")
  /\ IF state[Order[at]] \in {"exited", "removed"}
     THEN NextToStop
     ELSE step' = "kill" /\ UNCHANGED <<phase, at, caller>>
  /\ UNCHANGED <<daemonVars, remove, network, raising, calls, historyVars, retryVars>>

Kill ==
  /\ Stopping("kill") /\ state[Order[at]] = "running"
  /\ step' = "wait"
  /\ signalled' = signalled \cup {Order[at]}
  /\ UNCHANGED <<daemonVars, remove, network, phase, at, caller, raising, calls, crashed,
                 failures, retryVars>>

\* The container has exited since the check: the daemon answers 409.
KillFails ==
  /\ Stopping("kill") /\ state[Order[at]] # "running"
  /\ Raise
  /\ Fail("kill")
  /\ UNCHANGED <<daemonVars, remove, network, calls, signalled, crashed, retryVars>>

WaitReturns ==
  /\ Stopping("wait") /\ state[Order[at]] = "exited"
  /\ IF remove THEN step' = "remove" /\ UNCHANGED <<phase, at, caller>> ELSE NextToStop
  /\ UNCHANGED <<daemonVars, remove, network, raising, calls, historyVars, retryVars>>

\* (defective variants: the timeout is not noticed; the wait has none)
WaitTimesOutIgnored ==
  /\ Stopping("wait") /\ state[Order[at]] = "running"
  /\ NextToStop
  /\ Fail("wait")
  /\ UNCHANGED <<daemonVars, remove, network, raising, calls, signalled, crashed, retryVars>>
WaitForEver ==
  /\ Stopping("wait") /\ state[Order[at]] = "running"
  /\ UNCHANGED vars

\* The container does not heed the signal for _DEFAULT_TIMEOUT seconds.
WaitTimesOut ==
  /\ Stopping("wait") /\ state[Order[at]] = "running"
  /\ Raise
  /\ Fail("wait")
  /\ UNCHANGED <<daemonVars, remove, network, calls, signalled, crashed, retryVars>>

RemoveContainer ==
  /\ Stopping("remove")
  /\ Set(Order[at], "removed")
  /\ attached' = attached \ {Order[at]}
  /\ NextToStop
  /\ UNCHANGED <<ownNetwork, remove, network, raising, calls, historyVars, retryVars>>

--------------------------------------------------------------------------------
(* The exit of networks.connect, which runs whatever was raised inside of it. *)

Disconnect ==
  /\ phase = "disconnect"
  /\ attached' = attached \ {Endpoints[at]}
  /\ IF at > 1 THEN Place("disconnect", at - 1) ELSE Place("end", 1)
  /\ UNCHANGED <<state, ownNetwork, remove, network, caller, raising, calls, historyVars, retryVars>>

Run ==
  \/ Create \/ CreateFails \/ MakeNetwork \/ MakeNetworkFails \/ Connect \/ ConnectFails
  \/ StartContainer \/ StartFails \/ Startup \/ StartupReturns \/ StartupRaises
  \/ Unlink \/ UnlinkFails
  \/ CheckAlive \/ Kill \/ KillFails \/ WaitReturns \/ WaitTimesOut \/ RemoveContainer
  \/ Disconnect

\* A container exits, by the signal or of itself.
Exit(c) ==
  /\ state[c] = "running"
  /\ Set(c, "exited")
  /\ crashed' = IF c \in signalled THEN crashed ELSE crashed \cup {c}
  /\ UNCHANGED <<attached, ownNetwork, remove, network, placeVars, calls, signalled, failures, retryVars>>

Next ==
  \/ Run
  \/ CallStop \/ CallStart \/ EndBody
  \/ \E c \in Containers : Exit(c)

Spec == Init /\ [][Next]_vars

\* run() makes its next call as soon as the last has returned; the daemon answers every
\* one, and a wait, like an attempt at startup, has an end.
FairSpec == Spec /\ WF_vars(Run)

--------------------------------------------------------------------------------
(***************************************************************************)
(* Properties                                                              *)
(***************************************************************************)

\* Containers depend on those before them: a container is sent its signal only when no
\* container after it is running, whatever has failed or exited in between.
SignalsInReverse ==
  [][\A i, j \in DOMAIN Order :
       Order[i] \in signalled' \ signalled /\ j > i => state[Order[j]] # "running"]_vars

\* However run() ends, it leaves no container in the network, unless it failed in the
\* middle of connecting them.
NothingAttachedAtEnd == phase = "end" /\ "connect" \notin failures => attached = {}

\* A run() that ends with a container still running raises: it came to nothing in the
\* startup, or its stop() did not get through: a container did not heed the signal, had exited
\* just before it, or, of a KafkaService, the network was gone.
LeftRunningOnlyRaising ==
  phase = "end" /\ (\E c \in Containers : state[c] = "running") =>
    raising /\ failures \cap {"start", "startup", "unlink", "kill", "wait"} # {}

\* Unless remove is off or something failed after the containers were made, run() leaves
\* no container behind but those that exited before they were told to, which stop()
\* passes over.
LeftoversExplained ==
  phase = "end" /\ remove /\ failures \subseteq {"create"} =>
    \A c \in Containers : state[c] \in {"none", "removed"} \/ c \in crashed

\* docs/subclasses.rst:41, of stop(): "Any container not stopped within 10 seconds of
\* receiving the signal will be forcibly closed."  wait raises and nothing is closed.
ForciblyClosed ==
  [][phase = "stop" /\ phase' # "stop" =>
       \A c \in signalled : state'[c] # "running"]_vars
================================================================================
