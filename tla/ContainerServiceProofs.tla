----------------------- MODULE ContainerServiceProofs ------------------------
(***************************************************************************)
(* What run() leaves behind in a test, for any number of containers and of *)
(* calls in its body: which containers are attached to the user's network, *)
(* which run, and which are there at all, at every place of run(); and the *)
(* attempts of its startup, for any RetrySpecs.                            *)
(*                                                                         *)
(* ServiceInv says of stop() what it has achieved of the containers whose  *)
(* turn is over, and of the failures that each of the places can still be  *)
(* reached by.  Of the steps of the test, all but those of run() leave the *)
(* service alone or let go of it.                                          *)
(***************************************************************************)
EXTENDS ContainerTest, SequenceTheorems, TLAPS

Typed ==
  /\ state \in [Containers -> {"none", "created", "running", "exited", "removed"}]
  /\ phase \in {"create", "start", "stop"} => at \in 1..Len(Order)
  /\ phase \in {"connect", "disconnect"} => at \in 1..Len(Endpoints)

Attached ==
  /\ attached \subseteq Range(Endpoints)
  /\ (~network /\ phase # "over") \/ phase \in {"create", "link"} => attached = {}
  /\ phase = "connect" => network
  /\ phase = "disconnect" => attached \subseteq {Endpoints[i] : i \in 1..at}
  /\ phase = "end" => attached = {} \/ "connect" \in failures

NoneRunning == \A c \in Containers : state[c] # "running"
Excused == raising /\ failures \cap {"start", "startup", "unlink", "kill", "wait"} # {}

\* stop() leaves the containers whose turn is over not running.
Stopped ==
  /\ phase \in {"create", "link", "connect"} => NoneRunning
  /\ phase = "stop" => \A j \in 1..Len(Order) : j > at => state[Order[j]] # "running"
  /\ phase \in {"disconnect", "end"} => NoneRunning \/ Excused

Clean == remove /\ failures \subseteq {"create"}
Gone(c) == state[c] = "removed" \/ c \in crashed
InTurn(c, steps) == phase = "stop" /\ step \in steps /\ c = Order[at]

\* ... and gone, but for those that exited of themselves, as long as nothing has failed.
Removed ==
  Clean =>
    /\ \A c \in Containers : state[c] = "exited" => c \in crashed \/ InTurn(c, {"wait", "remove"})
    /\ \A c \in Containers : state[c] = "running" /\ c \in signalled => InTurn(c, {"wait"})
    /\ phase = "create" => \A c \in Containers : state[c] \in {"none", "created"}
    /\ phase = "stop" => \A j \in 1..Len(Order) : j > at => Gone(Order[j])
    /\ phase = "disconnect" => \A c \in Containers : Gone(c)
    /\ phase = "end" => \A c \in Containers : state[c] = "none" \/ Gone(c)

ServiceInv == Typed /\ Attached /\ Stopped /\ Removed

\* What the proofs use of the two sequences.
LEMMA Sequences ==
  /\ Len(Order) \in Nat \ {0} /\ Len(Endpoints) \in Nat \ {0}
  /\ \A i \in 1..Len(Order) : Order[i] \in Containers
  /\ \A i \in 1..Len(Endpoints) : Endpoints[i] \in Range(Endpoints)
  /\ \A c \in Containers : \E i \in 1..Len(Order) : c = Order[i]
  /\ \A c \in Range(Endpoints) : \E i \in 1..Len(Endpoints) : c = Endpoints[i]
  /\ \A i, j \in 1..Len(Order) : Order[i] = Order[j] => i = j
<1>1. Len(Order) \in Nat \ {0} /\ Len(Endpoints) \in Nat \ {0}
  BY ServiceAssumption, EmptySeq
<1>2. DOMAIN Order = 1..Len(Order) /\ DOMAIN Endpoints = 1..Len(Endpoints)
  BY ServiceAssumption, LenProperties
<1> QED
  BY <1>1, <1>2, ServiceAssumption DEF Containers, Range, IsInjective

LEMMA InitService == Init => ServiceInv
BY Sequences DEF Init, ServiceInv, Typed, Attached, Stopped, Removed, Clean, NoneRunning


LEMMA TypedStep ==
  ASSUME ServiceInv, Next
  PROVE  Typed'
<1> USE Sequences DEF ServiceInv, Typed
<1> DEFINE Failing == CreateFails \/ MakeNetworkFails \/ ConnectFails
<1>1. CASE Create
  BY <1>1 DEF Create, Set, Place, AfterConstructor
<1>2. CASE Failing
  BY <1>2 DEF CreateFails, MakeNetworkFails, ConnectFails, Place, daemonVars
<1>3. CASE MakeNetwork \/ Connect
  BY <1>3 DEF MakeNetwork, Connect, AfterConstructor, Place
<1>4. CASE StartContainer
  BY <1>4 DEF StartContainer, Set, Place
<1>5. CASE StartFails \/ StartupRaises \/ KillFails \/ WaitTimesOut \/ UnlinkFails
  BY <1>5 DEF StartFails, StartupRaises, KillFails, WaitTimesOut, UnlinkFails, Raise, LeaveBody,
     BeginStop, LeaveNetwork, Place, daemonVars
<1>6. CASE Startup
  BY <1>6 DEF Startup, daemonVars, placeVars
<1>7. CASE StartupReturns \/ CallStop \/ CallStart \/ EndBody
  BY <1>7 DEF StartupReturns, CallStop, CallStart, EndBody, LeaveBody, BeginStop, Place, daemonVars
<1>8. CASE Unlink \/ Kill
  BY <1>8 DEF Unlink, Kill, Stopping, daemonVars
<1>9. CASE CheckAlive \/ WaitReturns
  BY <1>9 DEF CheckAlive, WaitReturns, Stopping, NextToStop, LeaveNetwork, Place, daemonVars
<1>10. CASE RemoveContainer
  BY <1>10 DEF RemoveContainer, Stopping, NextToStop, LeaveNetwork, Place, Set
<1>11. CASE Disconnect
  BY <1>11 DEF Disconnect, Place
<1>12. ASSUME NEW c \in Containers, Exit(c) PROVE Typed'
  BY <1>12 DEF Exit, Set, placeVars
<1> QED
  BY <1>1, <1>2, <1>3, <1>4, <1>5, <1>6, <1>7, <1>8, <1>9, <1>10, <1>11, <1>12 DEF Next, Run

LEMMA AttachedStep ==
  ASSUME ServiceInv, Next
  PROVE  Attached'
<1> USE Sequences DEF ServiceInv, Typed, Attached
<1>1. CASE Create \/ MakeNetwork
  BY <1>1 DEF Create, MakeNetwork, Place, AfterConstructor, historyVars
<1>2. CASE CreateFails \/ MakeNetworkFails \/ ConnectFails
  BY <1>2 DEF CreateFails, MakeNetworkFails, ConnectFails, Place, Fail, daemonVars
<1>3. CASE Connect
  BY <1>3 DEF Connect, Place, historyVars
<1>4. CASE StartContainer \/ Startup \/ StartupReturns \/ CallStop \/ CallStart \/ EndBody
  BY <1>4 DEF StartContainer, Startup, StartupReturns, CallStop, CallStart, EndBody, LeaveBody,
     BeginStop, Place, daemonVars, placeVars
<1>5. CASE StartFails \/ StartupRaises \/ KillFails \/ WaitTimesOut \/ UnlinkFails
  BY <1>5 DEF StartFails, StartupRaises, KillFails, WaitTimesOut, UnlinkFails, Raise, LeaveBody,
     BeginStop, LeaveNetwork, Place, Stopping, daemonVars
<1>6. CASE Unlink \/ Kill
  BY <1>6 DEF Unlink, Kill, Stopping, daemonVars
<1>7. CASE CheckAlive \/ WaitReturns \/ RemoveContainer
  BY <1>7 DEF CheckAlive, WaitReturns, RemoveContainer, Stopping, NextToStop, LeaveNetwork, Place,
     daemonVars
<1>8. CASE Disconnect
  BY <1>8 DEF Disconnect, Place
<1>9. ASSUME NEW c \in Containers, Exit(c) PROVE Attached'
  BY <1>9 DEF Exit, placeVars
<1> QED
  BY <1>1, <1>2, <1>3, <1>4, <1>5, <1>6, <1>7, <1>8, <1>9 DEF Next, Run

LEMMA StoppedStep ==
  ASSUME ServiceInv, Next
  PROVE  Stopped'
<1> USE Sequences DEF ServiceInv, Typed, Stopped, NoneRunning, Excused
<1>1. CASE Create \/ MakeNetwork \/ Connect
  BY <1>1 DEF Create, MakeNetwork, Connect, Set, Place, AfterConstructor
<1>2. CASE CreateFails \/ MakeNetworkFails \/ ConnectFails
  BY <1>2 DEF CreateFails, MakeNetworkFails, ConnectFails, Place, Fail, daemonVars
<1>3. CASE StartContainer \/ Startup \/ StartupReturns \/ CallStart
  BY <1>3 DEF StartContainer, Startup, StartupReturns, CallStart, Place, daemonVars, placeVars
<1>4. CASE CallStop \/ EndBody
  BY <1>4 DEF CallStop, EndBody, LeaveBody, BeginStop, daemonVars
<1>5. CASE StartFails \/ StartupRaises \/ KillFails \/ WaitTimesOut \/ UnlinkFails
  <2>1. \E what \in {"start", "startup", "unlink", "kill", "wait"} : Fail(what)
    BY <1>5 DEF StartFails, StartupRaises, KillFails, WaitTimesOut, UnlinkFails
  <2>2. failures' \cap {"start", "startup", "unlink", "kill", "wait"} # {}
    BY <2>1 DEF Fail
  <2>3. raising' /\ (BeginStop \/ phase' \in {"disconnect", "end"})
    BY <1>5 DEF StartFails, StartupRaises, KillFails, WaitTimesOut, UnlinkFails, Raise, LeaveBody,
       LeaveNetwork, Place
  <2>4. CASE BeginStop
    BY <2>4 DEF BeginStop
  <2>5. CASE phase' \in {"disconnect", "end"}
    BY <2>2, <2>3, <2>5
  <2> QED
    BY <2>3, <2>4, <2>5
<1>6. CASE Unlink \/ Kill
  BY <1>6 DEF Unlink, Kill, Stopping, daemonVars
<1>7. CASE CheckAlive \/ WaitReturns \/ RemoveContainer
  <2>1. phase = "stop" /\ \A c \in Containers : state'[c] = "running" => state[c] = "running"
    BY <1>7 DEF CheckAlive, WaitReturns, RemoveContainer, Stopping, Set, daemonVars
  <2>2. CASE UNCHANGED <<phase, at>>
    BY <2>1, <2>2
  <2>3. CASE state'[Order[at]] # "running" /\ NextToStop
    <3>1. \A j \in 1..Len(Order) : j >= at => state'[Order[j]] # "running"
      BY <2>1, <2>3
    <3>2. CASE at > 1
      BY <2>3, <3>1, <3>2, <2>1 DEF NextToStop, Place
    <3>3. CASE at = 1
      <4>1. \A c \in Containers : state'[c] # "running"
        BY <3>1, <3>3
      <4>2. phase' \in {"body", "disconnect", "end"}
        BY <2>3, <3>3 DEF NextToStop, LeaveNetwork, Place
      <4> QED
        BY <4>1, <4>2
    <3> QED
      BY <2>1, <3>2, <3>3
  <2> QED
    BY <1>7, <2>2, <2>3 DEF CheckAlive, WaitReturns, RemoveContainer, Stopping, Set, daemonVars
<1>8. CASE Disconnect
  BY <1>8 DEF Disconnect, Place, historyVars
<1>9. ASSUME NEW c \in Containers, Exit(c) PROVE Stopped'
  BY <1>9 DEF Exit, Set, placeVars
<1> QED
  BY <1>1, <1>2, <1>3, <1>4, <1>5, <1>6, <1>7, <1>8, <1>9 DEF Next, Run

\* What has failed is not forgotten, so that most of the failures need no more to be said.
LEMMA FailingStep ==
  ASSUME \/ MakeNetworkFails \/ ConnectFails \/ StartFails \/ StartupRaises
         \/ KillFails \/ WaitTimesOut \/ UnlinkFails
  PROVE  Removed'
<1>1. \E what \in {"link", "connect", "start", "startup", "unlink", "kill", "wait"} : Fail(what)
  BY DEF MakeNetworkFails, ConnectFails, StartFails, StartupRaises, KillFails, WaitTimesOut,
     UnlinkFails
<1> QED
  BY <1>1 DEF Fail, Removed, Clean

LEMMA RemovedStep ==
  ASSUME ServiceInv, Next
  PROVE  Removed'
<1> USE Sequences DEF ServiceInv, Typed, Removed, Clean, Gone, InTurn
<1>1. CASE Create
  BY <1>1 DEF Create, Set, Place, AfterConstructor, historyVars
<1>2. CASE CreateFails
  BY <1>2 DEF CreateFails, Place, Fail
<1>3. CASE MakeNetwork \/ Connect
  BY <1>3 DEF MakeNetwork, Connect, Place, AfterConstructor, historyVars
<1>4. CASE StartContainer
  BY <1>4 DEF StartContainer, Set, Place
<1>5. CASE Startup \/ StartupReturns \/ CallStart
  <2>1. UNCHANGED <<state, remove, signalled, crashed, failures>>
    BY <1>5 DEF Startup, StartupReturns, CallStart, daemonVars, historyVars
  <2>2. phase \in {"startup", "body"} /\ phase' \in {"startup", "body", "start"}
    BY <1>5 DEF Startup, StartupReturns, CallStart, Place, placeVars
  <2> QED
    BY <2>1, <2>2
<1>6. CASE CallStop \/ EndBody
  <2>1. UNCHANGED <<state, remove, signalled, crashed, failures>> /\ phase = "body"
    BY <1>6 DEF CallStop, EndBody, daemonVars, historyVars
  <2>2. phase' = "stop" /\ at' = Len(Order)
    BY <1>6 DEF CallStop, EndBody, LeaveBody, BeginStop
  <2> QED
    BY <2>1, <2>2
<1>7. CASE Unlink
  BY <1>7 DEF Unlink, Stopping, historyVars
<1>8. CASE CheckAlive
  <2>1. Clean /\ state[Order[at]] \in {"exited", "removed"} => Gone(Order[at])
    BY <1>8 DEF CheckAlive, Stopping
  <2> QED
    BY <1>8, <2>1 DEF CheckAlive, Stopping, NextToStop, LeaveNetwork, Place, daemonVars, historyVars
<1>9. CASE Kill
  BY <1>9 DEF Kill, Stopping, daemonVars
<1>10. CASE WaitReturns
  BY <1>10 DEF WaitReturns, Stopping, NextToStop, LeaveNetwork, Place, daemonVars, historyVars
<1>11. CASE RemoveContainer
  BY <1>11 DEF RemoveContainer, Stopping, NextToStop, LeaveNetwork, Place, Set, historyVars
<1>12. CASE Disconnect
  BY <1>12 DEF Disconnect, Place, historyVars
<1>13. ASSUME NEW c \in Containers, Exit(c) PROVE Removed'
  BY <1>13 DEF Exit, Set, placeVars
<1> QED
  BY <1>1, <1>2, <1>3, <1>4, <1>5, <1>6, <1>7, <1>8, <1>9, <1>10, <1>11, <1>12, <1>13, FailingStep
  DEF Next, Run

--------------------------------------------------------------------------------
(* The attempts of the startup. *)

RetryInv ==
  /\ tries \in Nat /\ clock \in Nat
  /\ retrying = "idle" => spec = None
  /\ retrying # "idle" =>
       /\ spec \in RetrySpecs
       /\ spec.attempts # None => tries <= spec.attempts
       /\ retrying \in {"attempt", "sleep"} => tries # spec.attempts
       /\ retrying = "sleep" => ~Overdue(clock)
       /\ retrying = "raised" => tries = spec.attempts \/ Overdue(clock)
       /\ retrying = "attempt" /\ spec.timeout \notin {None, 0} /\ tries > 0 =>
            clock <= spec.timeout + spec.interval

LEMMA RetryStep ==
  ASSUME RetryInv, TrySucceeds \/ Try \/ BeginRetry \/ EndRetry \/ UNCHANGED retryVars
  PROVE  RetryInv'
<1> USE RetryAssumption DEF RetryInv, Overdue
<1>1. CASE BeginRetry \/ EndRetry \/ UNCHANGED retryVars
  BY <1>1 DEF BeginRetry, EndRetry, retryVars
<1>2. CASE TrySucceeds \/ TryPropagates
  BY <1>2 DEF TrySucceeds, TryPropagates
<1>3. CASE TryFails
  BY <1>3 DEF TryFails, LastTry
<1>4. CASE Sleep
  BY <1>4 DEF Sleep
<1> QED
  BY <1>1, <1>2, <1>3, <1>4 DEF Try

LEMMA RetrySteps ==
  ASSUME Next
  PROVE  TrySucceeds \/ Try \/ BeginRetry \/ EndRetry \/ UNCHANGED retryVars
<1>1. CASE StartContainer \/ Startup \/ StartupReturns \/ StartupRaises
  BY <1>1 DEF StartContainer, Startup, StartupReturns, StartupRaises
<1>2. CASE Create \/ CreateFails \/ MakeNetwork \/ MakeNetworkFails \/ Connect \/ ConnectFails
           \/ StartFails \/ Unlink \/ UnlinkFails
  BY <1>2 DEF Create, CreateFails, MakeNetwork, MakeNetworkFails, Connect, ConnectFails, StartFails,
     Unlink, UnlinkFails
<1>3. CASE CheckAlive \/ Kill \/ KillFails \/ WaitReturns \/ WaitTimesOut \/ RemoveContainer
           \/ Disconnect
  BY <1>3 DEF CheckAlive, Kill, KillFails, WaitReturns, WaitTimesOut, RemoveContainer, Disconnect
<1>4. CASE CallStop \/ CallStart \/ EndBody
  BY <1>4 DEF CallStop, CallStart, EndBody
<1>5. ASSUME NEW c \in Containers, Exit(c) PROVE UNCHANGED retryVars
  BY <1>5 DEF Exit
<1> QED
  BY <1>1, <1>2, <1>3, <1>4, <1>5 DEF Next, Run

--------------------------------------------------------------------------------
(* The service in a test. *)

Inv == ServiceInv /\ RetryInv

\* A raise, or the end of temp_network, while the rest of the service stays as it is.
AroundService ==
  /\ raising => raising'
  /\ attached' \in {attached, {}}
  /\ UNCHANGED <<state, ownNetwork, remove, network, phase, at, step, caller, calls, historyVars,
                 retryVars>>

LEMMA TestSteps ==
  ASSUME [TestNext]_allVars
  PROVE  Next \/ AroundService \/ (phase = "end" /\ ServiceGone)
<1>1. CASE Build \/ FetchImage \/ RemoveOwn \/ ExitOwn \/ Untag \/ UNCHANGED allVars
  BY <1>1 DEF Build, FetchImage, RemoveOwn, ExitOwn, Untag, serviceVars, allVars, AroundService,
     daemonVars, placeVars
<1>2. CASE CreateOfTag \/ CreateRefused \/ Service
  BY <1>2 DEF CreateOfTag, CreateRefused, Service, Next, Run
<1>3. CASE Enter \/ LeaveImage
  BY <1>3 DEF Enter, LeaveImage, RaiseOut, serviceVars, AroundService, daemonVars, placeVars
<1>4. CASE CheckOwn \/ KillOwn \/ WaitOwn
  BY <1>4 DEF CheckOwn, KillOwn, WaitOwn, RaiseScope, RaiseOut, serviceVars, AroundService,
     daemonVars, placeVars
<1>5. CASE LeaveTempNetwork
  BY <1>5 DEF LeaveTempNetwork, AroundService, placeVars
<1> QED
  BY <1>1, <1>2, <1>3, <1>4, <1>5 DEF TestNext, LeaveRun

LEMMA Invariance ==
  ASSUME Inv, [TestNext]_allVars
  PROVE  Inv'
<1>1. CASE Next
  BY <1>1, TypedStep, AttachedStep, StoppedStep, RemovedStep, RetryStep, RetrySteps
  DEF Inv, ServiceInv
<1>2. CASE AroundService
  <2> USE <1>2 DEF AroundService, historyVars, Inv, ServiceInv
  <2>1. RetryInv'
    BY RetryStep
  <2>2. Typed' /\ Attached'
    BY DEF Typed, Attached
  <2>3. Excused => Excused'
    BY DEF Excused
  <2>4. Stopped'
    BY <2>3 DEF Stopped, NoneRunning
  <2>5. Removed'
    BY DEF Removed, Clean, Gone, InTurn
  <2> QED
    BY <2>1, <2>2, <2>4, <2>5
<1>3. CASE ServiceGone
  BY <1>3, RetryStep DEF ServiceGone, Inv, ServiceInv, Typed, Attached, Stopped, NoneRunning, Removed,
     Clean
<1> QED
  BY <1>1, <1>2, <1>3, TestSteps

LEMMA Invariant == TestSpec => []Inv
<1>1. TestInit => Inv
  BY InitService DEF TestInit, Init, RetryInit, Inv, RetryInv
<1> QED
  BY <1>1, Invariance, PTL DEF TestSpec

\* Whatever fails, no container is left in the network but by a failure to connect.
THEOREM NothingAttachedAtEndCorrect == TestSpec => []NothingAttachedAtEnd
<1>1. Inv => NothingAttachedAtEnd
  BY DEF Inv, ServiceInv, Attached, NothingAttachedAtEnd
<1> QED
  BY <1>1, Invariant, PTL

\* A run() that ends with a container running raises, and one of five failures explains it.
THEOREM LeftRunningOnlyRaisingCorrect == TestSpec => []LeftRunningOnlyRaising
<1>1. Inv => LeftRunningOnlyRaising
  BY DEF Inv, ServiceInv, Stopped, NoneRunning, Excused, LeftRunningOnlyRaising
<1> QED
  BY <1>1, Invariant, PTL

\* A run() in which nothing failed once its containers were made leaves only those that
\* exited of themselves.
THEOREM LeftoversExplainedCorrect == TestSpec => []LeftoversExplained
<1>1. Inv => LeftoversExplained
  BY DEF Inv, ServiceInv, Removed, Clean, Gone, LeftoversExplained
<1> QED
  BY <1>1, Invariant, PTL

\* A retry makes the attempts it may, and none long after its time.
THEOREM RetriesAsSpecifiedCorrect == TestSpec => []RetriesAsSpecified
<1>1. Inv => RetriesAsSpecified
  BY RetryAssumption DEF Inv, RetryInv, RetriesAsSpecified, Overdue
<1> QED
  BY <1>1, Invariant, PTL

\* Only Kill sends a signal, at a time when the containers after its own do not run.
LEMMA SignalStep ==
  ASSUME ServiceInv, Next, NEW i \in DOMAIN Order, NEW j \in DOMAIN Order,
         Order[i] \in signalled' \ signalled, j > i
  PROVE  state[Order[j]] # "running"
<1> USE Sequences DEF ServiceInv, Typed
<1>1. Kill
  <2>1. \/ signalled' \subseteq signalled
        \/ Kill
    <3>1. CASE StartContainer \/ Startup \/ StartupReturns \/ StartupRaises
      BY <3>1 DEF StartContainer, Startup, StartupReturns, StartupRaises, historyVars
    <3>2. CASE Create \/ CreateFails \/ MakeNetwork \/ MakeNetworkFails \/ Connect
               \/ ConnectFails \/ StartFails \/ Unlink \/ UnlinkFails
      BY <3>2 DEF Create, CreateFails, MakeNetwork, MakeNetworkFails, Connect, ConnectFails,
         StartFails, Unlink, UnlinkFails, historyVars
    <3>3. CASE CheckAlive \/ KillFails \/ WaitReturns \/ WaitTimesOut \/ RemoveContainer
               \/ Disconnect \/ CallStop \/ CallStart \/ EndBody
      BY <3>3 DEF CheckAlive, KillFails, WaitReturns, WaitTimesOut, RemoveContainer, Disconnect,
         CallStop, CallStart, EndBody, historyVars
    <3>4. ASSUME NEW c \in Containers, Exit(c) PROVE signalled' \subseteq signalled
      BY <3>4 DEF Exit
    <3> QED
      BY <3>1, <3>2, <3>3, <3>4 DEF Next, Run
  <2> QED
    BY <2>1
<1>2. phase = "stop" /\ Order[i] = Order[at]
  BY <1>1 DEF Kill, Stopping
<1>3. DOMAIN Order = 1..Len(Order)
  BY ServiceAssumption, LenProperties
<1>4. i = at
  BY <1>2, <1>3
<1> QED
  BY <1>2, <1>3, <1>4 DEF Stopped

\* Whatever has failed or exited in between, containers are told to stop in reverse order.
THEOREM SignalsInReverseCorrect == TestSpec => SignalsInReverse
<1> DEFINE A == \A i, j \in DOMAIN Order :
                 Order[i] \in signalled' \ signalled /\ j > i => state[Order[j]] # "running"
<1>1. ASSUME Inv, [TestNext]_allVars PROVE [A]_vars
  <2>1. CASE Next
    BY <1>1, <2>1, SignalStep DEF Inv
  <2>2. CASE AroundService \/ ServiceGone
    BY <2>2 DEF AroundService, ServiceGone, historyVars
  <2> QED
    BY <1>1, <2>1, <2>2, TestSteps
<1> QED
  BY <1>1, Invariant, PTL DEF TestSpec, SignalsInReverse
--------------------------------------------------------------------------------
(* What the test leaves behind. *)

\* stop() begins with the network of a KafkaService, and run() ends after a stop() or raises.
Unlinked ==
  /\ phase = "stop" /\ step # "unlink" => ownNetwork # "made"
  /\ phase \in {"disconnect", "end", "over"} => raising \/ ownNetwork # "made"

\* The contexts that have been left have removed what is theirs, or raised.
Outside ==
  /\ scope \notin {"build", "run"} => raising \/ phase = "over"
  /\ scope \in {"network", "image", "none"} => raising \/ own \in {"none", "removed"}
  /\ scope \in {"image", "none"} => raising \/ attached = {}
  /\ scope = "none" => raising \/ (build # "none" /\ removeImage => local = NoImage)

TestInv == Unlinked /\ Outside

LEMMA UnlinkedStep ==
  ASSUME Unlinked, Next
  PROVE  Unlinked'
<1> USE DEF Unlinked
<1>1. CASE Create \/ MakeNetwork \/ Connect
  BY <1>1 DEF Create, MakeNetwork, Connect, AfterConstructor, Place
<1>2. CASE CreateFails \/ MakeNetworkFails \/ ConnectFails
  BY <1>2 DEF CreateFails, MakeNetworkFails, ConnectFails, Place
<1>3. CASE StartContainer \/ Startup \/ StartupReturns \/ CallStart
  BY <1>3 DEF StartContainer, Startup, StartupReturns, CallStart, Place, daemonVars, placeVars
<1>4. CASE StartFails \/ StartupRaises \/ KillFails \/ WaitTimesOut \/ UnlinkFails
  BY <1>4 DEF StartFails, StartupRaises, KillFails, WaitTimesOut, UnlinkFails, Raise, LeaveBody,
     BeginStop, LeaveNetwork, Place, daemonVars
<1>5. CASE CallStop \/ EndBody
  BY <1>5 DEF CallStop, EndBody, LeaveBody, BeginStop, daemonVars
<1>6. CASE Unlink \/ Kill
  BY <1>6 DEF Unlink, Kill, Stopping, daemonVars
<1>7. CASE CheckAlive \/ WaitReturns \/ RemoveContainer
  <2>1. phase = "stop" /\ step # "unlink" /\ UNCHANGED ownNetwork
    BY <1>7 DEF CheckAlive, WaitReturns, RemoveContainer, Stopping, daemonVars
  <2> QED
    BY <2>1
<1>8. CASE Disconnect
  BY <1>8 DEF Disconnect, Place
<1>9. ASSUME NEW c \in Containers, Exit(c) PROVE Unlinked'
  BY <1>9 DEF Exit, placeVars
<1> QED
  BY <1>1, <1>2, <1>3, <1>4, <1>5, <1>6, <1>7, <1>8, <1>9 DEF Next, Run

LEMMA OutsideStep ==
  ASSUME Outside, [TestNext]_allVars
  PROVE  Outside'
<1> USE DEF Outside
<1>1. CASE Build \/ FetchImage \/ CreateOfTag \/ CreateRefused \/ Service \/ Untag
  <2>1. scope \in {"build", "run"} /\ UNCHANGED scope
    BY <1>1 DEF Build, FetchImage, CreateOfTag, CreateRefused, Service, Untag, testVars
  <2> QED
    BY <2>1
<1>2. CASE Enter
  BY <1>2 DEF Enter, Leave, RaiseOut
<1>3. CASE LeaveRun
  BY <1>3 DEF LeaveRun, Leave, ServiceGone
<1>4. CASE CheckOwn \/ KillOwn \/ WaitOwn
  <2>1. scope \in {"killing", "removing"} /\ UNCHANGED <<phase, own>> /\ (raising => raising')
    BY <1>4 DEF CheckOwn, KillOwn, WaitOwn, OwnStep, RaiseScope, RaiseOut, serviceVars, placeVars
  <2>2. \/ scope' \in {"killing", "removing"}
        \/ raising'
        \/ scope' = "network" /\ own = "removed"
    BY <1>4 DEF CheckOwn, KillOwn, WaitOwn, OwnStep, RaiseScope, RaiseOut, LeaveScope, NextScope, Leave
  <2> QED
    BY <2>1, <2>2
<1>5. CASE RemoveOwn
  BY <1>5 DEF RemoveOwn, OwnStep, LeaveScope, NextScope, Leave, serviceVars, placeVars
<1>6. CASE ExitOwn
  BY <1>6 DEF ExitOwn, serviceVars, placeVars
<1>7. CASE LeaveTempNetwork
  BY <1>7 DEF LeaveTempNetwork, Leave, placeVars, ownVars
<1>8. CASE LeaveImage
  <2>1. scope = "image" /\ UNCHANGED <<phase, attached, own>> /\ (raising => raising')
    BY <1>8 DEF LeaveImage, RaiseOut, serviceVars, placeVars, daemonVars, ownVars
  <2>2. raising' \/ (build' # "none" /\ removeImage' => local' = NoImage)
    BY <1>8 DEF LeaveImage, RaiseOut, KeepImage, RemoveImage, imageVars, buildVars,
       serviceVars, placeVars
  <2> QED
    BY <2>1, <2>2
<1>9. CASE UNCHANGED allVars
  BY <1>9 DEF allVars, serviceVars, placeVars, daemonVars, imageVars, buildVars, testVars, ownVars
<1> QED
  BY <1>1, <1>2, <1>3, <1>4, <1>5, <1>6, <1>7, <1>8, <1>9 DEF TestNext

\* A test that raises nothing leaves nothing behind: no container of its own, none in the
\* network, no network of a service, and no image that was to be removed.
THEOREM TestLeavesNothingCorrect == TestSpec => []TestLeavesNothing
<1>1. TestInit => TestInv
  BY DEF TestInit, Init, TestInv, Unlinked, Outside
<1>2. ASSUME TestInv, [TestNext]_allVars PROVE TestInv'
  <2>1. CASE Next
    BY <1>2, <2>1, UnlinkedStep, OutsideStep DEF TestInv
  <2>2. CASE AroundService \/ (phase = "end" /\ ServiceGone)
    <3>1. Unlinked'
      BY <1>2, <2>2 DEF TestInv, Unlinked, AroundService, ServiceGone
    <3> QED
      BY <1>2, <3>1, OutsideStep DEF TestInv
  <2> QED
    BY <1>2, <2>1, <2>2, TestSteps
<1>3. TestInv => TestLeavesNothing
  BY DEF TestInv, Unlinked, Outside, TestLeavesNothing
<1> QED
  BY <1>1, <1>2, <1>3, PTL DEF TestSpec

--------------------------------------------------------------------------------
(* The images the containers are made of. *)

\* What was built has the tag until the test lets go of it ...
BuiltHere ==
  /\ build = "log" /\ idSeen => local = "built"
  /\ build = "yielded" /\ scope = "build" => local = "built"
  /\ scope = "run" /\ phase = "create" =>
       build \in {"none", "yielded"} /\ (build = "yielded" /\ remote = NoImage => local \in {NoImage, "built"})
\* ... and what was fetched is what the registry has, with three excuses.
FetchedHere ==
  (fetch = "fetched" \/ cache # NoImage) /\ remote # NoImage /\ local # NoImage =>
    local \in {remote, "built"} \/ unanswered \/ stale
Updating == fetch = "update" => remote # NoImage

ImageInv == BuiltHere /\ FetchedHere /\ Updating

LEMMA NoMoreCreated ==
  ASSUME Next, phase # "create"
  PROVE  phase' # "create"
<1>1. CASE Create \/ CreateFails
  BY <1>1 DEF Create, CreateFails
<1>2. CASE MakeNetwork \/ MakeNetworkFails \/ Connect \/ ConnectFails \/ StartContainer \/ StartFails
  BY <1>2 DEF MakeNetwork, MakeNetworkFails, Connect, ConnectFails, StartContainer, StartFails,
     AfterConstructor, LeaveBody, BeginStop, Place, Raise, LeaveNetwork
<1>3. CASE Startup \/ StartupReturns \/ StartupRaises \/ CallStop \/ CallStart \/ EndBody
  BY <1>3 DEF Startup, StartupReturns, StartupRaises, CallStop, CallStart, EndBody, LeaveBody,
     BeginStop, Place, Raise, LeaveNetwork, placeVars
<1>4. CASE Unlink \/ UnlinkFails \/ CheckAlive \/ Kill \/ KillFails \/ WaitReturns \/ WaitTimesOut
           \/ RemoveContainer
  BY <1>4 DEF Unlink, UnlinkFails, CheckAlive, Kill, KillFails, WaitReturns, WaitTimesOut,
     RemoveContainer, Stopping, NextToStop, LeaveNetwork, LeaveBody, BeginStop, Place, Raise
<1>5. CASE Disconnect
  BY <1>5 DEF Disconnect, Place
<1>6. ASSUME NEW c \in Containers, Exit(c) PROVE phase' # "create"
  BY <1>6 DEF Exit, placeVars
<1> QED
  BY <1>1, <1>2, <1>3, <1>4, <1>5, <1>6 DEF Next, Run

LEMMA FetchKeepsImages ==
  ASSUME ImageInv, Fetch, scope = "run", phase = "create", UNCHANGED <<scope, phase>>
  PROVE  ImageInv'
<1> USE DEF ImageInv, BuiltHere, FetchedHere, Updating, FetchStep, Fetched, buildVars
<1>1. CASE BeginFetch
  BY <1>1 DEF BeginFetch
<1>2. CASE LookLocal
  BY <1>2 DEF LookLocal
<1>3. CASE Compare
  BY <1>3 DEF Compare
<1>4. CASE Update
  BY <1>4 DEF Update
<1>5. CASE Pull
  BY <1>5 DEF Pull
<1> QED
  BY <1>1, <1>2, <1>3, <1>4, <1>5 DEF Fetch

LEMMA ImageStep ==
  ASSUME ImageInv, [TestNext]_allVars
  PROVE  ImageInv'
<1> USE DEF ImageInv, imageVars, fetchVars, buildVars
<1>1. CASE Build
  <2>1. scope = "build" /\ scope' = "build" /\ UNCHANGED <<remote, cache, fetch, unanswered, stale>>
    BY <1>1 DEF Build, BuildMessage, BuildEnds, testVars
  <2>2. local' \in {local, "built"}
    BY <1>1 DEF Build, BuildMessage, BuildEnds
  <2>3. BuiltHere'
    BY <1>1, <2>1 DEF Build, BuildMessage, BuildEnds, BuiltHere
  <2> QED
    BY <2>1, <2>2, <2>3 DEF FetchedHere, Updating
<1>2. CASE Enter
  <2>1. UNCHANGED imageVars /\ scope = "build" /\ phase' = phase
    BY <1>2 DEF Enter, RaiseOut, serviceVars, placeVars
  <2>2. scope' = "none" \/ (scope' = "run" /\ build \in {"none", "yielded"})
    BY <1>2 DEF Enter, Leave
  <2> QED
    BY <2>1, <2>2 DEF BuiltHere, FetchedHere, Updating
<1>3. CASE FetchImage
  BY <1>3, FetchKeepsImages DEF FetchImage, serviceVars, testVars, placeVars
<1>4. CASE CreateOfTag
  <2>1. UNCHANGED <<local, build, output, idSeen, removeImage, scope>>
    BY <1>4 DEF CreateOfTag, EndFetch, EndLastFetch, FetchStep
  <2>2. CASE at < Len(Order)
    BY <1>4, <2>1, <2>2 DEF CreateOfTag, Create, EndFetch, FetchStep, BuiltHere, FetchedHere, Updating
  <2>3. CASE ~(at < Len(Order))
    <3>1. phase' # "create"
      BY <1>4, <2>3 DEF CreateOfTag, Create, Place, AfterConstructor
    <3>2. fetch' = "idle" /\ cache' = NoImage
      BY <1>4, <2>3 DEF CreateOfTag, EndLastFetch
    <3> QED
      BY <2>1, <3>1, <3>2 DEF BuiltHere, FetchedHere, Updating
  <2> QED
    BY <2>2, <2>3
<1>5. CASE CreateRefused
  <2>1. phase' # "create" /\ fetch' = "idle"
        /\ UNCHANGED <<local, remote, cache, unanswered, stale, build, output, idSeen, scope>>
    BY <1>5 DEF CreateRefused, CreateFails, Place, EndFetch, FetchStep, testVars
  <2> QED
    BY <2>1 DEF BuiltHere, FetchedHere, Updating
<1>6. CASE Untag
  <2>1. local' = NoImage /\ scope = "run"
        /\ UNCHANGED <<remote, cache, fetch, unanswered, stale, build, output, idSeen, scope, phase>>
    BY <1>6 DEF Untag, serviceVars, placeVars, testVars
  <2>2. phase = "create"
    BY <1>6 DEF Untag
  <2>3. build # "log"
    BY <2>1, <2>2 DEF BuiltHere
  <2> QED
    BY <2>1, <2>3 DEF BuiltHere, FetchedHere, Updating
<1>7. CASE Service
  <2>1. phase' # "create" /\ UNCHANGED imageVars /\ UNCHANGED scope
    BY <1>7, NoMoreCreated DEF Service, testVars
  <2> QED
    BY <2>1 DEF BuiltHere, FetchedHere, Updating
<1>8. CASE LeaveRun \/ CheckOwn \/ KillOwn \/ WaitOwn \/ RemoveOwn \/ ExitOwn \/ LeaveTempNetwork
  <2>1. UNCHANGED imageVars
    BY <1>8 DEF LeaveRun, CheckOwn, KillOwn, WaitOwn, RemoveOwn, ExitOwn, LeaveTempNetwork, OwnKept
  <2>2. scope' \in {"killing", "removing", "network", "image"}
    BY <1>8 DEF LeaveRun, CheckOwn, KillOwn, WaitOwn, RemoveOwn, ExitOwn, LeaveTempNetwork, OwnStep,
       RaiseScope, LeaveScope, NextScope, Leave, serviceVars
  <2> QED
    BY <2>1, <2>2 DEF BuiltHere, FetchedHere, Updating
<1>9. CASE LeaveImage
  <2>1. scope' = "none" /\ UNCHANGED <<remote, fetchVars, stale>>
    BY <1>9 DEF LeaveImage, Leave, KeepImage, RemoveImage
  <2>2. /\ local' \in {local, NoImage} /\ idSeen' = idSeen
        /\ UNCHANGED <<build, local>> \/ build' = "left"
    BY <1>9 DEF LeaveImage, KeepImage, RemoveImage
  <2> QED
    BY <2>1, <2>2 DEF BuiltHere, FetchedHere, Updating
<1>10. CASE UNCHANGED allVars
  BY <1>10 DEF allVars, serviceVars, placeVars, testVars, BuiltHere, FetchedHere, Updating
<1> QED
  BY <1>1, <1>2, <1>3, <1>4, <1>5, <1>6, <1>7, <1>8, <1>9, <1>10 DEF TestNext

\* Every container of the service is made of the image that is meant: of the one that was
\* built, or of the registry's.
THEOREM MadeOfTheImageMeantCorrect == TestSpec => MadeOfTheImageMeant
<1> DEFINE Meant ==
      \A c \in Containers : madeOf'[c] \notin {madeOf[c], NoImage} =>
        /\ build # "none" /\ remote = NoImage => madeOf'[c] = "built"
        /\ remote # NoImage => madeOf'[c] \in {remote, "built"} \/ unanswered \/ stale
<1>1. TestInit => ImageInv
  BY DEF TestInit, ImagesInit, ImageInv, BuiltHere, FetchedHere, Updating
<1>2. ASSUME ImageInv, [TestNext]_allVars PROVE [Meant]_allVars
  <2>1. CASE CreateOfTag
    <3>1. /\ scope = "run" /\ phase = "create" /\ fetch = "fetched" /\ local # NoImage
          /\ madeOf' = [madeOf EXCEPT ![Order[at]] = local]
      BY <2>1 DEF CreateOfTag, Create
    <3>2. \A c \in Containers : madeOf'[c] \in {madeOf[c], local} \/ madeOf'[c] = madeOf[c]
      BY <3>1
    <3>3. /\ build # "none" /\ remote = NoImage => local = "built"
          /\ remote # NoImage => local \in {remote, "built"} \/ unanswered \/ stale
      BY <1>2, <3>1 DEF ImageInv, BuiltHere, FetchedHere
    <3> QED
      BY <3>2, <3>3
  <2>2. CASE LeaveRun
    BY <2>2 DEF LeaveRun, ServiceGone
  <2>3. CASE ~CreateOfTag /\ ~LeaveRun
    <3>1. madeOf' = madeOf
      BY <1>2, <2>3 DEF TestNext, Build, Enter, FetchImage, CreateRefused, Untag, Service, CheckOwn,
         KillOwn, WaitOwn, RemoveOwn, ExitOwn, LeaveTempNetwork, LeaveImage, OwnKept, testVars, allVars
    <3> QED
      BY <3>1
  <2> QED
    BY <2>1, <2>2, <2>3
<1>3. ImageInv /\ [TestNext]_allVars => ImageInv'
  BY ImageStep
<1> QED
  BY <1>1, <1>2, <1>3, PTL DEF TestSpec, MadeOfTheImageMeant
==============================================================================
