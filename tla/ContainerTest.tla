---------------------------- MODULE ContainerTest -----------------------------
(***************************************************************************)
(* A test that enters, in turn, build_image, temp_network, killing and     *)
(* removing for a container of its own, and the run() of a service made of *)
(* the image; and leaves them in reverse, whatever has been raised.        *)
(***************************************************************************)
EXTENDS ContainerService, Images

VARIABLES
  scope,    \* the innermost context it is in: "build", "run", "killing", "removing",
            \* "network", "image" or "none"
  ostep,    \* within killing and removing: "check", "kill", "wait" or "remove"
  own,      \* the container of its own: "none", "created", "running", "exited" or "removed"
  code,     \* its exit code: "zero", "error" or "killed"
  killed,   \* it was sent a signal
  force,    \* removing: its argument force ...
  expects,  \* ... and expected_exit_code: "zero", or None for any
  madeOf,   \* the image each container of the service was made of
  inUse     \* the run() has left a container that was made of the image

ownVars == <<ostep, own, code, killed, force, expects>>
testVars == <<scope, ownVars, madeOf, inUse>>
serviceVars == <<daemonVars, remove, network, placeVars, calls, historyVars, retryVars>>
allVars == <<serviceVars, imageVars, testVars>>

TestInit ==
  /\ Init /\ ImagesInit
  /\ scope = "build"
  /\ ostep = "check" /\ own = "none" /\ code = None /\ killed = FALSE
  /\ force = FALSE /\ expects = None
  /\ madeOf = [c \in Containers |-> NoImage] /\ inUse = FALSE

--------------------------------------------------------------------------------
(* The entry: the image is built, if it is, and the service is run. *)

Leave(next) == scope' = next
RaiseOut == raising' = TRUE /\ UNCHANGED <<daemonVars, remove, network, phase, at, step, caller,
                                            calls, historyVars, retryVars>>

Build ==
  /\ scope = "build"
  /\ BuildMessage \/ BuildEnds
  /\ UNCHANGED <<serviceVars, testVars>>

Enter ==
  /\ scope = "build" /\ build \in {"none", "yielded", "failed"}
  /\ IF build = "failed" THEN Leave("none") /\ RaiseOut ELSE Leave("run") /\ UNCHANGED serviceVars
  /\ UNCHANGED <<imageVars, ownVars, madeOf, inUse>>

FetchImage ==
  /\ scope = "run" /\ phase = "create"
  /\ Fetch
  /\ UNCHANGED <<serviceVars, testVars>>

\* (a defective variant: the container is made of the image that was fetched)
CreateOfFetched ==
  /\ scope = "run" /\ fetch = "fetched"
  /\ Create /\ IF at < Len(Order) THEN EndFetch ELSE EndLastFetch
  /\ madeOf' = [madeOf EXCEPT ![Order[at]] = cache]
  /\ UNCHANGED <<scope, ownVars, inUse>>

\* create_and_pull: the container is made of what the tag stands for now.
CreateOfTag ==
  /\ scope = "run" /\ fetch = "fetched" /\ local # NoImage
  /\ Create /\ IF at < Len(Order) THEN EndFetch ELSE EndLastFetch
  /\ madeOf' = [madeOf EXCEPT ![Order[at]] = local]
  /\ UNCHANGED <<scope, ownVars, inUse>>

\* The daemon refuses, as it does if the tag is gone; or there was nothing to pull.
CreateRefused ==
  /\ scope = "run" /\ fetch \in {"fetched", "failed"}
  /\ CreateFails /\ EndFetch
  /\ UNCHANGED testVars

Service ==
  /\ scope = "run" /\ phase # "create"
  /\ Next
  /\ UNCHANGED <<imageVars, testVars>>

--------------------------------------------------------------------------------
(* The exits of killing and removing.  What happened to the container before the exit of  *)
(* killing is told by the state it is found in.                                           *)

\* A container that was made of the image, running or not.
ImageInUse == \E c \in Containers : state[c] \in {"created", "running", "exited"} /\ madeOf[c] = local

\* Of the service only what it has left behind matters from here on.
ServiceGone ==
  /\ inUse' = ImageInUse
  /\ state' = [c \in Containers |-> "none"] /\ madeOf' = [c \in Containers |-> NoImage]
  /\ phase' = "over" /\ at' = 1 /\ step' = "check" /\ caller' = "run"
  /\ remove' = FALSE /\ network' = FALSE /\ calls' = 0
  /\ signalled' = {} /\ crashed' = {} /\ failures' = {}
  /\ UNCHANGED <<attached, ownNetwork, raising, retryVars>>

LeaveRun ==
  /\ scope = "run" /\ phase = "end"
  /\ ServiceGone
  /\ own' \in {"none", "created", "running", "exited", "removed"}
  /\ code' \in (IF own' = "exited" THEN {"zero", "error"} ELSE {None})
  /\ IF own' = "none" THEN Leave("network") /\ UNCHANGED <<force, expects>>
     ELSE /\ Leave("killing") \/ Leave("removing")
          /\ force' \in BOOLEAN /\ expects' \in {"zero", None}
  /\ UNCHANGED <<imageVars, ostep, killed>>

Alive == own \in {"created", "running"}
OwnStep(s) == scope \in {"killing", "removing"} /\ ostep = s
NextScope == IF scope = "killing" THEN "removing" ELSE "network"
LeaveScope == Leave(NextScope) /\ ostep' = "check"
RaiseScope == LeaveScope /\ RaiseOut
OwnKept == UNCHANGED <<imageVars, force, expects, madeOf, inUse>>

\* killing looks whether the container is alive; removing whether it is there at all.
CheckOwn ==
  /\ OwnStep("check")
  /\ \/ Alive /\ (scope = "killing" \/ force) /\ ostep' = "kill" /\ UNCHANGED <<scope, serviceVars>>
     \/ Alive /\ scope = "removing" /\ ~force /\ RaiseScope
     \/ own = "exited" /\ scope = "removing" /\ ostep' = "wait" /\ UNCHANGED <<scope, serviceVars>>
     \/ (own = "removed" \/ (own = "exited" /\ scope = "killing")) /\ LeaveScope /\ UNCHANGED serviceVars
  /\ OwnKept /\ UNCHANGED <<own, code, killed>>

\* The daemon answers 409 unless the container runs.
KillOwn ==
  /\ OwnStep("kill")
  /\ IF own = "running"
     THEN ostep' = "wait" /\ killed' = TRUE /\ UNCHANGED <<scope, serviceVars>>
     ELSE RaiseScope /\ UNCHANGED killed
  /\ OwnKept /\ UNCHANGED <<own, code>>

\* The container has exited, or the wait times out; removing looks at the exit code.
WaitOwn ==
  /\ OwnStep("wait")
  /\ IF own # "exited" THEN RaiseScope
     ELSE IF scope = "killing" THEN LeaveScope /\ UNCHANGED serviceVars
     ELSE IF expects \in {None, code} THEN ostep' = "remove" /\ UNCHANGED <<scope, serviceVars>>
     ELSE RaiseScope
  /\ OwnKept /\ UNCHANGED <<own, code, killed>>

RemoveOwn ==
  /\ OwnStep("remove")
  /\ own' = "removed"
  /\ LeaveScope
  /\ OwnKept /\ UNCHANGED <<serviceVars, code, killed>>

\* The container exits, by a signal or of itself; removing sends SIGKILL, killing any.
ExitOwn ==
  /\ own = "running" /\ scope \in {"killing", "removing"}
  /\ own' = "exited"
  /\ code' \in (IF ~killed THEN {"zero", "error"}
               ELSE IF scope = "removing" /\ ostep = "wait" THEN {"killed"} ELSE {"zero", "killed"})
  /\ OwnKept /\ UNCHANGED <<serviceVars, scope, ostep, killed>>

--------------------------------------------------------------------------------
(* The exits of temp_network and build_image. *)

\* disconnecting: the containers that the network still lists, which are those that run,
\* are disconnected and the network is removed.
LeaveTempNetwork ==
  /\ scope = "network"
  /\ attached' = {}
  /\ Leave("image")
  /\ UNCHANGED <<state, ownNetwork, remove, network, placeVars, calls, historyVars, retryVars,
                 imageVars, ownVars, madeOf, inUse>>

\* (a defective variant: any refusal of the daemon is passed over)
LeaveImageQuietly ==
  /\ scope = "image"
  /\ Leave("none")
  /\ IF build = "none" THEN UNCHANGED imageVars
     ELSE IF raising \/ inUse THEN KeepImage
     ELSE RemoveImage
  /\ UNCHANGED <<serviceVars, ownVars, madeOf, inUse>>

\* An image in use cannot be removed; one that is gone need not be.
LeaveImage ==
  /\ scope = "image"
  /\ Leave("none")
  /\ IF build = "none" THEN UNCHANGED <<imageVars, serviceVars>>
     ELSE IF raising THEN KeepImage /\ UNCHANGED serviceVars
     ELSE IF removeImage /\ inUse THEN KeepImage /\ RaiseOut
     ELSE RemoveImage /\ UNCHANGED serviceVars
  /\ UNCHANGED <<ownVars, madeOf, inUse>>

\* Someone else removes the tag before the service is made.
Untag ==
  /\ scope = "run" /\ phase = "create" /\ local # NoImage /\ ~ImageInUse
  /\ local' = NoImage
  /\ UNCHANGED <<remote, fetchVars, buildVars, stale, serviceVars, testVars>>

StepTest ==
  \/ Build \/ Enter \/ FetchImage \/ CreateOfTag \/ CreateRefused
  \/ scope = "run" /\ phase # "create" /\ Run /\ UNCHANGED <<imageVars, testVars>>
  \/ LeaveRun \/ CheckOwn \/ KillOwn \/ WaitOwn \/ RemoveOwn
  \/ LeaveTempNetwork \/ LeaveImage

TestNext ==
  \/ Build \/ Enter \/ FetchImage \/ CreateOfTag \/ CreateRefused \/ Untag \/ Service
  \/ LeaveRun \/ CheckOwn \/ KillOwn \/ WaitOwn \/ RemoveOwn \/ ExitOwn
  \/ LeaveTempNetwork \/ LeaveImage

TestSpec == TestInit /\ [][TestNext]_allVars

\* The test makes its next call as soon as the last has returned.
TestFairSpec == TestSpec /\ WF_allVars(StepTest)
--------------------------------------------------------------------------------
(***************************************************************************)
(* Properties                                                              *)
(***************************************************************************)
\* The containers are made of the image that is meant.  A tag that only the test knows
\* stands for what was built, whatever the process had fetched under it before; and one
\* that the registry knows stands for what the registry has, unless it failed to answer,
\* the process had fetched the tag before, or the image built lists no digests.
MadeOfTheImageMeant ==
  [][\A c \in Containers : madeOf'[c] \notin {madeOf[c], NoImage} =>
       /\ build # "none" /\ remote = NoImage => madeOf'[c] = "built"
       /\ remote # NoImage => madeOf'[c] \in {remote, "built"} \/ unanswered \/ stale]_allVars

\* A test that ends without an exception leaves nothing behind: no container in removing,
\* none in the network, no network of a service, and no image in
\* build_image; whatever cannot be removed raises.
TestLeavesNothing ==
  scope = "none" /\ ~raising =>
    /\ own \in {"none", "removed"}
    /\ attached = {} /\ ownNetwork # "made"
    /\ build # "none" /\ removeImage => local = NoImage

\* A test gets to its body or to its end, and from the body's end to its own, with
\* containers that never heed a signal or never answer as with any others.
TestEnds ==
  scope # "run" \/ phase # "body" ~> scope = "none" \/ (scope = "run" /\ phase = "body")
================================================================================
