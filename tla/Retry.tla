-------------------------------- MODULE Retry --------------------------------
(***************************************************************************)
(* yellowbox.retry.RetrySpec: attempts at an action that may fail, with an *)
(* interval between them, up to a number of attempts or a time limit.      *)
(* retry and aretry are the same but for the sleep that aretry awaits.     *)
(*                                                                         *)
(* Time is counted in whole units from the call of retry.                  *)
(***************************************************************************)
EXTENDS Naturals

CONSTANTS
  RetrySpecs,  \* the RetrySpecs in use: [interval, attempts, timeout]
  Durations,   \* how long an attempt may take
  None

ASSUME RetryAssumption ==
  /\ None \notin Nat /\ Durations \subseteq Nat
  /\ RetrySpecs \subseteq [interval : Nat, attempts : Nat \cup {None}, timeout : Nat \cup {None}]
  \* __post_init__
  /\ \A spec \in RetrySpecs : spec.attempts # None \/ spec.timeout # None

VARIABLES
  spec,      \* the RetrySpec of the call, None outside of one
  retrying,  \* "idle", "attempt", "sleep", "returned", "raised" or "propagated"
  tries,     \* the attempts made
  clock      \* the time since the call

retryVars == <<spec, retrying, tries, clock>>

RetryInit == spec = None /\ retrying = "idle" /\ tries = 0 /\ clock = 0

\* attempts < 1 raises ValueError before any attempt.
BeginRetry ==
  /\ spec' \in RetrySpecs
  /\ retrying' = IF spec'.attempts = 0 THEN "raised" ELSE "attempt"
  /\ tries' = 0
  /\ clock' = 0

\* The last attempt is the call of func after the loop, whose exception is not caught.
LastTry == spec.attempts # None /\ tries + 1 = spec.attempts
\* if self.timeout: a timeout of 0 is none.
Overdue(time) == spec.timeout \notin {None, 0} /\ time > spec.timeout

TrySucceeds ==
  /\ retrying = "attempt"
  /\ \E d \in Durations : clock' = clock + d
  /\ tries' = tries + 1
  /\ retrying' = "returned"
  /\ UNCHANGED spec

\* (a defective variant: the loop goes on once more than it should)
TryFailsOnceMore ==
  /\ retrying = "attempt"
  /\ \E d \in Durations : clock' = clock + d
  /\ tries' = tries + 1
  /\ retrying' = IF (spec.attempts # None /\ tries = spec.attempts) \/ Overdue(clock')
                 THEN "raised" ELSE "sleep"
  /\ UNCHANGED spec

\* func raises one of the exceptions retried.
TryFails ==
  /\ retrying = "attempt"
  /\ \E d \in Durations : clock' = clock + d
  /\ tries' = tries + 1
  /\ retrying' = IF LastTry \/ Overdue(clock') THEN "raised" ELSE "sleep"
  /\ UNCHANGED spec

\* func raises something else: it is not caught.
TryPropagates ==
  /\ retrying = "attempt"
  /\ \E d \in Durations : clock' = clock + d
  /\ tries' = tries + 1
  /\ retrying' = "propagated"
  /\ UNCHANGED spec

Sleep ==
  /\ retrying = "sleep"
  /\ clock' = clock + spec.interval
  /\ retrying' = "attempt"
  /\ UNCHANGED <<spec, tries>>

--------------------------------------------------------------------------------
Try == TryFails \/ TryPropagates \/ Sleep

EndRetry == spec' = None /\ retrying' = "idle" /\ tries' = 0 /\ clock' = 0

--------------------------------------------------------------------------------
\* A retry makes no more attempts than it may, and gives up on a failure only when they
\* are used up or the time is over.  The time is looked at only after a failure: none
\* before the last was overdue, so the last attempt starts at most one interval late.
RetriesAsSpecified ==
  /\ spec # None /\ spec.attempts # None => tries <= spec.attempts
  /\ retrying = "raised" => tries = spec.attempts \/ Overdue(clock)
  /\ retrying = "attempt" /\ spec.timeout \notin {None, 0} /\ tries > 0 =>
       clock <= spec.timeout + spec.interval
==============================================================================
