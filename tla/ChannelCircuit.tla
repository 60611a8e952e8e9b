--------------------------- MODULE ChannelCircuit ---------------------------
(***************************************************************************)
(* The circuit breaker of one channel and model                            *)
(* (service/pricingruntime/circuit.go and circuit_redis.go).               *)
(*                                                                         *)
(* The circuit lives in Redis and is shared by all instances; an operation *)
(* whose Redis script fails falls back to the circuit in the instance's    *)
(* memory, even if Redis has run the script.  Requests that were admitted  *)
(* long ago, or that named the channel and were never asked to wait,       *)
(* report their results at any time.                                       *)
(*                                                                         *)
(* Times are kept as the number of ticks left.  An operation reads the     *)
(* clock before it takes the mutex or runs the script, so that its "now"   *)
(* may lag by up to Lag ticks; a deadline Lag ticks ago is past for every  *)
(* operation and stands for the zero time of ProbeUntil as well.           *)
(***************************************************************************)
EXTENDS Integers, FiniteSets

CONSTANTS
  Request, Instance, Redis,
  RedisEnabled,        \* circuitRedisEnabled
  Threshold,           \* channelFailureThreshold
  FailureCooldown, RateLimitCooldown, ProbeTimeout,
  Lag                  \* bound: how old the "now" of an operation may be

ASSUME CircuitAssumption ==
  /\ Redis \notin Instance /\ "idle" \notin Instance
  /\ RedisEnabled \in BOOLEAN
  /\ Threshold \in Nat \ {0}
  /\ FailureCooldown \in Nat /\ RateLimitCooldown \in Nat /\ ProbeTimeout \in Nat /\ Lag \in Nat
  /\ Lag < FailureCooldown /\ Lag < RateLimitCooldown /\ Lag < ProbeTimeout

Store == Instance \cup {Redis}
Past == -Lag

\* The shortest of the three delays.
MinDelay ==
  CHOOSE d \in {FailureCooldown, RateLimitCooldown, ProbeTimeout} :
    d <= FailureCooldown /\ d <= RateLimitCooldown /\ d <= ProbeTimeout

VARIABLES
  circuit,   \* per store: ConsecutiveFailures (up to Threshold), whether
             \* OpenUntil is set, and the ticks left to OpenUntil and ProbeUntil
  running,   \* per request: the instance it runs on, or "idle"
  on, was,   \* per instance: IsCircuitBreakerEnabled, circuitMonitoringWasEnabled
  calm,      \* from now on the provider answers and Redis works
  since      \* history, per store: ticks since it last opened or let a probe pass

vars == <<circuit, running, on, was, calm, since>>

Closed == [failures |-> 0, tripped |-> FALSE, open |-> Past, probe |-> Past]

Circuit == [failures : 0..Threshold, tripped : BOOLEAN,
            open : (Past..FailureCooldown) \cup (Past..RateLimitCooldown),
            probe : Past..ProbeTimeout]

TypeOK ==
  /\ circuit \in [Store -> Circuit]
  /\ running \in [Request -> Instance \cup {"idle"}]
  /\ on \in [Instance -> BOOLEAN] /\ was \in [Instance -> BOOLEAN]
  /\ calm \in BOOLEAN
  /\ since \in [Store -> 0..MinDelay]

Init ==
  /\ circuit = [s \in Store |-> Closed]
  /\ running = [r \in Request |-> "idle"]
  /\ on = [i \in Instance |-> TRUE] /\ was = [i \in Instance |-> TRUE]
  /\ calm = FALSE
  /\ since = [s \in Store |-> MinDelay]

-----------------------------------------------------------------------------
(* One circuit                                                             *)

Blocked(c, lag) == c.open + lag > 0 \/ c.probe + lag > 0

\* tryAcquireChannelAt and the script of tryAcquireChannelRedis on a circuit
\* that does not refuse: once tripped, it lets one probe pass.
Acquired(c, lag) == IF c.tripped THEN [c EXCEPT !.probe = ProbeTimeout - lag] ELSE c

Count(c) == IF c.failures < Threshold THEN c.failures + 1 ELSE Threshold

\* recordChannelFailureAt for the status codes 0, 408 and 5xx.
Failed(c, lag) ==
  IF Count(c) >= Threshold \/ c.tripped
    THEN [failures |-> Count(c), tripped |-> TRUE, open |-> FailureCooldown - lag, probe |-> Past]
    ELSE [c EXCEPT !.failures = Count(c), !.probe = Past]

\* Mutant: a rate limit that meets an open circuit leaves its deadline.
RateLimitedKeeps(c, lag) ==
  [failures |-> 0, tripped |-> TRUE, probe |-> Past,
   open |-> IF c.tripped THEN c.open ELSE RateLimitCooldown - lag]

\* recordChannelFailureAt for 429.
RateLimited(c, lag) ==
  [failures |-> 0, tripped |-> TRUE, open |-> RateLimitCooldown - lag, probe |-> Past]

-----------------------------------------------------------------------------
(* Operations                                                              *)

\* The stores an operation of instance i writes: Redis; or, when the script
\* reports an error, the memory of the instance, with or without Redis.
Written(i) ==
  IF ~RedisEnabled THEN {{i}}
  ELSE {{Redis}} \cup (IF calm THEN {} ELSE {{i}, {i, Redis}})

\* The store whose answer counts.
Decides(i, S) == IF i \in S THEN i ELSE Redis

\* circuitMonitoringEnabled finds the breaker switched off: the first
\* operation to see it clears the circuits, Redis permitting.
SwitchedOff(i) ==
  /\ was' = [was EXCEPT ![i] = FALSE]
  /\ \E S \in {{i} \cup T : T \in IF ~RedisEnabled THEN {{}} ELSE IF calm THEN {{Redis}} ELSE {{}, {Redis}}} :
       circuit' = [s \in Store |-> IF was[i] /\ s \in S THEN Closed ELSE circuit[s]]
  /\ UNCHANGED since

SwitchedOn(i) == was' = [was EXCEPT ![i] = TRUE]

\* TryAcquireChannel lets request r pass on instance i.  (A refusal changes
\* nothing.)
TryAcquireChannel(r, i) ==
  /\ running[r] = "idle"
  /\ running' = [running EXCEPT ![r] = i]
  /\ \/ ~on[i] /\ SwitchedOff(i)
     \/ /\ on[i] /\ SwitchedOn(i)
        /\ \E lag \in 0..Lag, S \in Written(i) :
             /\ ~Blocked(circuit[Decides(i, S)], lag)
             /\ circuit' = [s \in Store |->
                  IF s \in S /\ ~Blocked(circuit[s], lag) THEN Acquired(circuit[s], lag)
                  ELSE circuit[s]]
             /\ since' = [s \in Store |->
                  IF s \in S /\ ~Blocked(circuit[s], lag) /\ circuit[s].tripped THEN 0
                  ELSE since[s]]
  /\ UNCHANGED <<on, calm>>

\* A request that names its channel is not asked to wait.
SpecificChannel(r, i) ==
  /\ running[r] = "idle"
  /\ running' = [running EXCEPT ![r] = i]
  /\ UNCHANGED <<circuit, on, was, calm, since>>

\* The request ends with a status code the breaker ignores, or is given up
\* after it was admitted (SetupContextForSelectedChannel fails).
ClientError(r) ==
  /\ running[r] # "idle"
  /\ running' = [running EXCEPT ![r] = "idle"]
  /\ UNCHANGED <<circuit, on, was, calm, since>>

\* Mutant: a success only ends the row of failures.
SuccessKeepsOpen(r) ==
  LET i == running[r]
  IN  /\ i # "idle"
      /\ running' = [running EXCEPT ![r] = "idle"]
      /\ circuit' = [s \in Store |-> [circuit[s] EXCEPT !.failures = 0]]
      /\ UNCHANGED <<on, was, calm, since>>

\* RecordChannelSuccessWithLatency
RecordChannelSuccess(r) ==
  LET i == running[r]
  IN  /\ i # "idle"
      /\ running' = [running EXCEPT ![r] = "idle"]
      /\ \/ ~on[i] /\ SwitchedOff(i)
         \/ /\ on[i] /\ SwitchedOn(i)
            /\ \E S \in Written(i) :
                 circuit' = [s \in Store |-> IF s \in S THEN Closed ELSE circuit[s]]
            /\ UNCHANGED since
      /\ UNCHANGED <<on, calm>>

\* RecordChannelFailure
RecordChannelFailure(r) ==
  LET i == running[r]
  IN  /\ i # "idle" /\ ~calm
      /\ running' = [running EXCEPT ![r] = "idle"]
      /\ \/ ~on[i] /\ SwitchedOff(i)
         \/ /\ on[i] /\ SwitchedOn(i)
            /\ \E lag \in 0..Lag, S \in Written(i), limited \in BOOLEAN :
                 LET after(c) == IF limited THEN RateLimited(c, lag) ELSE Failed(c, lag)
                 IN  /\ circuit' = [s \in Store |-> IF s \in S THEN after(circuit[s]) ELSE circuit[s]]
                     /\ since' = [s \in Store |->
                          IF s \in S /\ after(circuit[s]).tripped THEN 0 ELSE since[s]]
      /\ UNCHANGED <<on, calm>>

\* ResetChannelCircuit by an administrator; RemoveChannelCircuit differs in
\* clearing both stores, whether or not monitoring is on.
ResetChannelCircuit(i) ==
  /\ \/ ~on[i] /\ SwitchedOff(i)
     \/ /\ on[i] /\ SwitchedOn(i)
        /\ \E S \in Written(i) :
             circuit' = [s \in Store |-> IF s \in S THEN Closed ELSE circuit[s]]
        /\ UNCHANGED since
  /\ UNCHANGED <<running, on, calm>>

RemoveChannelCircuit(i) ==
  /\ \E S \in {{i}} \cup (IF RedisEnabled THEN {{i, Redis}} ELSE {}) :
       circuit' = [s \in Store |-> IF s \in S THEN Closed ELSE circuit[s]]
  /\ UNCHANGED <<running, on, was, calm, since>>

\* The setting reaches the instances one by one.
Switch(i) ==
  /\ ~calm
  /\ on' = [on EXCEPT ![i] = ~@]
  /\ UNCHANGED <<circuit, running, was, calm, since>>

\* A process starts anew with empty memory; its requests are gone.
Restart(i) ==
  /\ circuit' = [circuit EXCEPT ![i] = Closed]
  /\ running' = [r \in Request |-> IF running[r] = i THEN "idle" ELSE running[r]]
  /\ was' = [was EXCEPT ![i] = TRUE]
  /\ UNCHANGED <<on, calm, since>>

Passes(t) == IF t > Past THEN t - 1 ELSE t
Older(c) == [c EXCEPT !.open = Passes(c.open), !.probe = Passes(c.probe)]

Tick ==
  /\ circuit' = [s \in Store |-> Older(circuit[s])]
  /\ since' = [s \in Store |-> IF since[s] < MinDelay THEN since[s] + 1 ELSE since[s]]
  /\ UNCHANGED <<running, on, was, calm>>

BecomeCalm ==
  /\ ~calm /\ calm' = TRUE
  /\ on' = [i \in Instance |-> TRUE]
  /\ UNCHANGED <<circuit, running, was, since>>

Next ==
  \/ \E r \in Request, i \in Instance : TryAcquireChannel(r, i) \/ SpecificChannel(r, i)
  \/ \E r \in Request : ClientError(r) \/ RecordChannelSuccess(r) \/ RecordChannelFailure(r)
  \/ \E i \in Instance : ResetChannelCircuit(i) \/ RemoveChannelCircuit(i) \/ Switch(i) \/ Restart(i)
  \/ Tick \/ BecomeCalm

Spec == Init /\ [][Next]_vars

-----------------------------------------------------------------------------
(* Properties                                                              *)

\* A circuit that is not open has seen fewer than Threshold failures in a row,
\* whatever order the results of earlier requests come in.
OpensInTime ==
  \A s \in Store : ~circuit[s].tripped => circuit[s].failures < Threshold

\* The inductive core of ProbesSpaced: an open circuit is blocked by its
\* cool-down or by its probe for as long as is left of the shortest delay.
StaysBlocked ==
  \A s \in Store : circuit[s].tripped =>
    \/ circuit[s].open >= MinDelay - Lag - since[s]
    \/ circuit[s].probe >= MinDelay - Lag - since[s]

\* Between two probes let pass by one store, or the opening and the first of
\* them, with no success or reset between, at least the shortest delay passes
\* (less the lag of the clock), however many requests ask at once and whichever
\* late results arrive meanwhile.
ProbesSpaced ==
  [][\A s \in Store :
       circuit[s].tripped /\ circuit'[s].probe > circuit[s].probe =>
         since[s] >= MinDelay - Lag]_vars

\* A channel whose provider answers again is used again: requests keep coming,
\* not all of them are client errors, and time passes.
Fairness ==
  /\ WF_vars(Tick)
  /\ SF_vars(\E r \in Request, i \in Instance : TryAcquireChannel(r, i))
  /\ \A r \in Request : SF_vars(RecordChannelSuccess(r)) 

FairSpec == Spec /\ Fairness

InUse(s) == IF RedisEnabled THEN s = Redis ELSE s \in Instance

\* An open circuit of the store in use closes once the provider answers and
\* Redis works, even if probes are lost or answered late.
Recovers == \A s \in Store : InUse(s) => (calm /\ circuit[s].tripped) ~> ~circuit[s].tripped
=============================================================================
