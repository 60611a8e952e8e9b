------------------------ MODULE ChannelCircuitProofs ------------------------
(***************************************************************************)
(* Proofs about ChannelCircuit, for any number of requests and instances,  *)
(* any threshold and any delays longer than the lag of the clock.          *)
(***************************************************************************)
EXTENDS ChannelCircuit, TLAPS

\* What the invariants say of one circuit and the ticks since it last opened.
Good(c, n) ==
  /\ ~c.tripped => c.failures < Threshold
  /\ c.tripped => c.open >= MinDelay - Lag - n \/ c.probe >= MinDelay - Lag - n

-----------------------------------------------------------------------------
(* Arithmetic of one circuit                                               *)

\* The shortest delay is one of the delays, and longer than the lag.
LEMMA MinDelayType ==
  /\ MinDelay \in Nat /\ Lag < MinDelay
  /\ MinDelay <= FailureCooldown /\ MinDelay <= RateLimitCooldown /\ MinDelay <= ProbeTimeout
<1> DEFINE Delays == {FailureCooldown, RateLimitCooldown, ProbeTimeout}
           Least(d) == d <= FailureCooldown /\ d <= RateLimitCooldown /\ d <= ProbeTimeout
<1>1. \E d \in Delays : Least(d)
  BY CircuitAssumption
<1>2. MinDelay \in Delays /\ Least(MinDelay)
  BY <1>1 DEF MinDelay
<1> QED
  BY <1>2, CircuitAssumption

\* A closed circuit is good, whatever the time.
LEMMA ClosedGood == ASSUME NEW n \in 0..MinDelay PROVE Closed \in Circuit /\ Good(Closed, n)
  BY CircuitAssumption DEF Closed, Circuit, Good, Past

\* recordChannelFailureAt leaves a circuit good: it opens it, or counts on.
LEMMA FailedGood ==
  ASSUME NEW c \in Circuit, NEW lag \in 0..Lag, NEW n \in 0..MinDelay
  PROVE  /\ Failed(c, lag) \in Circuit
         /\ Good(Failed(c, lag), IF Failed(c, lag).tripped THEN 0 ELSE n)
<1>1. Count(c) \in 0..Threshold
  BY CircuitAssumption DEF Count, Circuit
<1>2. CASE Count(c) >= Threshold \/ c.tripped
  <2>1. Failed(c, lag) = [failures |-> Count(c), tripped |-> TRUE,
                          open |-> FailureCooldown - lag, probe |-> Past]
    BY <1>2 DEF Failed
  <2>2. FailureCooldown - lag \in Past..FailureCooldown /\ Past \in Past..ProbeTimeout
    BY CircuitAssumption DEF Past
  <2>3. FailureCooldown - lag >= MinDelay - Lag - 0
    BY CircuitAssumption, MinDelayType
  <2> QED
    BY <1>1, <2>1, <2>2, <2>3 DEF Circuit, Good
<1>3. CASE ~(Count(c) >= Threshold \/ c.tripped)
  <2>1. Failed(c, lag) = [c EXCEPT !.failures = Count(c), !.probe = Past]
    BY <1>3 DEF Failed
  <2>2. Past \in Past..ProbeTimeout
    BY CircuitAssumption DEF Past
  <2>3. Count(c) < Threshold /\ ~c.tripped
    BY <1>1, <1>3, CircuitAssumption
  <2> QED
    BY <1>1, <2>1, <2>2, <2>3 DEF Circuit, Good
<1> QED
  BY <1>2, <1>3

\* A rate limit opens the circuit for at least the shortest delay.
LEMMA RateLimitedGood ==
  ASSUME NEW c \in Circuit, NEW lag \in 0..Lag
  PROVE  RateLimited(c, lag) \in Circuit /\ RateLimited(c, lag).tripped /\ Good(RateLimited(c, lag), 0)
<1>1. RateLimitCooldown - lag \in Past..RateLimitCooldown /\ Past \in Past..ProbeTimeout
  BY CircuitAssumption DEF Past
<1>2. RateLimitCooldown - lag >= MinDelay - Lag - 0
  BY CircuitAssumption, MinDelayType
<1>3. 0 \in 0..Threshold
  BY CircuitAssumption
<1> QED
  BY <1>1, <1>2, <1>3 DEF RateLimited, Circuit, Good

\* A probe blocks the circuit for at least the shortest delay.
LEMMA AcquiredGood ==
  ASSUME NEW c \in Circuit, NEW lag \in 0..Lag, NEW n \in 0..MinDelay, Good(c, n)
  PROVE  Acquired(c, lag) \in Circuit /\ Good(Acquired(c, lag), IF c.tripped THEN 0 ELSE n)
<1>1. ProbeTimeout - lag \in Past..ProbeTimeout
  BY CircuitAssumption DEF Past
<1>2. ProbeTimeout - lag >= MinDelay - Lag - 0
  BY CircuitAssumption, MinDelayType
<1>3. CASE c.tripped
  <2>1. Acquired(c, lag) = [c EXCEPT !.probe = ProbeTimeout - lag]
    BY <1>3 DEF Acquired
  <2> QED
    BY <1>1, <1>2, <1>3, <2>1 DEF Circuit, Good
<1>4. CASE ~c.tripped
  BY <1>4 DEF Acquired
<1> QED
  BY <1>3, <1>4

\* A tick takes as much from the deadlines as from the time left to wait.
LEMMA OlderGood ==
  ASSUME NEW c \in Circuit, NEW n \in 0..MinDelay, Good(c, n)
  PROVE  Older(c) \in Circuit /\ Good(Older(c), IF n < MinDelay THEN n + 1 ELSE n)
<1> DEFINE m == IF n < MinDelay THEN n + 1 ELSE n
<1>1. /\ c.open \in Int /\ c.probe \in Int /\ c.open >= Past /\ c.probe >= Past
      /\ Past \in Int /\ Past = 0 - Lag
  BY CircuitAssumption DEF Circuit, Past
<1>2. /\ Passes(c.open) \in (Past..FailureCooldown) \cup (Past..RateLimitCooldown)
      /\ Passes(c.probe) \in Past..ProbeTimeout
  BY CircuitAssumption, <1>1 DEF Circuit, Passes, Past
<1>3. Older(c) = [c EXCEPT !.open = Passes(c.open), !.probe = Passes(c.probe)]
  BY DEF Older
<1>4. ASSUME NEW t \in Int, t >= Past, t >= MinDelay - Lag - n PROVE Passes(t) >= MinDelay - Lag - m
  BY <1>1, <1>4, MinDelayType, CircuitAssumption DEF Passes
<1>5. c.tripped => Passes(c.open) >= MinDelay - Lag - m \/ Passes(c.probe) >= MinDelay - Lag - m
  BY <1>1, <1>4 DEF Good
<1>6. /\ Older(c).tripped = c.tripped /\ Older(c).failures = c.failures
      /\ Older(c).open = Passes(c.open) /\ Older(c).probe = Passes(c.probe)
  BY <1>3 DEF Circuit
<1>7. Older(c) \in Circuit
  BY <1>2, <1>3 DEF Circuit
<1> HIDE DEF m
<1>8. Good(Older(c), m)
  BY <1>5, <1>6 DEF Good
<1> QED
  BY <1>7, <1>8 DEF m

-----------------------------------------------------------------------------
(* The invariant                                                           *)

IInv == TypeOK /\ \A s \in Store : Good(circuit[s], since[s])

\* The initial state satisfies the invariant.
LEMMA IInvInit == Init => IInv
<1> SUFFICES ASSUME Init PROVE IInv
  OBVIOUS
<1>1. MinDelay \in 0..MinDelay
  BY MinDelayType
<1>2. Closed \in Circuit /\ Good(Closed, MinDelay)
  BY <1>1, ClosedGood
<1> QED
  BY <1>1, <1>2 DEF Init, IInv, TypeOK

\* Every operation gives every store a good circuit.
LEMMA IInvNext == IInv /\ [Next]_vars => IInv'
<1> SUFFICES ASSUME IInv, [Next]_vars PROVE IInv'
  OBVIOUS
<1> USE DEF IInv
<1>a. 0 \in 0..MinDelay
  BY MinDelayType
<1>b. \A s \in Store : circuit[s] \in Circuit /\ since[s] \in 0..MinDelay /\ Good(circuit[s], since[s])
  BY DEF TypeOK
<1>c. ASSUME NEW S, circuit' = [s \in Store |-> IF s \in S THEN Closed ELSE circuit[s]], since' = since
      PROVE  /\ circuit' \in [Store -> Circuit] /\ since' \in [Store -> 0..MinDelay]
             /\ \A s \in Store : Good(circuit'[s], since'[s])
  BY <1>b, <1>c, ClosedGood DEF TypeOK
<1>d. ASSUME NEW i \in Instance, SwitchedOff(i)
      PROVE  /\ circuit' \in [Store -> Circuit] /\ since' \in [Store -> 0..MinDelay]
             /\ \A s \in Store : Good(circuit'[s], since'[s])
             /\ was' \in [Instance -> BOOLEAN]
  <2>1. since' = since /\ was' \in [Instance -> BOOLEAN]
    BY <1>d DEF SwitchedOff, TypeOK
  <2>2. PICK S : circuit' = [s \in Store |-> IF was[i] /\ s \in S THEN Closed ELSE circuit[s]]
    BY <1>d DEF SwitchedOff
  <2> QED
    BY <1>b, <2>1, <2>2, ClosedGood DEF TypeOK
<1>1. ASSUME NEW r \in Request, NEW i \in Instance, TryAcquireChannel(r, i) PROVE IInv'
  <2>1. running' \in [Request -> Instance \cup {"idle"}] /\ on' = on /\ calm' = calm
    BY <1>1 DEF TryAcquireChannel, TypeOK
  <2>2. CASE ~on[i] /\ SwitchedOff(i)
    BY <1>d, <2>1, <2>2 DEF TypeOK
  <2>3. CASE on[i] /\ SwitchedOn(i)
    <3>1. PICK lag \in 0..Lag, S \in Written(i) :
            /\ circuit' = [s \in Store |->
                 IF s \in S /\ ~Blocked(circuit[s], lag) THEN Acquired(circuit[s], lag) ELSE circuit[s]]
            /\ since' = [s \in Store |->
                 IF s \in S /\ ~Blocked(circuit[s], lag) /\ circuit[s].tripped THEN 0 ELSE since[s]]
      BY <1>1, <2>3 DEF TryAcquireChannel
    <3>2. \A s \in Store : circuit'[s] \in Circuit /\ Good(circuit'[s], since'[s])
      BY <1>b, <3>1, AcquiredGood
    <3>3. circuit' \in [Store -> Circuit] /\ since' \in [Store -> 0..MinDelay]
      BY <1>a, <1>b, <3>1, <3>2
    <3>4. was' \in [Instance -> BOOLEAN]
      BY <2>3 DEF SwitchedOn, TypeOK
    <3> QED
      BY <2>1, <3>2, <3>3, <3>4 DEF TypeOK
  <2>4. (on[i] /\ SwitchedOn(i)) \/ (~on[i] /\ SwitchedOff(i))
    BY <1>1 DEF TryAcquireChannel
  <2> QED
    BY <2>2, <2>3, <2>4
<1>2. ASSUME NEW r \in Request, NEW i \in Instance, SpecificChannel(r, i) PROVE IInv'
  BY <1>2 DEF SpecificChannel, TypeOK
<1>3. ASSUME NEW r \in Request, ClientError(r) PROVE IInv'
  BY <1>3 DEF ClientError, TypeOK
<1>4. ASSUME NEW r \in Request, RecordChannelSuccess(r) PROVE IInv'
  <2> DEFINE i == running[r]
  <2>0. i \in Instance
    BY <1>4 DEF RecordChannelSuccess, TypeOK
  <2>1. running' \in [Request -> Instance \cup {"idle"}] /\ on' = on /\ calm' = calm
    BY <1>4 DEF RecordChannelSuccess, TypeOK
  <2>2. CASE ~on[i] /\ SwitchedOff(i)
    BY <1>d, <2>0, <2>1, <2>2 DEF TypeOK
  <2>3. CASE on[i] /\ SwitchedOn(i)
    <3>1. PICK S \in Written(i) : circuit' = [s \in Store |-> IF s \in S THEN Closed ELSE circuit[s]]
      BY <1>4, <2>3 DEF RecordChannelSuccess
    <3>2. since' = since
      BY <1>4, <2>3 DEF RecordChannelSuccess
    <3>3. was' \in [Instance -> BOOLEAN]
      BY <2>3 DEF SwitchedOn, TypeOK
    <3> QED
      BY <1>c, <2>1, <3>1, <3>2, <3>3 DEF TypeOK
  <2>4. (on[i] /\ SwitchedOn(i)) \/ (~on[i] /\ SwitchedOff(i))
    BY <1>4 DEF RecordChannelSuccess
  <2> QED
    BY <2>2, <2>3, <2>4
<1>5. ASSUME NEW r \in Request, RecordChannelFailure(r) PROVE IInv'
  <2> DEFINE i == running[r]
  <2>0. i \in Instance
    BY <1>5 DEF RecordChannelFailure, TypeOK
  <2>1. running' \in [Request -> Instance \cup {"idle"}] /\ on' = on /\ calm' = calm
    BY <1>5 DEF RecordChannelFailure, TypeOK
  <2>2. CASE ~on[i] /\ SwitchedOff(i)
    BY <1>d, <2>0, <2>1, <2>2 DEF TypeOK
  <2>3. CASE on[i] /\ SwitchedOn(i)
    <3> DEFINE after(c, lag, limited) == IF limited THEN RateLimited(c, lag) ELSE Failed(c, lag)
    <3>1. PICK lag \in 0..Lag, S \in Written(i), limited \in BOOLEAN :
            /\ circuit' = [s \in Store |->
                 IF s \in S THEN after(circuit[s], lag, limited) ELSE circuit[s]]
            /\ since' = [s \in Store |->
                 IF s \in S /\ after(circuit[s], lag, limited).tripped THEN 0 ELSE since[s]]
      BY <1>5, <2>3 DEF RecordChannelFailure
    <3>2. ASSUME NEW s \in Store
          PROVE  /\ after(circuit[s], lag, limited) \in Circuit
                 /\ Good(after(circuit[s], lag, limited),
                         IF after(circuit[s], lag, limited).tripped THEN 0 ELSE since[s])
      <4>1. CASE limited
        <5>1. after(circuit[s], lag, limited) = RateLimited(circuit[s], lag)
          BY <4>1
        <5> HIDE DEF after
        <5> QED
          BY <1>b, <5>1, RateLimitedGood
      <4>2. CASE ~limited
        <5>1. after(circuit[s], lag, limited) = Failed(circuit[s], lag)
          BY <4>2
        <5> HIDE DEF after
        <5> QED
          BY <1>b, <5>1, FailedGood
      <4> QED
        BY <4>1, <4>2
    <3> HIDE DEF after
    <3>3. \A s \in Store : circuit'[s] \in Circuit /\ Good(circuit'[s], since'[s])
      BY <1>b, <3>1, <3>2
    <3>4. circuit' \in [Store -> Circuit] /\ since' \in [Store -> 0..MinDelay]
      BY <1>a, <1>b, <3>1, <3>3
    <3>5. was' \in [Instance -> BOOLEAN]
      BY <2>3 DEF SwitchedOn, TypeOK
    <3> QED
      BY <2>1, <3>3, <3>4, <3>5 DEF TypeOK
  <2>4. (on[i] /\ SwitchedOn(i)) \/ (~on[i] /\ SwitchedOff(i))
    BY <1>5 DEF RecordChannelFailure
  <2> QED
    BY <2>2, <2>3, <2>4
<1>6. ASSUME NEW i \in Instance, ResetChannelCircuit(i) PROVE IInv'
  <2>1. running' = running /\ on' = on /\ calm' = calm
    BY <1>6 DEF ResetChannelCircuit
  <2>2. CASE ~on[i] /\ SwitchedOff(i)
    BY <1>d, <2>1, <2>2 DEF TypeOK
  <2>3. CASE on[i] /\ SwitchedOn(i)
    <3>1. PICK S \in Written(i) : circuit' = [s \in Store |-> IF s \in S THEN Closed ELSE circuit[s]]
      BY <1>6, <2>3 DEF ResetChannelCircuit
    <3>2. since' = since
      BY <1>6, <2>3 DEF ResetChannelCircuit
    <3>3. was' \in [Instance -> BOOLEAN]
      BY <2>3 DEF SwitchedOn, TypeOK
    <3> QED
      BY <1>c, <2>1, <3>1, <3>2, <3>3 DEF TypeOK
  <2>4. (on[i] /\ SwitchedOn(i)) \/ (~on[i] /\ SwitchedOff(i))
    BY <1>6 DEF ResetChannelCircuit
  <2> QED
    BY <2>2, <2>3, <2>4
<1>7. ASSUME NEW i \in Instance, RemoveChannelCircuit(i) PROVE IInv'
  <2>1. PICK S : circuit' = [s \in Store |-> IF s \in S THEN Closed ELSE circuit[s]]
    BY <1>7 DEF RemoveChannelCircuit
  <2>2. UNCHANGED <<running, on, was, calm, since>>
    BY <1>7 DEF RemoveChannelCircuit
  <2> QED
    BY <1>c, <2>1, <2>2 DEF TypeOK
<1>8. ASSUME NEW i \in Instance, Switch(i) PROVE IInv'
  BY <1>8 DEF Switch, TypeOK
<1>9. ASSUME NEW i \in Instance, Restart(i) PROVE IInv'
  <2>1. circuit' = [s \in Store |-> IF s \in {i} THEN Closed ELSE circuit[s]]
    BY <1>9 DEF Restart, TypeOK
  <2>2. /\ running' \in [Request -> Instance \cup {"idle"}] /\ was' \in [Instance -> BOOLEAN]
        /\ UNCHANGED <<on, calm, since>>
    BY <1>9 DEF Restart, TypeOK
  <2> QED
    BY <1>c, <2>1, <2>2 DEF TypeOK
<1>10. CASE Tick
  <2>1. /\ circuit' = [s \in Store |-> Older(circuit[s])]
        /\ since' = [s \in Store |-> IF since[s] < MinDelay THEN since[s] + 1 ELSE since[s]]
        /\ UNCHANGED <<running, on, was, calm>>
    BY <1>10 DEF Tick
  <2>2. \A s \in Store : circuit'[s] \in Circuit /\ Good(circuit'[s], since'[s])
    BY <1>b, <2>1, OlderGood
  <2>3. since' \in [Store -> 0..MinDelay]
    BY <1>b, <2>1, MinDelayType
  <2>4. circuit' \in [Store -> Circuit]
    BY <2>1, <2>2
  <2> QED
    BY <2>1, <2>2, <2>3, <2>4 DEF TypeOK
<1>11. CASE BecomeCalm
  BY <1>11 DEF BecomeCalm, TypeOK
<1>12. CASE UNCHANGED vars
  BY <1>12 DEF vars, TypeOK
<1> QED
  BY <1>1, <1>2, <1>3, <1>4, <1>5, <1>6, <1>7, <1>8, <1>9, <1>10, <1>11, <1>12 DEF Next

\* The invariant holds of every reachable state.
LEMMA IInvHolds == Spec => []IInv
  BY IInvInit, IInvNext, PTL DEF Spec

-----------------------------------------------------------------------------
(* Theorems                                                                *)

\* The circuits, the requests and the switches keep their types.
THEOREM TypeCorrect == Spec => []TypeOK
<1>1. IInv => TypeOK
  BY DEF IInv
<1> QED
  BY <1>1, IInvHolds, PTL

\* No circuit stays closed through Threshold failures in a row.
THEOREM OpensInTimeHolds == Spec => []OpensInTime
<1>1. IInv => OpensInTime
  BY DEF IInv, Good, OpensInTime
<1> QED
  BY <1>1, IInvHolds, PTL

\* An open circuit is blocked for what is left of the shortest delay.
THEOREM StaysBlockedHolds == Spec => []StaysBlocked
<1>1. IInv => StaysBlocked
  BY DEF IInv, Good, StaysBlocked
<1> QED
  BY <1>1, IInvHolds, PTL

\* Probes of one store are at least the shortest delay apart, less the lag,
\* unless a success, a reset or a restart closed the circuit between them.
THEOREM ProbesSpacedHolds == Spec => ProbesSpaced
<1> DEFINE A == \A s \in Store :
              circuit[s].tripped /\ circuit'[s].probe > circuit[s].probe => since[s] >= MinDelay - Lag
<1>1. IInv /\ [Next]_vars => [A]_vars
  <2> SUFFICES ASSUME IInv, Next, NEW s \in Store, circuit[s].tripped,
                      circuit'[s].probe > circuit[s].probe
               PROVE  since[s] >= MinDelay - Lag
    BY DEF vars
  <2>1. /\ circuit[s] \in Circuit /\ since[s] \in 0..MinDelay /\ Good(circuit[s], since[s])
        /\ circuit[s].open \in Int /\ circuit[s].probe \in Int /\ circuit[s].probe >= Past /\ Past \in Int
    BY CircuitAssumption DEF IInv, TypeOK, Circuit, Past
  <2>2. ~(circuit'[s] = circuit[s]) /\ ~(circuit'[s].probe = Past) /\ ~(circuit'[s] = Closed)
    BY <2>1 DEF Closed
  <2>3. \A c, lag : (Failed(c, lag).probe = Past \/ c \notin Circuit) /\ RateLimited(c, lag).probe = Past
    BY DEF Failed, RateLimited, Circuit
  <2>4. ~(circuit'[s] = Older(circuit[s]))
    <3>1. Older(circuit[s]).probe = Passes(circuit[s].probe)
      BY <2>1 DEF Older, Circuit
    <3>2. Passes(circuit[s].probe) <= circuit[s].probe /\ Passes(circuit[s].probe) \in Int
      BY <2>1 DEF Passes
    <3> QED
      BY <2>1, <3>1, <3>2
  <2>5. ASSUME NEW i \in Instance, SwitchedOff(i) PROVE FALSE
    BY <2>2, <2>5 DEF SwitchedOff
  <2>6. ASSUME NEW r \in Request, NEW i \in Instance, TryAcquireChannel(r, i) PROVE since[s] >= MinDelay - Lag
    <3>1. PICK lag \in 0..Lag, S \in Written(i) :
            circuit' = [x \in Store |->
              IF x \in S /\ ~Blocked(circuit[x], lag) THEN Acquired(circuit[x], lag) ELSE circuit[x]]
      BY <2>5, <2>6 DEF TryAcquireChannel
    <3>2. ~Blocked(circuit[s], lag)
      BY <2>2, <3>1
    <3>3. circuit[s].open <= 0 /\ circuit[s].probe <= 0
      BY <2>1, <3>2, CircuitAssumption DEF Blocked
    <3> QED
      BY <2>1, <3>3, MinDelayType, CircuitAssumption DEF Good
  <2>7. ASSUME NEW r \in Request, NEW i \in Instance, SpecificChannel(r, i) PROVE FALSE
    BY <2>2, <2>7 DEF SpecificChannel
  <2>8. ASSUME NEW r \in Request, ClientError(r) PROVE FALSE
    BY <2>2, <2>8 DEF ClientError
  <2>9. ASSUME NEW r \in Request, RecordChannelSuccess(r) PROVE FALSE
    BY <2>2, <2>5, <2>9 DEF RecordChannelSuccess, IInv, TypeOK
  <2>10. ASSUME NEW r \in Request, RecordChannelFailure(r) PROVE FALSE
    <3>1. running[r] \in Instance
      BY <2>10 DEF RecordChannelFailure, IInv, TypeOK
    <3>2. PICK lag \in 0..Lag, S \in Written(running[r]), limited \in BOOLEAN :
            circuit' = [x \in Store |->
              IF x \in S THEN IF limited THEN RateLimited(circuit[x], lag) ELSE Failed(circuit[x], lag)
              ELSE circuit[x]]
      BY <2>5, <2>10, <3>1 DEF RecordChannelFailure
    <3> QED
      BY <2>1, <2>2, <2>3, <3>2
  <2>11. ASSUME NEW i \in Instance, ResetChannelCircuit(i) PROVE FALSE
    BY <2>2, <2>5, <2>11 DEF ResetChannelCircuit
  <2>12. ASSUME NEW i \in Instance, RemoveChannelCircuit(i) PROVE FALSE
    BY <2>2, <2>12 DEF RemoveChannelCircuit
  <2>13. ASSUME NEW i \in Instance, Switch(i) PROVE FALSE
    BY <2>2, <2>13 DEF Switch
  <2>14. ASSUME NEW i \in Instance, Restart(i) PROVE FALSE
    BY <2>2, <2>14 DEF Restart, IInv, TypeOK
  <2>15. ~Tick
    BY <2>4 DEF Tick
  <2>16. ~BecomeCalm
    BY <2>2 DEF BecomeCalm
  <2> QED
    BY <2>6, <2>7, <2>8, <2>9, <2>10, <2>11, <2>12, <2>13, <2>14, <2>15, <2>16 DEF Next
<1> QED
  BY <1>1, IInvHolds, PTL DEF Spec, ProbesSpaced
=============================================================================
