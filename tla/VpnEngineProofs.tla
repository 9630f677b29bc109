--------------------------- MODULE VpnEngineProofs ---------------------------
(***************************************************************************)
(* Theorems about VpnEngine, for every fleet, retry budget, number of calls *)
(* and number of children.                                                  *)
(*                                                                         *)
(* The first holds for any user.  A call may die of a second exception (the *)
(* entry it looked up has been replaced) without touching the state, so a   *)
(* busy state must always have another call at work: one whose entry is     *)
(* still in the list, or that will look one up before it needs it.          *)
(***************************************************************************)
EXTENDS VpnEngine, FiniteSetTheorems, TLAPS

Call == [pc : Pcs \cup {"done"}, ep : Endpoints \cup {NoEndpoint},
         current : BOOLEAN, dials : Nat]

CallsOK == /\ made \in Nat /\ attempt \in Nat /\ calls \in [Calls -> Call]
           /\ \A c \in Calls : c > made => calls[c] = Done

\* A call that will see to the state whatever the others do.
AtWork(r) == \/ r.pc \in {"prepare", "probe", "backoff"}
             \/ r.pc \in {"starting", "probing"} /\ r.current

SomebodyWorks == state \in Busy => \E c \in Calls : AtWork(calls[c])

BInv == CallsOK /\ SomebodyWorks
-----------------------------------------------------------------------------
LEMMA DoneIsCall == Done \in Call
  BY DEF Done, Call

LEMMA GotoKeeps ==
    ASSUME CallsOK, NEW c \in Calls, NEW pc \in Pcs, Goto(c, pc)
    PROVE  /\ calls' \in [Calls -> Call]
           /\ calls'[c] = [calls[c] EXCEPT !.pc = pc]
           /\ calls'[c].pc = pc /\ calls'[c].current = calls[c].current
           /\ calls'[c].dials = calls[c].dials
           /\ \A d \in Calls : d # c => calls'[d] = calls[d]
  <1>1. calls[c] \in Call
    BY DEF CallsOK
  <1>2. LET q == [calls[c] EXCEPT !.pc = pc]
        IN  /\ q \in Call /\ q.pc = pc
            /\ q.current = calls[c].current /\ q.dials = calls[c].dials
    BY <1>1 DEF Call
  <1>3. /\ calls'[c] = [calls[c] EXCEPT !.pc = pc]
        /\ \A d \in Calls : d # c => calls'[d] = calls[d]
        /\ calls' = [d \in Calls |-> calls'[d]]
    BY DEF Goto, CallsOK
  <1>4. QED
    BY <1>2, <1>3 DEF CallsOK

LEMMA ReturnKeeps ==
    ASSUME CallsOK, NEW c \in Calls, Return(c)
    PROVE  /\ calls' \in [Calls -> Call]
           /\ calls'[c] = Done
           /\ \A d \in Calls : d # c => calls'[d] = calls[d]
  BY DoneIsCall DEF Return, CallsOK

\* A failure moves the failing call to its backoff or ends it, and at most makes the
\* entries of other calls in flight stale.
LEMMA CaughtKeeps ==
    ASSUME CallsOK, NEW c \in Calls, NEW rec \in Call, NEW a \in Nat, NEW t,
           Caught(c, rec, a, t)
    PROVE  /\ calls' \in [Calls -> Call] /\ attempt' = a + 1
           /\ \/ /\ a + 1 < maxAttempts /\ state' = "reconnecting"
                 /\ calls'[c] = [rec EXCEPT !.pc = "backoff"]
              \/ /\ a + 1 >= maxAttempts /\ state' = "configError"
                 /\ calls'[c] = Done
           /\ \A d \in Calls : d # c =>
                \/ calls'[d] = calls[d]
                \/ /\ calls[d].pc # "done"
                   /\ calls'[d] = [calls[d] EXCEPT !.current = FALSE]
  <1> DEFINE gone(d) == d # c /\ calls[d].pc # "done" /\ calls[d].ep = rec.ep
             next(d) == IF gone(d) THEN [calls[d] EXCEPT !.current = FALSE]
                        ELSE IF d # c THEN calls[d]
                        ELSE IF state' = "reconnecting" THEN [rec EXCEPT !.pc = "backoff"]
                        ELSE Done
  <1>1. calls' = [d \in Calls |-> next(d)]
    BY DEF Caught
  <1>2. /\ attempt' = a + 1
        /\ state' = IF a + 1 < maxAttempts THEN "reconnecting" ELSE "configError"
    BY DEF Caught, NextAttempt
  <1>3. \A d \in Calls : next(d) \in Call
    <2>1. \A d \in Calls : calls[d] \in Call
      BY DEF CallsOK
    <2>2. \A r \in Call : [r EXCEPT !.current = FALSE] \in Call
                          /\ [r EXCEPT !.pc = "backoff"] \in Call
      BY DEF Call, Pcs
    <2>3. QED
      BY <2>1, <2>2, DoneIsCall
  <1>4. calls' \in [Calls -> Call]
    BY <1>1, <1>3
  <1>5. \A d \in Calls : calls'[d] = next(d)
    BY <1>1
  <1>6. a + 1 < maxAttempts \/ a + 1 >= maxAttempts
    BY EngineAssumption
  <1>7. next(c) = IF state' = "reconnecting" THEN [rec EXCEPT !.pc = "backoff"] ELSE Done
    OBVIOUS
  <1>8. \A d \in Calls : d # c =>
                \/ next(d) = calls[d]
                \/ calls[d].pc # "done" /\ next(d) = [calls[d] EXCEPT !.current = FALSE]
    OBVIOUS
  <1> HIDE DEF next
  <1>9. QED
    BY <1>2, <1>4, <1>5, <1>6, <1>7, <1>8

LEMMA CandidateIsEndpoint ==
    ASSUME NEW s, NEW b \in Candidates(s)
    PROVE  b[1] \in Endpoints
  <1>1. \A i \in DOMAIN Fleet : Fleet[i] \in Endpoints
    BY EngineAssumption
  <1>2. QED
    BY <1>1 DEF Candidates

\* A selection ends the call, leaves it with the runner, or fails.
LEMMA SelectKeeps ==
    ASSUME CallsOK, NEW c \in Calls, NEW a \in Nat, Select(c, a)
    PROVE  /\ calls' \in [Calls -> Call] /\ attempt' \in {a, a + 1}
           /\ \/ attempt' = a /\ state' = "configError" /\ calls'[c] = Done
              \/ /\ attempt' = a /\ state' = "handshake"
                 /\ calls'[c].pc = "starting" /\ calls'[c].current
                 /\ calls'[c].dials = Least(calls[c].dials + 1, maxAttempts + 1)
              \/ /\ attempt' = a + 1 /\ a + 1 < maxAttempts /\ state' = "reconnecting"
                 /\ calls'[c].pc = "backoff" /\ calls'[c].current
                 /\ calls'[c].dials = Least(calls[c].dials + 1, maxAttempts + 1)
              \/ /\ attempt' = a + 1 /\ a + 1 >= maxAttempts /\ state' = "configError"
                 /\ calls'[c] = Done
           /\ \A d \in Calls : d # c =>
                \/ calls'[d] = calls[d]
                \/ /\ calls[d].pc # "done"
                   /\ calls'[d] = [calls[d] EXCEPT !.current = FALSE]
  <1> DEFINE n == Least(calls[c].dials + 1, maxAttempts + 1)
             picked(e) == [pc |-> "starting", ep |-> e, current |-> TRUE, dials |-> n]
  <1>1. calls[c] \in Call /\ n \in Nat
    BY EngineAssumption DEF CallsOK, Call, Least
  <1>2. \A e \in Endpoints : picked(e) \in Call
    BY <1>1 DEF Call, Pcs
  <1>3. \A r \in Call : LET q == [r EXCEPT !.pc = "backoff"]
                       IN  q.pc = "backoff" /\ q.current = r.current /\ q.dials = r.dials
    BY DEF Call
  <1>4. CASE Candidates(blackout) = {}
    <2>1. state' = "configError" /\ attempt' = a /\ Return(c)
      BY <1>4 DEF Select
    <2>2. QED
      BY <2>1, ReturnKeeps
  <1>5. CASE Candidates(blackout) # {}
    <2>1. PICK b \in Candidates(blackout) :
              \/ /\ attempt' = a /\ state' = "handshake"
                 /\ calls' = [calls EXCEPT ![c] = picked(b[1])]
              \/ Caught(c, picked(b[1]), a, b[2])
      BY <1>5 DEF Select
    <2>2. b[1] \in Endpoints
      BY CandidateIsEndpoint
    <2>3. picked(b[1]) \in Call
      BY <1>2, <2>2
    <2>4. CASE /\ attempt' = a /\ state' = "handshake"
               /\ calls' = [calls EXCEPT ![c] = picked(b[1])]
      BY <2>3, <2>4 DEF CallsOK
    <2>5. CASE Caught(c, picked(b[1]), a, b[2])
      <3> HIDE DEF n
      <3>1. LET q == [picked(b[1]) EXCEPT !.pc = "backoff"]
            IN  q.pc = "backoff" /\ q.current = TRUE /\ q.dials = n
        <4>1. picked(b[1]).current = TRUE /\ picked(b[1]).dials = n
          OBVIOUS
        <4> HIDE DEF picked
        <4>2. QED
          BY <1>3, <2>3, <4>1
      <3> HIDE DEF picked
      <3>2. /\ calls' \in [Calls -> Call] /\ attempt' = a + 1
           /\ \/ /\ a + 1 < maxAttempts /\ state' = "reconnecting"
                 /\ calls'[c] = [picked(b[1]) EXCEPT !.pc = "backoff"]
              \/ /\ a + 1 >= maxAttempts /\ state' = "configError"
                 /\ calls'[c] = Done
           /\ \A d \in Calls : d # c =>
                \/ calls'[d] = calls[d]
                \/ /\ calls[d].pc # "done"
                   /\ calls'[d] = [calls[d] EXCEPT !.current = FALSE]
        BY <2>3, <2>5, CaughtKeeps
      <3>3. QED
        BY <3>1, <3>2 DEF n
    <2>6. QED
      BY <2>1, <2>4, <2>5
  <1>6. QED
    BY <1>4, <1>5
-----------------------------------------------------------------------------
(* A busy state is somebody's work, for any user *)

\* The calls not yet made are untouched by a step of a call in flight.
LEMMA FreshCalls ==
    ASSUME CallsOK, NEW c \in Calls, calls[c].pc # "done", made' = made,
           \A d \in Calls : d # c =>
                \/ calls'[d] = calls[d]
                \/ /\ calls[d].pc # "done"
                   /\ calls'[d] = [calls[d] EXCEPT !.current = FALSE]
    PROVE  /\ made' \in Nat
           /\ \A d \in Calls : d > made' => calls'[d] = Done
  <1>1. Done.pc = "done"
    BY DEF Done
  <1>2. QED
    BY <1>1 DEF CallsOK

LEMMA SelectWorks ==
    ASSUME BInv, NEW c \in Calls, NEW a \in Nat, calls[c].pc # "done", made' = made,
           Select(c, a)
    PROVE  BInv'
  <1>1. a + 1 \in Nat
    OBVIOUS
  <1>2. CallsOK'
    BY <1>1, SelectKeeps, FreshCalls DEF BInv, CallsOK
  <1>3. SomebodyWorks'
    BY SelectKeeps DEF BInv, SomebodyWorks, AtWork, Busy
  <1>4. QED
    BY <1>2, <1>3 DEF BInv

\* A start or a probe that failed, in a call whose entry is current or not.
LEMMA FailedWorks ==
    ASSUME BInv, NEW c \in Calls, calls[c].pc \in {"starting", "probing"}, made' = made,
           Failed(c)
    PROVE  BInv'
  <1>1. calls[c] \in Call /\ attempt \in Nat /\ attempt + 1 \in Nat
    BY DEF BInv, CallsOK
  <1>2. CASE calls[c].current
    <2>1. Caught(c, calls[c], attempt, transport)
      BY <1>2 DEF Failed
    <2>2. CallsOK'
      BY <1>1, <2>1, CaughtKeeps, FreshCalls DEF BInv, CallsOK
    <2>3. state' = "reconnecting" => calls'[c].pc = "backoff"
      BY <1>1, <2>1, CaughtKeeps DEF BInv, Call
    <2>4. state' \in {"reconnecting", "configError"}
      BY <1>1, <2>1, CaughtKeeps DEF BInv
    <2>5. SomebodyWorks'
      BY <2>3, <2>4 DEF SomebodyWorks, AtWork, Busy
    <2>6. QED
      BY <2>2, <2>5 DEF BInv
  <1>3. CASE ~calls[c].current
    <2>1. Return(c) /\ UNCHANGED <<state, attempt, transport>>
      BY <1>3 DEF Failed
    <2>2. CallsOK'
      BY <2>1, ReturnKeeps, FreshCalls DEF BInv, CallsOK
    <2>3. ~AtWork(calls[c])
      BY <1>3 DEF AtWork
    <2>4. SomebodyWorks'
      BY <2>1, <2>3, ReturnKeeps DEF BInv, SomebodyWorks
    <2>5. QED
      BY <2>2, <2>4 DEF BInv
  <1>4. QED
    BY <1>2, <1>3

LEMMA CallStepWorks ==
    ASSUME BInv, NEW c \in Calls, CallStep(c)
    PROVE  BInv'
  <1> made' = made
    BY DEF CallStep
  <1> attempt \in Nat /\ calls[c] \in Call
    BY DEF BInv, CallsOK
  <1>1. CASE Prepared(c)
    <2>1. /\ calls[c].pc = "prepare" /\ Goto(c, "probe") /\ attempt' = attempt
      BY <1>1 DEF Prepared
    <2>2. "probe" \in Pcs
      BY DEF Pcs
    <2>3. CallsOK'
      BY <2>1, <2>2, GotoKeeps, FreshCalls DEF BInv, CallsOK
    <2>4. calls'[c].pc = "probe"
      BY <2>1, <2>2, GotoKeeps DEF BInv
    <2>5. QED
      BY <2>3, <2>4 DEF BInv, SomebodyWorks, AtWork
  <1>2. CASE Probed(c)
    BY <1>2, SelectWorks DEF Probed
  <1>3. CASE BackedOff(c)
    BY <1>3, SelectWorks DEF BackedOff
  <1>4. CASE StartFailed(c)
    BY <1>4, FailedWorks DEF StartFailed
  <1>5. CASE Spawned(c)
    <2>1. /\ calls[c].pc = "starting" /\ Goto(c, "probing")
          /\ attempt' = attempt /\ state' = state
      BY <1>5 DEF Spawned, engineVars
    <2>2. "probing" \in Pcs
      BY DEF Pcs
    <2>3. CallsOK'
      BY <2>1, <2>2, GotoKeeps, FreshCalls DEF BInv, CallsOK
    <2>4. calls'[c].pc = "probing" /\ calls'[c].current = calls[c].current
      BY <2>1, <2>2, GotoKeeps DEF BInv
    <2>5. AtWork(calls[c]) => AtWork(calls'[c])
      BY <2>1, <2>4 DEF AtWork
    <2>6. \A d \in Calls : d # c => calls'[d] = calls[d]
      BY <2>1, <2>2, GotoKeeps DEF BInv
    <2>7. QED
      BY <2>1, <2>3, <2>5, <2>6 DEF BInv, SomebodyWorks
  <1>6. CASE ProbeFailed(c)
    BY <1>6, FailedWorks DEF ProbeFailed
  <1>7. CASE Established(c)
    <2>1. /\ calls[c].pc = "probing" /\ Return(c) /\ attempt' = attempt
          /\ state' = "connected"
      BY <1>7 DEF Established
    <2>2. CallsOK'
      BY <2>1, ReturnKeeps, FreshCalls DEF BInv, CallsOK
    <2>3. QED
      BY <2>1, <2>2 DEF BInv, SomebodyWorks, Busy
  <1>8. CASE Stopped(c)
    <2>1. /\ calls[c].pc = "stopping" /\ Return(c) /\ attempt' = attempt
          /\ state' = "idle"
      BY <1>8 DEF Stopped
    <2>2. CallsOK'
      BY <2>1, ReturnKeeps, FreshCalls DEF BInv, CallsOK
    <2>3. QED
      BY <2>1, <2>2 DEF BInv, SomebodyWorks, Busy
  <1>9. QED
    BY <1>1, <1>2, <1>3, <1>4, <1>5, <1>6, <1>7, <1>8 DEF CallStep

\* A tap of the dial makes a call that was not made before.
LEMMA NewCall ==
    ASSUME CallsOK, NEW pc \in Pcs, made < MaxCalls, made' = made + 1, Goto(made + 1, pc)
    PROVE  /\ made + 1 \in Calls /\ calls[made + 1] = Done
           /\ made' \in Nat /\ calls' \in [Calls -> Call]
           /\ calls'[made + 1] = [Done EXCEPT !.pc = pc]
           /\ \A d \in Calls : d # made + 1 => calls'[d] = calls[d]
           /\ \A d \in Calls : d > made' => calls'[d] = Done
  <1>1. made + 1 \in Calls /\ made' \in Nat /\ calls[made + 1] = Done
    BY EngineAssumption DEF CallsOK, Calls
  <1>2. /\ calls' \in [Calls -> Call]
        /\ calls'[made + 1] = [calls[made + 1] EXCEPT !.pc = pc]
        /\ \A d \in Calls : d # made + 1 => calls'[d] = calls[d]
    BY <1>1, GotoKeeps
  <1>3. \A d \in Calls : d > made' => d > made /\ d # made + 1
    BY DEF CallsOK, Calls
  <1>4. QED
    BY <1>1, <1>2, <1>3 DEF CallsOK

LEMMA TapWorks ==
    ASSUME BInv, onTap
    PROVE  BInv'
  <1>1. CASE disconnect
    <2>1. /\ made < MaxCalls /\ made' = made + 1 /\ Goto(made + 1, "stopping")
          /\ attempt' = attempt /\ state' = state
      BY <1>1 DEF disconnect, engineVars
    <2>2. "stopping" \in Pcs
      BY DEF Pcs
    <2>3. CallsOK'
      BY <2>1, <2>2, NewCall DEF BInv, CallsOK
    <2>4. ~AtWork(Done)
      BY DEF AtWork, Done
    <2>5. SomebodyWorks'
      BY <2>1, <2>2, <2>4, NewCall DEF BInv, SomebodyWorks
    <2>6. QED
      BY <2>3, <2>5 DEF BInv
  <1>2. CASE connect /\ registered
    <2>1. /\ made < MaxCalls /\ made' = made + 1 /\ Goto(made + 1, "prepare")
          /\ attempt' = 0
      BY <1>2 DEF connect
    <2>2. "prepare" \in Pcs
      BY DEF Pcs
    <2>3. CallsOK'
      BY <2>1, <2>2, NewCall DEF BInv, CallsOK
    <2>4. made + 1 \in Calls /\ AtWork(calls'[made + 1])
      BY <2>1, <2>2, NewCall DEF BInv, Done, AtWork
    <2>5. QED
      BY <2>3, <2>4 DEF BInv, SomebodyWorks
  <1>3. CASE connect /\ ~registered
    <2>1. made' = made + 1 /\ state' = "configError" /\ UNCHANGED <<attempt, calls>>
      BY <1>3 DEF connect
    <2>2. made' \in Nat /\ \A c \in Calls : c > made' => c > made
      BY <2>1 DEF BInv, CallsOK, Calls
    <2>3. CallsOK'
      BY <2>1, <2>2 DEF BInv, CallsOK
    <2>4. QED
      BY <2>1, <2>3 DEF BInv, SomebodyWorks, Busy
  <1>4. QED
    BY <1>1, <1>2, <1>3 DEF onTap

LEMMA BInvInductive == BInv /\ [Next]_vars => BInv'
  <1> SUFFICES ASSUME BInv, [Next]_vars PROVE BInv'
    OBVIOUS
  <1>1. CASE onTap
    BY <1>1, TapWorks
  <1>2. CASE setBlackout \/ CoreStep \/ UNCHANGED vars
    BY <1>2 DEF setBlackout, CoreStep, vars, engineVars, BInv, CallsOK, SomebodyWorks
  <1>3. CASE Restart
    BY <1>3, DoneIsCall DEF Restart, BInv, CallsOK, SomebodyWorks, Busy
  <1>4. CASE \E c \in Calls : CallStep(c)
    BY <1>4, CallStepWorks
  <1>5. QED
    BY <1>1, <1>2, <1>3, <1>4 DEF Next

LEMMA BInvHolds == Spec => []BInv
  <1>1. Init => BInv
    BY DoneIsCall DEF Init, BInv, CallsOK, SomebodyWorks, Busy
  <1>2. QED
    BY <1>1, BInvInductive, PTL DEF Spec

\* However calls overlap, a busy state is the work of a call in progress, so that the
\* dial, which ignores taps while the state is busy, never stays locked.
THEOREM BusyDriven == Spec => []BusyIsDriven
  <1>1. BInv => BusyIsDriven
    BY DEF BInv, SomebodyWorks, AtWork, BusyIsDriven, Dialing, InFlight
  <1>2. QED
    BY <1>1, BInvHolds, PTL
-----------------------------------------------------------------------------
(* The calls in flight come to an end, for any user.                          *)

Small(n) == Calls \X (1..n)

LEMMA SizeOf ==
    ASSUME NEW n \in Nat, NEW W \in SUBSET Small(n)
    PROVE  IsFiniteSet(W) /\ Cardinality(W) \in Nat /\ Cardinality(W) <= MaxCalls * n
  <1>1. MaxCalls \in Nat
    BY EngineAssumption
  <1>2. IsFiniteSet(Calls) /\ Cardinality(Calls) = MaxCalls
    BY <1>1, FS_Interval DEF Calls
  <1>3. IsFiniteSet(1..n) /\ Cardinality(1..n) = n
    BY FS_Interval
  <1>4. IsFiniteSet(Small(n)) /\ Cardinality(Small(n)) = MaxCalls * n
    BY <1>2, <1>3, FS_Product DEF Small
  <1>5. QED
    BY <1>4, FS_Subset, FS_CardinalityType

LEMMA FewerOf ==
    ASSUME NEW n \in Nat, NEW W \in SUBSET Small(n), NEW V \in SUBSET W, V # W
    PROVE  Cardinality(V) < Cardinality(W)
  BY SizeOf, FS_Subset

\* The order of the three counts: a first selection outweighs every attempt, an attempt
\* every turn.
LEMMA Weighed ==
    ASSUME NEW s1 \in Nat, NEW s2 \in Nat, NEW a1 \in 0..maxAttempts, NEW a2 \in 0..maxAttempts,
           NEW t1 \in 0..(3 * MaxCalls), NEW t2 \in 0..(3 * MaxCalls),
           \/ s2 < s1
           \/ s2 = s1 /\ a2 < a1
           \/ s2 = s1 /\ a2 <= a1 /\ t2 < t1
    PROVE  s2 * ((maxAttempts + 1) * Turns) + (a2 * Turns + t2)
             < s1 * ((maxAttempts + 1) * Turns) + (a1 * Turns + t1)
  <1>1. PICK n, m : n = Turns /\ m = maxAttempts
    OBVIOUS
  <1>2. n \in Nat /\ m \in Nat /\ t1 \in Nat /\ t2 \in Nat /\ t2 < n /\ a1 \in Nat /\ a2 \in Nat /\ a2 <= m
    BY <1>1, EngineAssumption DEF Turns
  <1>3. \A x, y, z \in Nat : x < y => x * z + z <= y * z
    <2> TAKE x, y, z \in Nat
    <2> HAVE x < y
    <2>1. PICK d \in Nat : y = x + 1 + d
      <3>1. y - x - 1 \in Nat /\ y = x + 1 + (y - x - 1)
        OBVIOUS
      <3>2. QED
        BY <3>1
    <2>2. y * z = x * z + z + d * z
      BY <2>1
    <2>3. d * z \in Nat /\ x * z \in Nat
      OBVIOUS
    <2>4. QED
      BY <2>2, <2>3
  <1>4. \A x, z \in Nat : x * z \in Nat
    OBVIOUS
  <1>5. PICK r : r = (m + 1) * n
    OBVIOUS
  <1>6. r \in Nat
    BY <1>2, <1>5
  <1>7. a2 * n \in Nat /\ a1 * n \in Nat /\ s1 * r \in Nat /\ s2 * r \in Nat
    BY <1>2, <1>4, <1>6
  <1>8. a2 * n + t2 < r
    <2>1. a2 < m + 1 /\ m + 1 \in Nat
      BY <1>2
    <2>2. a2 * n + n <= r
      BY <1>2, <1>3, <1>5, <2>1
    <2>3. QED
      BY <1>2, <1>6, <1>7, <2>2
  <1>9. s2 * r + (a2 * n + t2) < s1 * r + (a1 * n + t1)
    <2>1. CASE s2 < s1
      <3>1. s2 * r + r <= s1 * r
        BY <1>3, <1>6, <2>1
      <3>2. QED
        BY <1>2, <1>6, <1>7, <1>8, <3>1
    <2>2. CASE s2 = s1 /\ a2 < a1
      <3>1. a2 * n + n <= a1 * n
        BY <1>2, <1>3, <2>2
      <3>2. QED
        BY <1>2, <1>7, <2>2, <3>1
    <2>3. CASE s2 = s1 /\ a2 = a1 /\ t2 < t1
      BY <1>2, <1>7, <2>3
    <2>4. QED
      BY <1>2, <2>1, <2>2, <2>3
  <1>10. QED
    BY <1>1, <1>5, <1>9

CountsOK ==
    /\ Cardinality(Unselected) \in Nat /\ AttemptsLeft \in 0..maxAttempts
    /\ Cardinality(Unfinished) \in 0..(3 * MaxCalls)

LEMMA Counted == ASSUME CallsOK PROVE CountsOK /\ StepsLeft \in Nat
  <1>1. MaxCalls \in Nat /\ maxAttempts \in Nat /\ attempt \in Nat
    BY EngineAssumption DEF CallsOK
  <1>2. Unselected \in SUBSET Small(2) /\ Unfinished \in SUBSET Small(3)
    BY DEF Unselected, Unfinished, Small
  <1>3. Cardinality(Unselected) \in Nat /\ Cardinality(Unfinished) \in Nat
        /\ Cardinality(Unfinished) <= MaxCalls * 3
    BY <1>2, SizeOf
  <1>4. AttemptsLeft \in 0..maxAttempts
    BY <1>1 DEF AttemptsLeft
  <1>5. PICK s, a, t : s = Cardinality(Unselected) /\ a = AttemptsLeft /\ t = Cardinality(Unfinished)
    OBVIOUS
  <1>6. PICK n : n = Turns
    OBVIOUS
  <1>7. n \in Nat
    BY <1>1, <1>6 DEF Turns
  <1>8. s \in Nat /\ a \in Nat /\ t \in Nat
    BY <1>1, <1>3, <1>4, <1>5
  <1>9. PICK r : r = (maxAttempts + 1) * n /\ r \in Nat
    BY <1>1, <1>7
  <1>10. s * r \in Nat /\ a * n \in Nat
    BY <1>7, <1>8, <1>9
  <1>11. s * r + (a * n + t) \in Nat
    BY <1>8, <1>10
  <1>12. StepsLeft = s * r + (a * n + t)
    BY <1>5, <1>6, <1>9 DEF StepsLeft, Turned
  <1>13. QED
    BY <1>1, <1>3, <1>4, <1>11, <1>12 DEF CountsOK

\* The call c goes on at pc; the others stay where they are.
Goes(c, pc) == /\ calls'[c].pc = pc
               /\ \A d \in Calls : d # c => calls'[d].pc = calls[d].pc

LEMMA StalePc ==
    ASSUME CallsOK, NEW c \in Calls,
           \A d \in Calls : d # c =>
                \/ calls'[d] = calls[d]
                \/ /\ calls[d].pc # "done"
                   /\ calls'[d] = [calls[d] EXCEPT !.current = FALSE]
    PROVE  \A d \in Calls : d # c => calls'[d].pc = calls[d].pc
  <1>1. \A r \in Call : [r EXCEPT !.current = FALSE].pc = r.pc
    BY DEF Call
  <1>2. \A d \in Calls : calls[d] \in Call
    BY DEF CallsOK
  <1>3. QED
    BY <1>1, <1>2

\* One selection less, one attempt less, or one turn less.
Less(c) ==
    \/ Cardinality(Unselected') < Cardinality(Unselected)
    \/ Unselected' = Unselected /\ AttemptsLeft' < AttemptsLeft
    \/ /\ Unselected' = Unselected /\ AttemptsLeft' <= AttemptsLeft
       /\ Cardinality(Unfinished') < Cardinality(Unfinished)

LEMMA SelectionLess ==
    ASSUME CallsOK, NEW c \in Calls, NEW pc, Goes(c, pc),
           \/ calls[c].pc = "prepare" /\ pc = "probe"
           \/ calls[c].pc = "probe" /\ pc \in {"starting", "backoff", "done"}
    PROVE  Less(c)
  <1>1. Unselected \in SUBSET Small(2)
    BY DEF Unselected, Small
  <1>2. Unselected' \subseteq Unselected
    BY DEF Unselected, Goes
  <1>3. \E w \in Unselected : w \notin Unselected'
    <2>1. CASE calls[c].pc = "prepare" /\ pc = "probe"
      <3>1. <<c, 2>> \in Unselected /\ <<c, 2>> \notin Unselected'
        BY <2>1 DEF Unselected, Goes
      <3>2. QED
        BY <3>1
    <2>2. CASE calls[c].pc = "probe" /\ pc \in {"starting", "backoff", "done"}
      <3>1. <<c, 1>> \in Unselected /\ <<c, 1>> \notin Unselected'
        BY <2>2 DEF Unselected, Goes
      <3>2. QED
        BY <3>1
    <2>3. QED
      BY <2>1, <2>2
  <1>4. PICK W, V : W = Unselected /\ V = Unselected'
    OBVIOUS
  <1>5. W \in SUBSET Small(2) /\ V \in SUBSET W /\ V # W
    BY <1>1, <1>2, <1>3, <1>4
  <1>6. Cardinality(V) < Cardinality(W)
    BY <1>5, FewerOf
  <1>7. QED
    BY <1>4, <1>6 DEF Less

LEMMA SelectionsSame ==
    ASSUME NEW c \in Calls, NEW pc, Goes(c, pc), calls[c].pc \notin {"prepare", "probe"},
           pc \notin {"prepare", "probe"}
    PROVE  Unselected' = Unselected
  BY DEF Unselected, Goes

LEMMA AttemptLess ==
    ASSUME CallsOK, NEW c \in Calls, Goes(c, "backoff"), calls[c].pc \notin {"prepare", "probe"},
           attempt' = attempt + 1, attempt + 1 < maxAttempts
    PROVE  Less(c)
  <1>1. attempt \in Nat /\ maxAttempts \in Nat
    BY EngineAssumption DEF CallsOK
  <1>2. AttemptsLeft' < AttemptsLeft
    BY <1>1 DEF AttemptsLeft
  <1>3. Unselected' = Unselected
    BY SelectionsSame
  <1>4. QED
    BY <1>2, <1>3 DEF Less

LEMMA TurnLess ==
    ASSUME CallsOK, NEW c \in Calls, NEW pc, Goes(c, pc), attempt' \in {attempt, attempt + 1},
           \/ calls[c].pc = "backoff" /\ pc \in {"starting", "done"}
           \/ calls[c].pc = "starting" /\ pc \in {"probing", "done"}
           \/ calls[c].pc \in {"probing", "stopping"} /\ pc = "done"
    PROVE  Less(c)
  <1>1. attempt \in Nat /\ maxAttempts \in Nat
    BY EngineAssumption DEF CallsOK
  <1>2. AttemptsLeft' <= AttemptsLeft
    <2>1. CASE attempt' = attempt
      BY <1>1, <2>1 DEF AttemptsLeft
    <2>2. CASE attempt' = attempt + 1
      BY <1>1, <2>2 DEF AttemptsLeft
    <2>3. QED
      BY <2>1, <2>2
  <1>3. Unselected' = Unselected
    BY SelectionsSame
  <1>4. Unfinished \in SUBSET Small(3)
    BY DEF Unfinished, Small
  <1>5. Unfinished' \subseteq Unfinished
    BY DEF Unfinished, Goes
  <1>6. \E w \in Unfinished : w \notin Unfinished'
    <2>1. CASE calls[c].pc = "backoff" /\ pc \in {"starting", "done"}
      <3>1. <<c, 3>> \in Unfinished /\ <<c, 3>> \notin Unfinished'
        BY <2>1 DEF Unfinished, Goes
      <3>2. QED
        BY <3>1
    <2>2. CASE calls[c].pc = "starting" /\ pc \in {"probing", "done"}
      <3>1. <<c, 2>> \in Unfinished /\ <<c, 2>> \notin Unfinished'
        BY <2>2 DEF Unfinished, Goes
      <3>2. QED
        BY <3>1
    <2>3. CASE calls[c].pc \in {"probing", "stopping"} /\ pc = "done"
      <3>1. <<c, 1>> \in Unfinished /\ <<c, 1>> \notin Unfinished'
        BY <2>3 DEF Unfinished, Goes
      <3>2. QED
        BY <3>1
    <2>4. QED
      BY <2>1, <2>2, <2>3
  <1>7. PICK W, V : W = Unfinished /\ V = Unfinished'
    OBVIOUS
  <1>8. W \in SUBSET Small(3) /\ V \in SUBSET W /\ V # W
    BY <1>4, <1>5, <1>6, <1>7
  <1>9. Cardinality(V) < Cardinality(W)
    BY <1>8, FewerOf
  <1>10. QED
    BY <1>2, <1>3, <1>7, <1>9 DEF Less

LEMMA FailedLess ==
    ASSUME CallsOK, NEW c \in Calls, calls[c].pc \in {"starting", "probing"}, Failed(c)
    PROVE  Less(c)
  <1>1. calls[c] \in Call /\ attempt \in Nat
    BY DEF CallsOK
  <1>2. Done.pc = "done"
    BY DEF Done
  <1>3. CASE calls[c].current
    <2>1. Caught(c, calls[c], attempt, transport)
      BY <1>3 DEF Failed
    <2>2. /\ attempt' = attempt + 1
          /\ \/ attempt + 1 < maxAttempts /\ calls'[c] = [calls[c] EXCEPT !.pc = "backoff"]
             \/ calls'[c] = Done
          /\ \A d \in Calls : d # c => calls'[d].pc = calls[d].pc
      BY <1>1, <2>1, CaughtKeeps, StalePc
    <2>3. CASE attempt + 1 < maxAttempts /\ calls'[c] = [calls[c] EXCEPT !.pc = "backoff"]
      <3>1. Goes(c, "backoff")
        BY <1>1, <2>2, <2>3 DEF Goes, Call
      <3>2. QED
        BY <2>2, <2>3, <3>1, AttemptLess
    <2>4. CASE calls'[c] = Done
      <3>1. Goes(c, "done")
        BY <1>2, <2>2, <2>4 DEF Goes
      <3>2. QED
        BY <2>2, <3>1, TurnLess
    <2>5. QED
      BY <2>2, <2>3, <2>4
  <1>4. CASE ~calls[c].current
    <2>1. Return(c) /\ attempt' = attempt
      BY <1>4 DEF Failed
    <2>2. Goes(c, "done")
      BY <1>2, <2>1, ReturnKeeps DEF Goes
    <2>3. QED
      BY <2>1, <2>2, TurnLess
  <1>5. QED
    BY <1>3, <1>4

LEMMA CallStepLess == ASSUME CallsOK, NEW c \in Calls, CallStep(c) PROVE Less(c)
  <1>1. Done.pc = "done" /\ attempt \in Nat
    BY DEF Done, CallsOK
  <1>2. CASE Prepared(c)
    <2>1. calls[c].pc = "prepare" /\ Goto(c, "probe") /\ "probe" \in Pcs
      BY <1>2 DEF Prepared, Pcs
    <2>2. Goes(c, "probe")
      BY <2>1, GotoKeeps DEF Goes
    <2>3. QED
      BY <2>1, <2>2, SelectionLess
  <1>3. CASE Probed(c)
    <2>1. calls[c].pc = "probe" /\ Select(c, 0)
      BY <1>3 DEF Probed
    <2>2. /\ calls'[c].pc \in {"starting", "backoff", "done"}
          /\ \A d \in Calls : d # c => calls'[d].pc = calls[d].pc
      BY <1>1, <2>1, SelectKeeps, StalePc
    <2>3. Goes(c, calls'[c].pc)
      BY <2>2 DEF Goes
    <2>4. QED
      BY <2>1, <2>2, <2>3, SelectionLess
  <1>4. CASE BackedOff(c)
    <2>1. calls[c].pc = "backoff" /\ Select(c, attempt)
      BY <1>4 DEF BackedOff
    <2>2. \A d \in Calls : d # c => calls'[d].pc = calls[d].pc
      BY <1>1, <2>1, SelectKeeps, StalePc
    <2>3. \/ attempt' \in {attempt, attempt + 1} /\ calls'[c].pc \in {"starting", "done"}
          \/ attempt' = attempt + 1 /\ attempt + 1 < maxAttempts /\ calls'[c].pc = "backoff"
      BY <1>1, <2>1, SelectKeeps
    <2>4. CASE attempt' \in {attempt, attempt + 1} /\ calls'[c].pc \in {"starting", "done"}
      <3>1. Goes(c, calls'[c].pc)
        BY <2>2 DEF Goes
      <3>2. QED
        BY <2>1, <2>4, <3>1, TurnLess
    <2>5. CASE attempt' = attempt + 1 /\ attempt + 1 < maxAttempts /\ calls'[c].pc = "backoff"
      <3>1. Goes(c, "backoff")
        BY <2>2, <2>5 DEF Goes
      <3>2. QED
        BY <2>1, <2>5, <3>1, AttemptLess
    <2>6. QED
      BY <2>3, <2>4, <2>5
  <1>5. CASE StartFailed(c)
    BY <1>5, FailedLess DEF StartFailed
  <1>6. CASE Spawned(c)
    <2>1. calls[c].pc = "starting" /\ Goto(c, "probing") /\ "probing" \in Pcs /\ attempt' = attempt
      BY <1>6 DEF Spawned, Pcs, engineVars
    <2>2. Goes(c, "probing")
      BY <2>1, GotoKeeps DEF Goes
    <2>3. QED
      BY <2>1, <2>2, TurnLess
  <1>7. CASE ProbeFailed(c)
    BY <1>7, FailedLess DEF ProbeFailed
  <1>8. CASE Established(c) \/ Stopped(c)
    <2>1. calls[c].pc \in {"probing", "stopping"} /\ Return(c) /\ attempt' = attempt
      BY <1>8 DEF Established, Stopped
    <2>2. Goes(c, "done")
      BY <1>1, <2>1, ReturnKeeps DEF Goes
    <2>3. QED
      BY <2>1, <2>2, TurnLess
  <1>9. QED
    BY <1>2, <1>3, <1>4, <1>5, <1>6, <1>7, <1>8 DEF CallStep

\* However many calls overlap and reset or count one another's attempts, each step of a call
\* leaves a step less to make, of a number that only a tap or a start of the app raises.
THEOREM CallsEnd == Spec => CallsAreFinite
  <1>1. BInv => CallsOK
    BY DEF BInv
  <1>2. CallsOK => CountsOK /\ StepsLeft \in Nat
    BY Counted
  <1>3. ASSUME CallsOK, CountsOK, CountsOK', NEW c \in Calls, CallStep(c) PROVE StepsLeft' < StepsLeft
    <2>1. Less(c)
      BY <1>3, CallStepLess
    <2>2. PICK s1, a1, t1 : s1 = Cardinality(Unselected) /\ a1 = AttemptsLeft /\ t1 = Cardinality(Unfinished)
      OBVIOUS
    <2>3. PICK s2, a2, t2 : s2 = Cardinality(Unselected') /\ a2 = AttemptsLeft' /\ t2 = Cardinality(Unfinished')
      OBVIOUS
    <2>4. /\ s1 \in Nat /\ a1 \in 0..maxAttempts /\ t1 \in 0..(3 * MaxCalls)
          /\ s2 \in Nat /\ a2 \in 0..maxAttempts /\ t2 \in 0..(3 * MaxCalls)
      BY <1>3, <2>2, <2>3 DEF CountsOK
    <2>5. \/ s2 < s1
          \/ s2 = s1 /\ a2 < a1
          \/ s2 = s1 /\ a2 <= a1 /\ t2 < t1
      BY <2>1, <2>2, <2>3 DEF Less
    <2>6. s2 * ((maxAttempts + 1) * Turns) + (a2 * Turns + t2)
            < s1 * ((maxAttempts + 1) * Turns) + (a1 * Turns + t1)
      BY <2>4, <2>5, Weighed
    <2>7. StepsLeft = s1 * ((maxAttempts + 1) * Turns) + (a1 * Turns + t1)
      BY <2>2 DEF StepsLeft, Turned
    <2>8. StepsLeft' = s2 * ((maxAttempts + 1) * Turns) + (a2 * Turns + t2)
      BY <2>3 DEF StepsLeft, Turned, Turns
    <2>9. QED
      BY <2>6, <2>7, <2>8
  <1>4. CoreStep \/ setBlackout => StepsLeft' = StepsLeft
    BY DEF CoreStep, setBlackout, engineVars, StepsLeft, Turned, Turns, AttemptsLeft, Unselected, Unfinished
  <1>5. CallsOK /\ CountsOK /\ CountsOK' => ((\E c \in Calls : CallStep(c)) => StepsLeft' < StepsLeft)
    BY <1>3
  <1>6. QED
    BY <1>1, <1>2, <1>4, <1>5, BInvHolds, PTL DEF CallsAreFinite
-----------------------------------------------------------------------------
(* A user who waits for each call                                             *)

\* What holds of a call while it is the only one: its dials are the attempts counted,
\* no session is shown while it dials, and no child is known while it tears down.
CallInv(c) ==
    LET r == calls[c]
    IN  /\ r.pc # "done" => c = made
        /\ r.current
        /\ r.pc \in {"done", "prepare", "probe", "stopping"} => r.dials = 0
        /\ r.pc \in {"prepare", "probe"} => attempt = 0
        /\ r.pc = "backoff" => r.dials = attempt /\ attempt < maxAttempts
        /\ r.pc \in {"starting", "probing"} => r.dials = attempt + 1 /\ attempt < maxAttempts
        /\ r.pc \notin {"done", "stopping"} => sessionStart = 0
        /\ r.pc = "stopping" => proc = 0

Settled ==
    (\A c \in Calls : calls[c].pc = "done") =>
        /\ state = "connected" <=> sessionStart # 0
        /\ state = "idle" => proc = 0

PInv == /\ CallsOK /\ sessionStart \in Nat
        /\ \A c \in Calls : CallInv(c)
        /\ Settled

LEMMA Alone ==
    ASSUME PInv, NEW c \in Calls, calls[c].pc # "done"
    PROVE  c = made /\ \A d \in Calls : d # c => calls[d].pc = "done"
  BY DEF PInv, CallInv

\* The calls that are done ask for little.
LEMMA OthersKeep ==
    ASSUME PInv, NEW c \in Calls, calls[c].pc # "done", made' = made,
           \A d \in Calls : d # c =>
                \/ calls'[d] = calls[d]
                \/ /\ calls[d].pc # "done"
                   /\ calls'[d] = [calls[d] EXCEPT !.current = FALSE]
    PROVE  /\ \A d \in Calls : d # c => calls'[d] = calls[d]
           /\ \A d \in Calls : d # c => CallInv(d)'
           /\ made' \in Nat
           /\ \A d \in Calls : d > made' => calls'[d] = Done
  <1>1. \A d \in Calls : d # c => calls'[d] = calls[d] /\ calls[d].pc = "done"
    BY Alone
  <1>2. CallsOK
    BY DEF PInv
  <1>3. made' \in Nat /\ \A d \in Calls : d > made' => calls'[d] = Done
    BY <1>2, FreshCalls
  <1>4. ASSUME NEW d \in Calls, d # c
        PROVE  CallInv(d)'
    BY <1>1, <1>4 DEF PInv, CallInv
  <1>5. QED
    BY <1>1, <1>3, <1>4

\* An ended call of a patient user leaves a settled engine.
LEMMA DoneInv == Done.pc = "done" /\ Done.current /\ Done.dials = 0
  BY DEF Done

LEMMA SelectPatient ==
    ASSUME PInv, NEW c \in Calls, NEW a \in Nat, a < maxAttempts, made' = made,
           calls[c].pc \in {"probe", "backoff"}, calls[c].dials = a,
           Select(c, a), UNCHANGED <<sessionStart, runnerVars>>
    PROVE  PInv'
  <1>1. calls[c].pc # "done" /\ sessionStart = 0
    BY DEF PInv, CallInv
  <1>2. /\ calls' \in [Calls -> Call] /\ attempt' \in {a, a + 1}
        /\ \/ attempt' = a /\ state' = "configError" /\ calls'[c] = Done
           \/ /\ attempt' = a /\ state' = "handshake"
              /\ calls'[c].pc = "starting" /\ calls'[c].current
              /\ calls'[c].dials = Least(calls[c].dials + 1, maxAttempts + 1)
           \/ /\ attempt' = a + 1 /\ a + 1 < maxAttempts /\ state' = "reconnecting"
              /\ calls'[c].pc = "backoff" /\ calls'[c].current
              /\ calls'[c].dials = Least(calls[c].dials + 1, maxAttempts + 1)
           \/ /\ attempt' = a + 1 /\ a + 1 >= maxAttempts /\ state' = "configError"
              /\ calls'[c] = Done
        /\ \A d \in Calls : d # c =>
                \/ calls'[d] = calls[d]
                \/ /\ calls[d].pc # "done"
                   /\ calls'[d] = [calls[d] EXCEPT !.current = FALSE]
    BY SelectKeeps DEF PInv
  <1>3. /\ \A d \in Calls : d # c => CallInv(d)'
        /\ made' \in Nat
        /\ \A d \in Calls : d > made' => calls'[d] = Done
    BY <1>1, <1>2, OthersKeep
  <1>4. Least(calls[c].dials + 1, maxAttempts + 1) = a + 1
    BY EngineAssumption DEF Least
  <1>5. CallsOK' /\ sessionStart' = 0
    BY <1>1, <1>2, <1>3 DEF CallsOK
  <1>6. CallInv(c)'
    BY <1>1, <1>2, <1>4, Alone, DoneInv DEF CallInv
  <1>7. Settled'
    BY <1>1, <1>2 DEF Settled
  <1>8. QED
    BY <1>3, <1>5, <1>6, <1>7 DEF PInv

LEMMA FailedPatient ==
    ASSUME PInv, NEW c \in Calls, made' = made, calls[c].pc \in {"starting", "probing"},
           Failed(c), UNCHANGED <<selected, sessionStart, runnerVars>>
    PROVE  PInv'
  <1>1. /\ calls[c] \in Call /\ attempt \in Nat /\ calls[c].current /\ sessionStart = 0
        /\ calls[c].dials = attempt + 1 /\ calls[c].pc # "done" /\ c = made
    BY DEF PInv, CallInv, CallsOK
  <1>2. Caught(c, calls[c], attempt, transport)
    BY <1>1 DEF Failed
  <1>3. /\ calls' \in [Calls -> Call] /\ attempt' = attempt + 1
        /\ \/ /\ attempt + 1 < maxAttempts /\ state' = "reconnecting"
              /\ calls'[c] = [calls[c] EXCEPT !.pc = "backoff"]
           \/ /\ attempt + 1 >= maxAttempts /\ state' = "configError"
              /\ calls'[c] = Done
        /\ \A d \in Calls : d # c =>
                \/ calls'[d] = calls[d]
                \/ /\ calls[d].pc # "done"
                   /\ calls'[d] = [calls[d] EXCEPT !.current = FALSE]
    BY <1>1, <1>2, CaughtKeeps DEF PInv
  <1>4. LET q == [calls[c] EXCEPT !.pc = "backoff"]
        IN  q.pc = "backoff" /\ q.current = calls[c].current /\ q.dials = calls[c].dials
    BY <1>1 DEF Call
  <1>5. /\ \A d \in Calls : d # c => CallInv(d)'
        /\ made' \in Nat
        /\ \A d \in Calls : d > made' => calls'[d] = Done
    BY <1>1, <1>3, OthersKeep
  <1>6. CallsOK' /\ sessionStart' = 0
    BY <1>1, <1>3, <1>5 DEF CallsOK
  <1>7. CallInv(c)'
    BY <1>1, <1>3, <1>4, DoneInv DEF CallInv
  <1>8. Settled'
    BY <1>1, <1>3, <1>4 DEF Settled
  <1>9. QED
    BY <1>5, <1>6, <1>7, <1>8 DEF PInv

LEMMA CallStepPatient ==
    ASSUME PInv, NEW c \in Calls, CallStep(c)
    PROVE  PInv'
  <1> made' = made
    BY DEF CallStep
  <1> CallsOK /\ attempt \in Nat /\ calls[c] \in Call /\ CallInv(c)
    BY DEF PInv, CallsOK
  <1>1. CASE Prepared(c)
    <2>1. /\ calls[c].pc = "prepare" /\ Goto(c, "probe")
          /\ UNCHANGED <<attempt, sessionStart, proc>>
      BY <1>1 DEF Prepared, runnerVars
    <2>2. "probe" \in Pcs
      BY DEF Pcs
    <2>3. /\ calls' \in [Calls -> Call] /\ calls'[c].pc = "probe"
          /\ calls'[c].current = calls[c].current /\ calls'[c].dials = calls[c].dials
          /\ \A d \in Calls : d # c => calls'[d] = calls[d]
      BY <2>1, <2>2, GotoKeeps
    <2>4. /\ \A d \in Calls : d # c => CallInv(d)'
          /\ made' \in Nat /\ \A d \in Calls : d > made' => calls'[d] = Done
      BY <2>1, <2>3, OthersKeep
    <2>5. CallInv(c)'
      BY <2>1, <2>3 DEF CallInv
    <2>6. QED
      BY <2>1, <2>3, <2>4, <2>5 DEF PInv, CallsOK, Settled
  <1>2. CASE Probed(c)
    <2>1. calls[c].pc = "probe" /\ calls[c].dials = 0 /\ 0 < maxAttempts
      BY <1>2, EngineAssumption DEF Probed, CallInv
    <2>2. Select(c, 0) /\ UNCHANGED <<sessionStart, runnerVars>>
      BY <1>2 DEF Probed
    <2>3. QED
      BY <2>1, <2>2, SelectPatient
  <1>3. CASE BackedOff(c)
    <2>1. calls[c].pc = "backoff" /\ calls[c].dials = attempt /\ attempt < maxAttempts
      BY <1>3 DEF BackedOff, CallInv
    <2>2. Select(c, attempt) /\ UNCHANGED <<sessionStart, runnerVars>>
      BY <1>3 DEF BackedOff
    <2>3. QED
      BY <2>1, <2>2, SelectPatient
  <1>4. CASE StartFailed(c)
    BY <1>4, FailedPatient DEF StartFailed
  <1>5. CASE Spawned(c)
    <2>1. /\ calls[c].pc = "starting" /\ Goto(c, "probing")
          /\ UNCHANGED <<attempt, sessionStart>>
      BY <1>5 DEF Spawned, engineVars
    <2>2. "probing" \in Pcs
      BY DEF Pcs
    <2>3. /\ calls' \in [Calls -> Call] /\ calls'[c].pc = "probing"
          /\ calls'[c].current = calls[c].current /\ calls'[c].dials = calls[c].dials
          /\ \A d \in Calls : d # c => calls'[d] = calls[d]
      BY <2>1, <2>2, GotoKeeps
    <2>4. /\ \A d \in Calls : d # c => CallInv(d)'
          /\ made' \in Nat /\ \A d \in Calls : d > made' => calls'[d] = Done
      BY <2>1, <2>3, OthersKeep
    <2>5. CallInv(c)'
      BY <2>1, <2>3 DEF CallInv
    <2>6. QED
      BY <2>1, <2>3, <2>4, <2>5 DEF PInv, CallsOK, Settled
  <1>6. CASE ProbeFailed(c)
    BY <1>6, FailedPatient DEF ProbeFailed
  <1>7. CASE Established(c)
    <2>1. /\ calls[c].pc = "probing" /\ Return(c) /\ attempt' = attempt
          /\ state' = "connected" /\ sessionStart' = c
      BY <1>7 DEF Established
    <2>2. /\ calls' \in [Calls -> Call] /\ calls'[c] = Done
          /\ \A d \in Calls : d # c => calls'[d] = calls[d]
      BY <2>1, ReturnKeeps
    <2>3. /\ \A d \in Calls : d # c => CallInv(d)'
          /\ made' \in Nat /\ \A d \in Calls : d > made' => calls'[d] = Done
      BY <2>1, <2>2, OthersKeep
    <2>4. CallInv(c)'
      BY <2>2, DoneInv DEF CallInv
    <2>5. c \in Nat \ {0}
      BY EngineAssumption DEF Calls
    <2>6. Settled'
      BY <2>1, <2>5 DEF Settled
    <2>7. QED
      BY <2>1, <2>2, <2>3, <2>4, <2>5, <2>6 DEF PInv, CallsOK
  <1>8. CASE Stopped(c)
    <2>1. /\ calls[c].pc = "stopping" /\ Return(c) /\ attempt' = attempt
          /\ state' = "idle" /\ sessionStart' = 0 /\ proc' = proc
      BY <1>8 DEF Stopped, runnerVars
    <2>2. /\ calls' \in [Calls -> Call] /\ calls'[c] = Done
          /\ \A d \in Calls : d # c => calls'[d] = calls[d]
      BY <2>1, ReturnKeeps
    <2>3. /\ \A d \in Calls : d # c => CallInv(d)'
          /\ made' \in Nat /\ \A d \in Calls : d > made' => calls'[d] = Done
      BY <2>1, <2>2, OthersKeep
    <2>4. CallInv(c)'
      BY <2>2, DoneInv DEF CallInv
    <2>5. Settled'
      BY <2>1 DEF Settled, CallInv
    <2>6. QED
      BY <2>1, <2>2, <2>3, <2>4, <2>5 DEF PInv, CallsOK
  <1>9. QED
    BY <1>1, <1>2, <1>3, <1>4, <1>5, <1>6, <1>7, <1>8 DEF CallStep

LEMMA TapPatient ==
    ASSUME Patient, PInv, onTap
    PROVE  PInv'
  <1>1. /\ \A c \in Calls : calls[c].pc = "done"
        /\ CallsOK /\ sessionStart \in Nat /\ \A c \in Calls : CallInv(c)
    BY DEF onTap, InFlight, PInv
  <1>2. CASE disconnect
    <2>1. /\ made < MaxCalls /\ made' = made + 1 /\ Goto(made + 1, "stopping")
          /\ UNCHANGED <<attempt, sessionStart, state>> /\ proc' = 0
      BY <1>2 DEF disconnect, engineVars, kill
    <2>2. "stopping" \in Pcs
      BY DEF Pcs
    <2>3. /\ made + 1 \in Calls /\ calls[made + 1] = Done
          /\ made' \in Nat /\ calls' \in [Calls -> Call]
          /\ calls'[made + 1] = [Done EXCEPT !.pc = "stopping"]
          /\ \A d \in Calls : d # made + 1 => calls'[d] = calls[d]
          /\ \A d \in Calls : d > made' => calls'[d] = Done
      BY <1>1, <2>1, <2>2, NewCall
    <2>4. /\ calls'[made + 1].pc = "stopping" /\ calls'[made + 1].current
          /\ calls'[made + 1].dials = 0
      BY <2>3 DEF Done
    <2>5. ASSUME NEW c \in Calls
          PROVE  CallInv(c)'
      <3>1. CASE c = made + 1
        BY <2>1, <2>3, <2>4, <3>1 DEF CallInv
      <3>2. CASE c # made + 1
        <4>1. calls'[c] = calls[c] /\ calls[c].pc = "done" /\ CallInv(c)
          BY <1>1, <2>1, <2>3, <2>4, <3>2
        <4>2. QED
          BY <4>1 DEF CallInv
      <3>3. QED
        BY <3>1, <3>2
    <2>6. Settled'
      BY <2>3, <2>4 DEF Settled
    <2>7. QED
      BY <1>1, <2>1, <2>3, <2>5, <2>6 DEF PInv, CallsOK
  <1>3. CASE connect /\ state # "connected"
    <2>1. sessionStart = 0
      BY <1>1, <1>3 DEF PInv, Settled
    <2>2. CASE registered
      <3>1. /\ made < MaxCalls /\ made' = made + 1 /\ Goto(made + 1, "prepare")
            /\ attempt' = 0 /\ UNCHANGED sessionStart
        BY <1>3, <2>2 DEF connect
      <3>2. "prepare" \in Pcs
        BY DEF Pcs
      <3>3. /\ made + 1 \in Calls /\ calls[made + 1] = Done
            /\ made' \in Nat /\ calls' \in [Calls -> Call]
            /\ calls'[made + 1] = [Done EXCEPT !.pc = "prepare"]
            /\ \A d \in Calls : d # made + 1 => calls'[d] = calls[d]
            /\ \A d \in Calls : d > made' => calls'[d] = Done
        BY <1>1, <3>1, <3>2, NewCall
      <3>4. /\ calls'[made + 1].pc = "prepare" /\ calls'[made + 1].current
            /\ calls'[made + 1].dials = 0
        BY <3>3 DEF Done
      <3>5. ASSUME NEW c \in Calls
            PROVE  CallInv(c)'
        <4>1. CASE c = made + 1
          BY <2>1, <3>1, <3>3, <3>4, <4>1 DEF CallInv
        <4>2. CASE c # made + 1
          <5>1. calls'[c] = calls[c] /\ calls[c].pc = "done" /\ CallInv(c)
            BY <1>1, <2>1, <3>1, <3>3, <3>4, <4>2
          <5>2. QED
            BY <5>1 DEF CallInv
        <4>3. QED
          BY <4>1, <4>2
      <3>6. Settled'
        BY <3>3, <3>4 DEF Settled
      <3>7. QED
        BY <1>1, <3>1, <3>3, <3>5, <3>6 DEF PInv, CallsOK
    <2>3. CASE ~registered
      <3>1. /\ made' = made + 1 /\ state' = "configError"
            /\ UNCHANGED <<attempt, calls, sessionStart, proc>>
        BY <1>3, <2>3 DEF connect, runnerVars
      <3>2. made' \in Nat /\ \A c \in Calls : c > made' => c > made
        BY <1>1, <3>1 DEF CallsOK, Calls
      <3>3. CallsOK'
        BY <1>1, <3>1, <3>2 DEF CallsOK
      <3>4. \A c \in Calls : CallInv(c)'
        BY <1>1, <3>1 DEF CallInv
      <3>5. Settled'
        BY <2>1, <3>1 DEF Settled
      <3>6. QED
        BY <1>1, <3>1, <3>3, <3>4, <3>5 DEF PInv
    <2>4. QED
      BY <2>2, <2>3
  <1>4. QED
    BY <1>2, <1>3 DEF onTap

LEMMA PInvInductive ==
    ASSUME Patient
    PROVE  PInv /\ [Next]_vars => PInv'
  <1> SUFFICES ASSUME PInv, [Next]_vars PROVE PInv'
    OBVIOUS
  <1>1. CASE onTap
    BY <1>1, TapPatient
  <1>2. CASE setBlackout \/ UNCHANGED vars
    BY <1>2 DEF setBlackout, vars, engineVars, runnerVars, PInv, CallsOK, CallInv, Settled
  <1>3. CASE CoreStep
    <2>1. proc = 0 => proc' = 0
      BY <1>3 DEF CoreStep, Bind, Exit
    <2>2. UNCHANGED <<attempt, state, sessionStart, made, calls>>
      BY <1>3 DEF CoreStep, engineVars
    <2>3. \A c \in Calls : CallInv(c)'
      BY <2>1, <2>2 DEF PInv, CallInv
    <2>4. QED
      BY <2>1, <2>2, <2>3 DEF PInv, CallsOK, Settled
  <1>4. CASE Restart
    BY <1>4, DoneIsCall, DoneInv DEF Restart, PInv, CallsOK, CallInv, Settled
  <1>5. CASE \E c \in Calls : CallStep(c)
    BY <1>5, CallStepPatient
  <1>6. QED
    BY <1>1, <1>2, <1>3, <1>4, <1>5 DEF Next

LEMMA PInvHolds ==
    ASSUME Patient
    PROVE  Spec => []PInv
  <1>1. Init => PInv
    BY DoneIsCall, DoneInv DEF Init, RunnerInit, PInv, CallsOK, CallInv, Settled
  <1>2. QED
    BY <1>1, PInvInductive, PTL DEF Spec

\* For a user who waits, once a call is over a session start time is shown for a
\* connected tunnel and for no other.
THEOREM SessionMatches ==
    ASSUME Patient
    PROVE  Spec => []SessionMatchesState
  <1>1. PInv => SessionMatchesState
    BY DEF PInv, Settled, SessionMatchesState, InFlight
  <1>2. QED
    BY <1>1, PInvHolds, PTL

\* For a user who waits, a tunnel torn down has no child left that the runner knows of.
THEOREM IdleIsClean ==
    ASSUME Patient
    PROVE  Spec => []IdleHasNoChild
  <1>1. PInv => IdleHasNoChild
    BY DEF PInv, Settled, IdleHasNoChild, InFlight
  <1>2. QED
    BY <1>1, PInvHolds, PTL

\* For a user who waits, connect() makes at most maxAttempts attempts.
THEOREM RetriesBounded ==
    ASSUME Patient
    PROVE  Spec => []RetriesAreBounded
  <1>1. ASSUME PInv, NEW c \in Calls
        PROVE  calls[c].dials <= maxAttempts
    <2>1. /\ calls[c].pc \in Pcs \cup {"done"} /\ calls[c].dials \in Nat
          /\ attempt \in Nat /\ CallInv(c)
      BY <1>1 DEF PInv, CallsOK, Call
    <2>2. QED
      BY <2>1, EngineAssumption DEF CallInv, Pcs
  <1>2. PInv => RetriesAreBounded
    BY <1>1 DEF RetriesAreBounded
  <1>3. QED
    BY <1>2, PInvHolds, PTL
-----------------------------------------------------------------------------
(* The refinement, for a user who waits *)

Flying(cs)   == {c \in Calls : cs[c].pc # "done"}
Dials(cs)    == {c \in Flying(cs) : cs[c].pc # "stopping"}
Closing(cs)  == Cardinality(Flying(cs) \ Dials(cs))

\* The values of TunnelSession's variables, as functions of the engine's.
PhaseOf(s, cs) == IF Dials(cs) # {} THEN "dialing"
                  ELSE IF s = "connected" THEN "up" ELSE "down"
TriesOf(a)     == Least(a, maxAttempts - 1)
LastOf(m, cs)  == m - Closing(cs)

LEMMA Views ==
    /\ Phase = PhaseOf(state, calls) /\ Phase' = PhaseOf(state', calls')
    /\ Least(attempt, maxAttempts - 1) = TriesOf(attempt)
    /\ (Least(attempt, maxAttempts - 1))' = TriesOf(attempt')
    /\ made - Cardinality(InFlight \ Dialing) = LastOf(made, calls)
    /\ (made - Cardinality(InFlight \ Dialing))' = LastOf(made', calls')
  BY DEF Phase, PhaseOf, Dialing, InFlight, Flying, Dials, Closing, TriesOf, LastOf, Least

LEMMA AllAreDone ==
    ASSUME NEW cs, \A c \in Calls : cs[c].pc = "done"
    PROVE  Dials(cs) = {} /\ Closing(cs) = 0
  <1>1. Flying(cs) = {} /\ Dials(cs) = {} /\ Flying(cs) \ Dials(cs) = {}
    BY DEF Flying, Dials
  <1>2. QED
    BY <1>1, FS_EmptySet DEF Closing

LEMMA OneDials ==
    ASSUME NEW cs, NEW c \in Calls, cs[c].pc \notin {"done", "stopping"},
           \A d \in Calls : d # c => cs[d].pc = "done"
    PROVE  Dials(cs) # {} /\ Closing(cs) = 0
  <1>1. Dials(cs) = {c} /\ Flying(cs) \ Dials(cs) = {}
    BY DEF Flying, Dials
  <1>2. QED
    BY <1>1, FS_EmptySet DEF Closing

LEMMA OneStops ==
    ASSUME NEW cs, NEW c \in Calls, cs[c].pc = "stopping",
           \A d \in Calls : d # c => cs[d].pc = "done"
    PROVE  Dials(cs) = {} /\ Closing(cs) = 1
  <1>1. Dials(cs) = {} /\ Flying(cs) \ Dials(cs) = {c}
    BY DEF Flying, Dials
  <1>2. QED
    BY <1>1, FS_Singleton DEF Closing

\* A step of TunnelSession or none, in the engine's variables.
Implements ==
    LET ph == PhaseOf(state, calls)
        pn == PhaseOf(state', calls')
        tr == TriesOf(attempt)
        tn == TriesOf(attempt')
        la == LastOf(made, calls)
        ln == LastOf(made', calls')
    IN  \/ ph = "down" /\ pn = "dialing" /\ tn = 0 /\ sessionStart' = 0 /\ ln > la
        \/ /\ ph = "dialing" /\ pn = "dialing" /\ tr + 1 < maxAttempts /\ tn = tr + 1
           /\ sessionStart' = sessionStart /\ ln = la
        \/ /\ ph = "dialing" /\ pn = "up" /\ sessionStart' = la
           /\ tn = tr /\ ln = la
        \/ /\ ph = "dialing" /\ pn = "down"
           /\ sessionStart' = sessionStart /\ tn = tr /\ ln = la
        \/ pn = "down" /\ sessionStart' = 0 /\ tn = tr /\ ln > la
        \/ pn = "down" /\ sessionStart' = 0 /\ tn = 0 /\ ln = 0
        \/ pn = ph /\ sessionStart' = sessionStart /\ tn = tr /\ ln = la

LEMMA ImplementsIsStep == Implements => [Session!Next]_(Session!vars)
  BY Views DEF Implements, Session!Next, Session!vars, Session!Dial, Session!Retry,
     Session!Establish, Session!GiveUp, Session!Close, Session!Restart

\* While a call dials and after it gave up, seen from the session.
LEMMA DialOutcome ==
    ASSUME PInv, NEW c \in Calls, calls[c].pc \notin {"done", "stopping"},
           NEW a \in Nat, TriesOf(attempt) = a, a < maxAttempts,
           made' = made, sessionStart' = sessionStart,
           \A d \in Calls : d # c => calls'[d].pc = "done",
           \/ calls'[c].pc \notin {"done", "stopping"} /\ attempt' = a
           \/ /\ calls'[c].pc \notin {"done", "stopping"}
              /\ attempt' = a + 1 /\ a + 1 < maxAttempts
           \/ calls'[c].pc = "done" /\ attempt' = a /\ state' # "connected"
           \/ /\ calls'[c].pc = "done" /\ state' # "connected"
              /\ attempt' = a + 1 /\ a + 1 >= maxAttempts
    PROVE  Implements
  <1>1. PhaseOf(state, calls) = "dialing" /\ Closing(calls) = 0
    BY Alone, OneDials DEF PhaseOf
  <1>2. /\ calls'[c].pc \notin {"done", "stopping"} =>
              PhaseOf(state', calls') = "dialing" /\ Closing(calls') = 0
        /\ calls'[c].pc = "done" /\ state' # "connected" =>
              PhaseOf(state', calls') = "down" /\ Closing(calls') = 0
    BY OneDials, AllAreDone DEF PhaseOf
  <1>3. /\ attempt' = a => TriesOf(attempt') = a
        /\ attempt' = a + 1 /\ a + 1 < maxAttempts => TriesOf(attempt') = a + 1
        /\ attempt' = a + 1 /\ a + 1 >= maxAttempts => TriesOf(attempt') = a
    BY EngineAssumption DEF TriesOf, Least
  <1>4. Closing(calls') = 0 => LastOf(made', calls') = LastOf(made, calls)
    BY <1>1 DEF LastOf
  <1>5. QED
    BY <1>1, <1>2, <1>3, <1>4 DEF Implements

LEMMA SelectImplements ==
    ASSUME PInv, NEW c \in Calls, calls[c].pc \in {"probe", "backoff"},
           attempt < maxAttempts, made' = made, Select(c, attempt),
           UNCHANGED <<sessionStart, runnerVars>>
    PROVE  Implements
  <1>1. attempt \in Nat /\ TriesOf(attempt) = attempt /\ CallsOK
    BY EngineAssumption DEF PInv, CallsOK, TriesOf, Least
  <1>2. /\ \A d \in Calls : d # c =>
                \/ calls'[d] = calls[d]
                \/ /\ calls[d].pc # "done"
                   /\ calls'[d] = [calls[d] EXCEPT !.current = FALSE]
        /\ \/ attempt' = attempt /\ state' = "configError" /\ calls'[c] = Done
           \/ attempt' = attempt /\ calls'[c].pc = "starting"
           \/ /\ attempt' = attempt + 1 /\ attempt + 1 < maxAttempts
              /\ calls'[c].pc = "backoff"
           \/ /\ attempt' = attempt + 1 /\ attempt + 1 >= maxAttempts
              /\ state' = "configError" /\ calls'[c] = Done
    BY <1>1, SelectKeeps
  <1>3. \A d \in Calls : d # c => calls'[d].pc = "done"
    BY <1>2, Alone
  <1>4. QED
    BY <1>1, <1>2, <1>3, DoneInv, DialOutcome

LEMMA FailedImplements ==
    ASSUME PInv, NEW c \in Calls, calls[c].pc \in {"starting", "probing"},
           made' = made, Failed(c), UNCHANGED <<selected, sessionStart, runnerVars>>
    PROVE  Implements
  <1>1. /\ attempt \in Nat /\ CallsOK /\ calls[c] \in Call /\ calls[c].current
        /\ attempt < maxAttempts
    BY DEF PInv, CallsOK, CallInv
  <1>2. TriesOf(attempt) = attempt
    BY <1>1, EngineAssumption DEF TriesOf, Least
  <1>3. Caught(c, calls[c], attempt, transport)
    BY <1>1 DEF Failed
  <1>4. [calls[c] EXCEPT !.pc = "backoff"].pc = "backoff"
    BY <1>1 DEF Call
  <1>5. /\ \A d \in Calls : d # c =>
                \/ calls'[d] = calls[d]
                \/ /\ calls[d].pc # "done"
                   /\ calls'[d] = [calls[d] EXCEPT !.current = FALSE]
        /\ attempt' = attempt + 1
        /\ \/ attempt + 1 < maxAttempts /\ calls'[c].pc = "backoff"
           \/ /\ attempt + 1 >= maxAttempts /\ state' = "configError"
              /\ calls'[c] = Done
    BY <1>1, <1>3, <1>4, CaughtKeeps
  <1>6. \A d \in Calls : d # c => calls'[d].pc = "done"
    BY <1>5, Alone
  <1>7. QED
    BY <1>1, <1>2, <1>5, <1>6, DoneInv, DialOutcome

LEMMA CallStepImplements ==
    ASSUME PInv, NEW c \in Calls, CallStep(c)
    PROVE  Implements
  <1> made' = made
    BY DEF CallStep
  <1> CallsOK /\ attempt \in Nat /\ calls[c] \in Call /\ CallInv(c)
    BY DEF PInv, CallsOK
  <1>1. CASE Prepared(c)
    <2>1. /\ calls[c].pc = "prepare" /\ Goto(c, "probe")
          /\ UNCHANGED <<attempt, sessionStart>>
      BY <1>1 DEF Prepared
    <2>2. calls'[c].pc = "probe" /\ \A d \in Calls : d # c => calls'[d].pc = "done"
      <3>1. "probe" \in Pcs
        BY DEF Pcs
      <3>2. calls'[c].pc = "probe" /\ \A d \in Calls : d # c => calls'[d] = calls[d]
        BY <2>1, <3>1, GotoKeeps
      <3>3. QED
        BY <2>1, <3>2, Alone
    <2>3. TriesOf(attempt) = attempt /\ attempt < maxAttempts
      BY <2>1, EngineAssumption DEF TriesOf, Least, CallInv
    <2>4. QED
      BY <2>1, <2>2, <2>3, DialOutcome
  <1>2. CASE Probed(c)
    <2>1. calls[c].pc = "probe" /\ attempt = 0 /\ attempt < maxAttempts
      BY <1>2, EngineAssumption DEF Probed, CallInv
    <2>2. Select(c, attempt) /\ UNCHANGED <<sessionStart, runnerVars>>
      BY <1>2, <2>1 DEF Probed
    <2>3. QED
      BY <2>1, <2>2, SelectImplements
  <1>3. CASE BackedOff(c)
    BY <1>3, SelectImplements DEF BackedOff, CallInv
  <1>4. CASE StartFailed(c)
    BY <1>4, FailedImplements DEF StartFailed
  <1>5. CASE Spawned(c)
    <2>1. /\ calls[c].pc = "starting" /\ Goto(c, "probing")
          /\ UNCHANGED <<attempt, sessionStart>>
      BY <1>5 DEF Spawned, engineVars
    <2>2. calls'[c].pc = "probing" /\ \A d \in Calls : d # c => calls'[d].pc = "done"
      <3>1. "probing" \in Pcs
        BY DEF Pcs
      <3>2. calls'[c].pc = "probing" /\ \A d \in Calls : d # c => calls'[d] = calls[d]
        BY <2>1, <3>1, GotoKeeps
      <3>3. QED
        BY <2>1, <3>2, Alone
    <2>3. TriesOf(attempt) = attempt /\ attempt < maxAttempts
      BY <2>1, EngineAssumption DEF TriesOf, Least, CallInv
    <2>4. QED
      BY <2>1, <2>2, <2>3, DialOutcome
  <1>6. CASE ProbeFailed(c)
    BY <1>6, FailedImplements DEF ProbeFailed
  <1>7. CASE Established(c)
    <2>1. /\ calls[c].pc = "probing" /\ Return(c) /\ attempt' = attempt
          /\ state' = "connected" /\ sessionStart' = c
      BY <1>7 DEF Established
    <2>2. c = made /\ \A d \in Calls : calls'[d].pc = "done"
      BY <2>1, ReturnKeeps, Alone, DoneInv
    <2>3. PhaseOf(state, calls) = "dialing" /\ Closing(calls) = 0
      BY <2>1, Alone, OneDials DEF PhaseOf
    <2>4. PhaseOf(state', calls') = "up" /\ Closing(calls') = 0
      BY <2>1, <2>2, AllAreDone DEF PhaseOf
    <2>5. LastOf(made, calls) = made /\ LastOf(made', calls') = made
      BY <2>3, <2>4 DEF LastOf, CallsOK
    <2>6. QED
      BY <2>1, <2>2, <2>3, <2>4, <2>5 DEF Implements, TriesOf
  <1>8. CASE Stopped(c)
    <2>1. /\ calls[c].pc = "stopping" /\ Return(c) /\ attempt' = attempt
          /\ state' = "idle" /\ sessionStart' = 0
      BY <1>8 DEF Stopped
    <2>2. \A d \in Calls : calls'[d].pc = "done"
      BY <2>1, ReturnKeeps, Alone, DoneInv
    <2>3. Closing(calls) = 1
      BY <2>1, Alone, OneStops
    <2>4. PhaseOf(state', calls') = "down" /\ Closing(calls') = 0
      BY <2>1, <2>2, AllAreDone DEF PhaseOf
    <2>5. LastOf(made', calls') > LastOf(made, calls)
      BY <2>3, <2>4 DEF LastOf, CallsOK
    <2>6. QED
      BY <2>1, <2>4, <2>5 DEF Implements, TriesOf
  <1>9. QED
    BY <1>1, <1>2, <1>3, <1>4, <1>5, <1>6, <1>7, <1>8 DEF CallStep

LEMMA TapImplements ==
    ASSUME Patient, PInv, onTap
    PROVE  Implements
  <1>1. /\ \A c \in Calls : calls[c].pc = "done"
        /\ CallsOK /\ Settled /\ made \in Nat
    BY DEF onTap, InFlight, PInv, CallsOK
  <1>2. Dials(calls) = {} /\ LastOf(made, calls) = made
    BY <1>1, AllAreDone DEF LastOf
  <1>3. CASE state = "connected" /\ disconnect
    <2>1. /\ made < MaxCalls /\ made' = made + 1 /\ Goto(made + 1, "stopping")
          /\ UNCHANGED <<attempt, sessionStart, state>>
      BY <1>3 DEF disconnect, engineVars
    <2>2. "stopping" \in Pcs
      BY DEF Pcs
    <2>3. /\ made + 1 \in Calls
          /\ calls'[made + 1] = [Done EXCEPT !.pc = "stopping"]
          /\ \A d \in Calls : d # made + 1 => calls'[d] = calls[d]
      BY <1>1, <2>1, <2>2, NewCall
    <2>4. calls'[made + 1].pc = "stopping"
      BY <2>3 DEF Done
    <2>5. Dials(calls') = {} /\ Closing(calls') = 1
      <3> DEFINE new == made + 1
      <3>1. new \in Calls /\ \A d \in Calls : d # new => calls'[d].pc = "done"
        BY <1>1, <2>3
      <3>2. calls'[new].pc = "stopping"
        BY <2>4
      <3> HIDE DEF new
      <3>3. QED
        BY <3>1, <3>2, OneStops
    <2>6. LastOf(made', calls') = made
      BY <1>1, <2>1, <2>5 DEF LastOf
    <2>7. QED
      BY <1>2, <1>3, <2>1, <2>5, <2>6 DEF Implements, PhaseOf, TriesOf
  <1>4. CASE state # "connected" /\ connect
    <2>1. sessionStart = 0 /\ PhaseOf(state, calls) = "down"
      BY <1>1, <1>2, <1>4 DEF Settled, PhaseOf
    <2>2. CASE registered
      <3>1. /\ made < MaxCalls /\ made' = made + 1 /\ Goto(made + 1, "prepare")
            /\ attempt' = 0 /\ UNCHANGED sessionStart
        BY <1>4, <2>2 DEF connect
      <3>2. "prepare" \in Pcs
        BY DEF Pcs
      <3>3. /\ made + 1 \in Calls
            /\ calls'[made + 1] = [Done EXCEPT !.pc = "prepare"]
            /\ \A d \in Calls : d # made + 1 => calls'[d] = calls[d]
        BY <1>1, <3>1, <3>2, NewCall
      <3>4. calls'[made + 1].pc = "prepare"
        BY <3>3 DEF Done
      <3>5. Dials(calls') # {} /\ Closing(calls') = 0
        <4> DEFINE new == made + 1
        <4>1. new \in Calls /\ \A d \in Calls : d # new => calls'[d].pc = "done"
          BY <1>1, <3>3
        <4>2. calls'[new].pc = "prepare"
          BY <3>4
        <4> HIDE DEF new
        <4>3. QED
          BY <4>1, <4>2, OneDials
      <3>6. LastOf(made', calls') > made /\ TriesOf(attempt') = 0
        BY <1>1, <3>1, <3>5, EngineAssumption DEF LastOf, TriesOf, Least
      <3>7. QED
        BY <1>2, <2>1, <3>1, <3>5, <3>6 DEF Implements, PhaseOf
    <2>3. CASE ~registered
      <3>1. /\ made' = made + 1 /\ state' = "configError"
            /\ UNCHANGED <<attempt, calls, sessionStart>>
        BY <1>4, <2>3 DEF connect
      <3>2. PhaseOf(state', calls') = "down" /\ LastOf(made', calls') > made
        BY <1>1, <1>2, <3>1, AllAreDone DEF PhaseOf, LastOf
      <3>3. QED
        BY <1>2, <2>1, <3>1, <3>2 DEF Implements, TriesOf
    <2>4. QED
      BY <2>2, <2>3
  <1>5. QED
    BY <1>3, <1>4 DEF onTap

LEMMA StepImplements ==
    ASSUME Patient
    PROVE  PInv /\ [Next]_vars => [Session!Next]_(Session!vars)
  <1> SUFFICES ASSUME PInv, [Next]_vars PROVE Implements
    BY ImplementsIsStep
  <1>1. CASE onTap
    BY <1>1, TapImplements
  <1>2. CASE setBlackout \/ CoreStep \/ UNCHANGED vars
    BY <1>2 DEF setBlackout, CoreStep, vars, engineVars, Implements, PhaseOf, TriesOf, LastOf
  <1>3. CASE Restart
    <2>1. /\ state' = "idle" /\ attempt' = 0 /\ sessionStart' = 0 /\ made' = 0
          /\ \A c \in Calls : calls'[c].pc = "done"
      BY <1>3, DoneInv DEF Restart
    <2>2. PhaseOf(state', calls') = "down" /\ LastOf(made', calls') = 0
      BY <2>1, AllAreDone DEF PhaseOf, LastOf
    <2>3. TriesOf(attempt') = 0
      BY <2>1, EngineAssumption DEF TriesOf, Least
    <2>4. QED
      BY <2>1, <2>2, <2>3 DEF Implements
  <1>4. CASE \E c \in Calls : CallStep(c)
    BY <1>4, CallStepImplements
  <1>5. QED
    BY <1>1, <1>2, <1>3, <1>4 DEF Next

\* For a user who waits, the engine is a session: every step is one of
\* TunnelSession's or leaves it alone.
THEOREM Refinement ==
    ASSUME Patient
    PROVE  Spec => ImplementsSession
  <1>1. Init => Session!Init
    <2> SUFFICES ASSUME Init PROVE Session!Init
      OBVIOUS
    <2>1. \A c \in Calls : calls[c].pc = "done"
      BY DoneInv DEF Init
    <2>2. PhaseOf(state, calls) = "down" /\ LastOf(made, calls) = 0
      BY <2>1, AllAreDone DEF Init, PhaseOf, LastOf
    <2>3. TriesOf(attempt) = 0 /\ sessionStart = 0
      BY EngineAssumption DEF Init, TriesOf, Least
    <2>4. QED
      BY <2>2, <2>3, Views DEF Session!Init
  <1>2. QED
    BY <1>1, StepImplements, PInvHolds, PTL DEF Spec, ImplementsSession, Session!Spec
=============================================================================
