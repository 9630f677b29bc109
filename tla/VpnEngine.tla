------------------------------ MODULE VpnEngine ------------------------------
(***************************************************************************)
(* The engine of the Flutter client (apps/vor_client/lib/core/              *)
(* vpn_engine.dart, VorEngine) over the Windows runner, and the dial of the *)
(* dashboard that calls it.                                                 *)
(*                                                                         *)
(* connect() and disconnect() are coroutines over shared fields (state,     *)
(* attempt, transport, sessionStart) and, unlike the preview's store, carry *)
(* no token: a call is never told that another one has begun.  Each action  *)
(* is the synchronous code between two awaits; how long runner.start() and  *)
(* runner.stop() take is not bounded, so the awaits end in any order.       *)
(*                                                                         *)
(* The dial is taken to be rebuilt before each tap.  A disconnect() that is  *)
(* still waiting for the runner shows as connected; `Patient` is a user who  *)
(* taps only when no call is in flight.                                     *)
(*                                                                         *)
(* Abstracted: scores (any candidate may be best), the share link and the   *)
(* configuration built from it (accepted or not), events.  A definition     *)
(* named d_Mutant is d with a plausible slip in it.                         *)
(***************************************************************************)
EXTENDS XrayRunner, Sequences, FiniteSets

CONSTANTS
    Fleet,        \* the endpoints, in list order
    Cdn,          \* those that are CDN-routed
    maxAttempts,  \* 5 in the code
    MaxCalls,     \* bound: connect and disconnect calls between two starts of the app
    Patient, Restarts

ASSUME EngineAssumption == /\ Fleet \in Seq(Endpoints) /\ Cdn \subseteq Endpoints
                           /\ maxAttempts \in Nat \ {0} /\ MaxCalls \in Nat
                           /\ Patient \in BOOLEAN /\ Restarts \in BOOLEAN

VARIABLES
    state, attempt, transport, selected,
    sessionStart, \* 0 for null, else the call that set it
    blackout,     \* _intlBlackout
    registered,   \* a runner exists for this platform
    made,         \* calls made so far
    calls         \* call -> where it waits

engineVars == <<state, attempt, transport, selected, sessionStart>>
vars == <<engineVars, blackout, registered, made, calls, runnerVars>>
-----------------------------------------------------------------------------
transportLadder == <<"reality_direct", "ws_tls_cdn", "grpc_tls",
                     "httpupgrade_cdn", "ss2022">>

Busy == {"preparing", "checkingNetwork", "handshake", "reconnecting"}

Calls == 1..MaxCalls
Pcs   == {"prepare", "probe", "backoff", "starting", "probing", "stopping"}
Done  == [pc |-> "done", ep |-> NoEndpoint, current |-> TRUE, dials |-> 0]

Least(a, b) == IF a <= b THEN a ELSE b

\* pickBest's candidates, with the transport connect() then uses.
Candidates(cdnOnly) ==
    LET All == {<<Fleet[i], transportLadder[Least(i, 5)]>> : i \in DOMAIN Fleet}
    IN  IF cdnOnly THEN {<<c[1], "ws_tls_cdn">> : c \in {a \in All : a[1] \in Cdn}}
                   ELSE All

NextTransport(t) ==
    LET idx == CHOOSE i \in 1..5 : transportLadder[i] = t
    IN  transportLadder[Least(idx + 1, 5)]

InFlight == {c \in Calls : calls[c].pc # "done"}
Dialing  == {c \in InFlight : calls[c].pc # "stopping"}
-----------------------------------------------------------------------------
Init ==
    /\ state = "idle" /\ attempt = 0 /\ transport = "reality_direct"
    /\ selected = NoEndpoint /\ sessionStart = 0
    /\ blackout = FALSE /\ registered \in BOOLEAN
    /\ made = 0 /\ calls = [c \in Calls |-> Done]
    /\ RunnerInit
-----------------------------------------------------------------------------
(* connect() *)

Goto(c, pc) == calls' = [calls EXCEPT ![c].pc = pc]
Return(c)   == calls' = [calls EXCEPT ![c] = Done]

connect_Mutant ==              \* the attempt of the last call stays
    /\ made < MaxCalls /\ made' = made + 1
    /\ registered /\ state' = "preparing" /\ Goto(made + 1, "prepare")
    /\ UNCHANGED <<attempt, transport, selected, sessionStart, runnerVars>>

connect ==
    /\ made < MaxCalls /\ made' = made + 1
    /\ IF registered
       THEN state' = "preparing" /\ attempt' = 0 /\ Goto(made + 1, "prepare")
       ELSE state' = "configError" /\ UNCHANGED <<attempt, calls>>
    /\ UNCHANGED <<transport, selected, sessionStart, runnerVars>>

Prepared(c) ==
    /\ calls[c].pc = "prepare"
    /\ state' = "checkingNetwork" /\ Goto(c, "probe")
    /\ UNCHANGED <<attempt, transport, selected, sessionStart, runnerVars>>

\* The ladder goes down one rung, and the head of the loop for the next attempt.
NextAttempt_Mutant(a, t) ==    \* the last failure leaves the state as it is
    /\ transport' = NextTransport(t)
    /\ attempt' = a + 1
    /\ state' = IF a + 1 < maxAttempts THEN "reconnecting" ELSE state

NextAttempt_Mutant2(a, t) ==   \* the attempt is not counted
    /\ transport' = NextTransport(t)
    /\ attempt' = a
    /\ state' = "reconnecting"

NextAttempt_Mutant3(a, t) ==   \* one attempt too many
    /\ transport' = NextTransport(t)
    /\ attempt' = a + 1
    /\ state' = IF a + 1 <= maxAttempts THEN "reconnecting" ELSE "configError"

NextAttempt(a, t) ==
    /\ transport' = NextTransport(t)
    /\ attempt' = a + 1
    /\ state' = IF a + 1 < maxAttempts THEN "reconnecting" ELSE "configError"

\* The catch block.  A failure replaces the endpoint's entry in the list by a copy;
\* a call that had looked up the entry before then holds one the list has not.
Caught(c, rec, a, t) ==
    /\ NextAttempt(a, t)
    /\ LET gone(d) == d # c /\ calls[d].pc # "done" /\ calls[d].ep = rec.ep
       IN  calls' = [d \in Calls |->
                        IF gone(d) THEN [calls[d] EXCEPT !.current = FALSE]
                        ELSE IF d # c THEN calls[d]
                        ELSE IF state' = "reconnecting" THEN [rec EXCEPT !.pc = "backoff"]
                        ELSE Done]

\* Endpoint selection for attempt a and, in the same turn, the parse of its link and
\* the build of its configuration, which may throw.
Select(c, a) ==
    LET picked(e) == [pc |-> "starting", ep |-> e, current |-> TRUE,
                      dials |-> Least(calls[c].dials + 1, maxAttempts + 1)]
    IN  IF Candidates(blackout) = {}
        THEN /\ state' = "configError" /\ attempt' = a /\ Return(c)
             /\ UNCHANGED <<transport, selected>>
        ELSE \E b \in Candidates(blackout) :
                /\ selected' = b[1]
                /\ \/ /\ transport' = b[2] /\ attempt' = a /\ state' = "handshake"
                      /\ calls' = [calls EXCEPT ![c] = picked(b[1])]
                   \/ Caught(c, picked(b[1]), a, b[2])

Probed(c) ==
    /\ calls[c].pc = "probe"
    /\ Select(c, 0)
    /\ UNCHANGED <<sessionStart, runnerVars>>

BackedOff(c) ==
    /\ calls[c].pc = "backoff"
    /\ Select(c, attempt)
    /\ UNCHANGED <<sessionStart, runnerVars>>

\* runner.start() threw.  An entry no longer in the list makes the catch block throw
\* in its turn, out of connect().
Failed(c) ==
    IF calls[c].current
    THEN Caught(c, calls[c], attempt, transport)
    ELSE Return(c) /\ UNCHANGED <<state, attempt, transport>>

StartFailed(c) ==
    /\ calls[c].pc = "starting"
    /\ Failed(c)
    /\ UNCHANGED <<selected, sessionStart, runnerVars>>

Spawned(c) ==
    /\ calls[c].pc = "starting"
    /\ spawn(calls[c].ep) /\ Goto(c, "probing")
    /\ UNCHANGED engineVars

ProbeFailed(c) ==
    /\ calls[c].pc = "probing" /\ ~_probeSocks
    /\ Failed(c)
    /\ UNCHANGED <<selected, sessionStart, runnerVars>>

Established(c) ==
    /\ calls[c].pc = "probing" /\ _probeSocks
    /\ state' = "connected" /\ sessionStart' = c /\ Return(c)
    /\ UNCHANGED <<attempt, transport, selected, runnerVars>>

(* disconnect() *)

disconnect ==
    /\ made < MaxCalls /\ made' = made + 1
    /\ kill /\ Goto(made + 1, "stopping")
    /\ UNCHANGED engineVars

Stopped_Mutant(c) ==           \* the session start time stays
    /\ calls[c].pc = "stopping"
    /\ state' = "idle" /\ Return(c)
    /\ UNCHANGED <<attempt, transport, selected, sessionStart, runnerVars>>

Stopped(c) ==
    /\ calls[c].pc = "stopping"
    /\ state' = "idle" /\ sessionStart' = 0 /\ Return(c)
    /\ UNCHANGED <<attempt, transport, selected, runnerVars>>

CallStep(c) ==
    /\ \/ Prepared(c) \/ Probed(c) \/ BackedOff(c) \/ StartFailed(c) \/ Spawned(c)
       \/ ProbeFailed(c) \/ Established(c) \/ Stopped(c)
    /\ UNCHANGED <<blackout, registered, made>>
-----------------------------------------------------------------------------
\* The dial's onTap.
onTap ==
    /\ Patient => InFlight = {}
    /\ IF state = "connected" THEN disconnect ELSE state \notin Busy /\ connect
    /\ UNCHANGED <<blackout, registered>>

setBlackout ==
    /\ blackout' = ~blackout
    /\ UNCHANGED <<engineVars, registered, made, calls, runnerVars>>

CoreStep ==
    /\ \E i \in Cores : Bind(i) \/ Exit(i)
    /\ UNCHANGED <<engineVars, blackout, registered, made, calls>>

\* The app is killed and started again; its children live on.
Restart ==
    /\ Restarts
    /\ state' = "idle" /\ attempt' = 0 /\ transport' = "reality_direct"
    /\ selected' = NoEndpoint /\ sessionStart' = 0
    /\ blackout' = FALSE
    /\ made' = 0 /\ calls' = [c \in Calls |-> Done]
    /\ proc' = 0
    /\ UNCHANGED <<registered, cores, listener>>

Next ==
    \/ onTap \/ setBlackout \/ CoreStep \/ Restart
    \/ \E c \in Calls : CallStep(c)

\* Every await ends; users, networks and children owe nothing.
Fairness == \A c \in Calls : WF_vars(CallStep(c))

Spec == Init /\ [][Next]_vars /\ Fairness
-----------------------------------------------------------------------------
(* Properties *)

\* A session start time is shown for a connected tunnel and for no other, unless a
\* call in flight is about to change the state.
SessionMatchesState ==
    InFlight = {} => (state = "connected" <=> sessionStart # 0)

\* A disconnected engine has no child it knows of: the tunnel it calls torn down is.
IdleHasNoChild == InFlight = {} /\ state = "idle" => proc = 0

\* A busy state is the work in progress of a call: the dial, which ignores taps while
\* it is busy, would otherwise never be usable again.  That holds although a call may die of a
\* second exception: whoever replaced its entry is still at work, or has given up.
BusyIsDriven == state \in Busy => Dialing # {}

\* Every call returns, whatever the other calls do.
CallsReturn == \A c \in Calls : (calls[c].pc # "done") ~> (calls[c].pc = "done")

\* What the calls in flight have still to do: those that select an endpoint for their first
\* attempt, which resets the count they share; the attempts left; the turns of an attempt.
Unselected == {w \in Calls \X (1..2) :
                  \/ calls[w[1]].pc = "prepare"
                  \/ calls[w[1]].pc = "probe" /\ w[2] = 1}
Unfinished == {w \in Calls \X (1..3) :
                  \/ calls[w[1]].pc = "backoff"
                  \/ calls[w[1]].pc = "starting" /\ w[2] <= 2
                  \/ calls[w[1]].pc \in {"probing", "stopping"} /\ w[2] = 1}
AttemptsLeft == IF attempt < maxAttempts THEN maxAttempts - attempt ELSE 0

Turns     == 3 * MaxCalls + 1
Turned    == AttemptsLeft * Turns + Cardinality(Unfinished)
StepsLeft == Cardinality(Unselected) * ((maxAttempts + 1) * Turns) + Turned

\* The calls in flight come to an end although they reset and count the attempts of one
\* another: each step of one is a step less, and only a tap or a start of the app adds any.
CallsAreFinite ==
    /\ [](StepsLeft \in Nat)
    /\ [][ /\ (\E c \in Calls : CallStep(c)) => StepsLeft' < StepsLeft
           /\ CoreStep \/ setBlackout => StepsLeft' = StepsLeft ]_vars

(* The engine implements the session of TunnelSession, for a patient user. *)
Phase == IF Dialing # {} THEN "dialing"
         ELSE IF state = "connected" THEN "up" ELSE "down"

Session == INSTANCE TunnelSession WITH
    MaxAttempts <- maxAttempts, phase <- Phase, session <- sessionStart,
    tries <- Least(attempt, maxAttempts - 1), last <- made - Cardinality(InFlight \ Dialing)

\* Every step of the engine is a step of TunnelSession or leaves it alone.
ImplementsSession == Session!Spec

(* What the code says and calls that overlap, or children that are slow, undo:   *)
(* RetriesAreBounded and IdleHasNoChild for a user who does not wait, the rest   *)
(* for every user.                                                               *)

\* A connect() makes at most maxAttempts attempts.
RetriesAreBounded == \A c \in Calls : calls[c].dials <= maxAttempts

\* After a disconnect() no child carries traffic any more.
DisconnectEndsCores ==
    [][ \A c \in Calls : calls[c].pc = "stopping" /\ calls'[c].pc = "done"
          => \A i \in Cores : cores'[i] = NoEndpoint ]_vars

\* A tunnel reported established runs through the endpoint reported.
EstablishedIsSelected ==
    [][ state # "connected" /\ state' = "connected" => cores[listener] = selected ]_vars

\* A retry dials the transport the ladder escalated to.
EscalationIsDialed ==
    [][ \A c \in Calls : calls[c].pc = "backoff" /\ calls'[c].pc = "starting" /\ ~blackout
          => transport' = transport ]_vars
=============================================================================
