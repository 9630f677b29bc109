----------------------------- MODULE XrayRunner -----------------------------
(***************************************************************************)
(* The Windows transport runner of the client                              *)
(* (apps/vor_client/lib/core/transport_runner.dart, WindowsXrayRunner): one *)
(* xray.exe child per start(), of which the runner remembers the last; each *)
(* child tries to listen on the one SOCKS port 127.0.0.1:10808, and start() *)
(* takes any listener there for its own.  The children are detached: they   *)
(* outlive the runner and the app.                                          *)
(*                                                                         *)
(* A child may end at any time: it crashed, found its port taken, or its    *)
(* configuration file was deleted by a stop() running concurrently.         *)
(***************************************************************************)
EXTENDS Integers

CONSTANTS Endpoints, NoEndpoint,
          MaxCores          \* bound: children alive at a time

ASSUME CoreAssumption == MaxCores \in Nat /\ NoEndpoint \notin Endpoints

VARIABLES cores,    \* child -> the endpoint it was configured for
          proc,     \* _proc: the child started last, 0 for none or an ended one
          listener  \* the child that owns the SOCKS port, 0 for none

runnerVars == <<cores, proc, listener>>

Cores == 1..MaxCores
Free  == {i \in Cores : cores[i] = NoEndpoint}

RunnerInit == cores = [i \in Cores |-> NoEndpoint] /\ proc = 0 /\ listener = 0

\* Process.start, and _proc = ... ; a child started before is neither killed nor kept.
spawn(e) ==
    /\ Free # {}
    /\ LET i == CHOOSE f \in Free : \A g \in Free : f <= g
       IN  cores' = [cores EXCEPT ![i] = e] /\ proc' = i
    /\ UNCHANGED listener

Gone(i) ==
    /\ cores' = [cores EXCEPT ![i] = NoEndpoint]
    /\ listener' = IF listener = i THEN 0 ELSE listener

kill_Mutant == UNCHANGED runnerVars     \* lets the child live

\* The part of stop() before its first await.
kill ==
    /\ proc' = 0
    /\ IF proc = 0 THEN UNCHANGED <<cores, listener>> ELSE Gone(proc)

_probeSocks == listener # 0

Bind(i) ==
    /\ cores[i] # NoEndpoint /\ listener = 0
    /\ listener' = i
    /\ UNCHANGED <<cores, proc>>

Exit(i) ==
    /\ cores[i] # NoEndpoint
    /\ Gone(i)
    /\ proc' = IF proc = i THEN 0 ELSE proc

=============================================================================
