---------------------------- MODULE TunnelSession ----------------------------
(***************************************************************************)
(* What any of the client's connection orchestrators promises its user: a  *)
(* tunnel is down, being dialled, up, or recovering from an interruption;   *)
(* a session exists exactly while it is up or recovering, is the same one   *)
(* before and after a recovery, and is never handed out twice; and a dial   *)
(* makes a bounded number of attempts, one after the other.                 *)
(***************************************************************************)
EXTENDS Integers

CONSTANTS MaxAttempts

VARIABLES phase, session, tries, last

vars == <<phase, session, tries, last>>

Phases == {"down", "dialing", "up", "recovering"}

Init == phase = "down" /\ session = 0 /\ tries = 0 /\ last = 0

\* A request of the user: a new dial, or a dial that replaces none.
Dial ==
    /\ phase = "down" /\ phase' = "dialing"
    /\ tries' = 0 /\ session' = 0 /\ last' > last

\* The attempt in progress failed and the next one begins.
Retry ==
    /\ phase = "dialing" /\ phase' = "dialing"
    /\ tries + 1 < MaxAttempts /\ tries' = tries + 1
    /\ UNCHANGED <<session, last>>

Establish ==
    /\ phase = "dialing" /\ phase' = "up"
    /\ session' = last
    /\ UNCHANGED <<tries, last>>

Interrupt == phase = "up" /\ phase' = "recovering" /\ UNCHANGED <<session, tries, last>>
Recover   == phase = "recovering" /\ phase' = "up" /\ UNCHANGED <<session, tries, last>>

GiveUp == phase = "dialing" /\ phase' = "down" /\ UNCHANGED <<session, tries, last>>

\* Torn down by the user or a policy, in any phase; a refused request is one too.
Close ==
    /\ phase' = "down" /\ session' = 0
    /\ UNCHANGED tries /\ last' > last

\* The program is started again.
Restart == phase' = "down" /\ session' = 0 /\ tries' = 0 /\ last' = 0

Next == Dial \/ Retry \/ Establish \/ Interrupt \/ Recover \/ GiveUp \/ Close \/ Restart

Spec == Init /\ [][Next]_vars
=============================================================================
