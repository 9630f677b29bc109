------------------------------ MODULE Watchdog ------------------------------
(***************************************************************************)
(* The OpenWrt package (openwrt/luci-app-vor/root): the watchdog that cron  *)
(* runs every minute (usr/bin/vor-watchdog), the service it restarts        *)
(* (etc/init.d/vor) and the countermeasures the service arms                *)
(* (usr/bin/vor-countermeasure), over the UCI configuration they share with *)
(* the LuCI form (luasrc/model/cbi/vor.lua).                                *)
(*                                                                         *)
(* A step is what a script does between two probes, sleeps or halves of a   *)
(* service restart; another tick, the operator, the network or a power cut  *)
(* may come in between.  uci get, set and commit of one step are atomic.    *)
(*                                                                         *)
(* cron starts a tick every 60 s even when one still runs, so each tick     *)
(* carries the most seconds it may have taken: `-m 6` for a probe, 8 for    *)
(* the sleep, RestartSeconds for a restart.                                 *)
(*                                                                         *)
(* Abstracted: of dns.mode, clienthello_split and mss_clamp, which change   *)
(* together, dns and the clamp are kept (the VOR_SPLIT chain is hooked      *)
(* nowhere); port hopping; xray itself, which passes traffic or does not.   *)
(***************************************************************************)
EXTENDS Integers, FiniteSetsExt, Functions

CONSTANTS
    MAX_TRIES,       \* 3 in the script
    Healthy,         \* 5: the streak that ends a blackout
    RestartSeconds,  \* a service restart takes at most this long
    Ticks,           \* bound: ticks alive at a time
    Operator,        \* whether the LuCI form and the service commands are used
    Reality          \* whether the endpoint has a Reality public key

ASSUME WatchdogAssumption == /\ MAX_TRIES \in Nat \ {0} /\ Healthy \in Nat \ {0}
                             /\ RestartSeconds \in Nat /\ "operator" \notin Ticks
                             /\ Operator \in BOOLEAN /\ Reality \in BOOLEAN

VARIABLES
    uci,     \* /etc/config/vor
    svc,     \* the service: xray, what it was rendered from, the iptables clamp, the cron line
    streak,  \* /var/run/vor.state
    procs,   \* the ticks and the operator's shell
    net,     \* "open", "cut" (abroad unreachable) or "dark" (everything is)
    path,    \* whether a running tunnel would carry traffic now
    saved,   \* history: the form was saved and no start has read it yet
    healthy  \* history: ticks in a row that found tunnel and abroad reachable

vars == <<uci, svc, streak, procs, net, path, saved, healthy>>
-----------------------------------------------------------------------------
TIMEOUT == 6
Minute  == 60

ladder == <<"reality_direct", "ws_tls_cdn", "grpc_tls", "httpupgrade_cdn", "ss2022">>
CdnClass   == {"ws_tls_cdn", "httpupgrade_cdn"}
Transports == {"auto"} \cup Range(ladder)

\* The case statement of try_connect, but for its last arm.
Rung(t) == IF t = "auto" THEN "ws_tls_cdn"
           ELSE ladder[1 + CHOOSE i \in 1..4 : ladder[i] = t]

Procs == Ticks \cup {"operator"}
Gone  == [pc |-> "gone", then |-> "gone", tries |-> 0, spent |-> 0]

tunnel_ok   == svc.up /\ path
intl_ok     == net = "open"
domestic_ok == net # "dark"
-----------------------------------------------------------------------------
(* /etc/init.d/vor *)

\* start_service over the configuration at that moment; xray.json of a Reality
\* endpoint is the direct stream, whatever the transport.  A start that renders
\* nothing changes nothing.
Started(s) ==
    IF uci.enabled /\ uci.address
    THEN [up |-> TRUE, stream |-> IF Reality THEN "reality" ELSE "ws",
          dns |-> uci.dns, clamp |-> s.clamp \/ uci.clamp, armed |-> TRUE]
    ELSE s

Stopped_Mutant(s) == [s EXCEPT !.up = FALSE, !.armed = FALSE]  \* leaves the rules

Stopped(s) == [s EXCEPT !.up = FALSE, !.clamp = FALSE, !.armed = FALSE]

\* The process goes on at pc, after an operation of at most s seconds.
Goto(p, pc, s) ==
    procs' = [procs EXCEPT ![p].pc = pc, ![p].spent = Min({@ + s, Minute})]
Exit(p) == procs' = [procs EXCEPT ![p] = Gone]
\* The same, with `/etc/init.d/vor restart` before the script goes on.
Restart(p, then, s) ==
    procs' = [procs EXCEPT ![p].pc = "stop", ![p].then = then, ![p].spent = Min({@ + s, Minute})]

\* rc.common's stop takes the lock of the service, which the restart keeps until its
\* process ends: no two restarts overlap.
StopService(p) ==
    /\ procs[p].pc = "stop" /\ \A q \in Procs : procs[q].pc # "start"
    /\ svc' = Stopped(svc) /\ Goto(p, "start", 0)
    /\ UNCHANGED <<uci, streak, saved, healthy>>

StartService(p) ==
    /\ procs[p].pc = "start"
    /\ svc' = Started(svc) /\ saved' = FALSE
    /\ streak' = IF procs[p].then = "cleared" THEN 0 ELSE streak
    /\ IF procs[p].then \in {"gone", "cleared"} THEN Exit(p)
       ELSE Goto(p, procs[p].then, RestartSeconds)
    /\ UNCHANGED <<uci, healthy>>
-----------------------------------------------------------------------------
(* /usr/bin/vor-watchdog tick *)

\* cron, with a line for the watchdog; a tick that finds enabled = 0 exits at once.
Begin(p) ==
    /\ svc.armed /\ uci.enabled /\ procs[p] = Gone
    /\ \A q \in Ticks : procs[q].pc # "gone" => procs[q].spent = Minute
    /\ Goto(p, "tunnel", 0)
    /\ UNCHANGED <<uci, svc, streak, saved, healthy>>

ProbeTunnel(p) ==
    /\ procs[p].pc = "tunnel"
    /\ Goto(p, IF tunnel_ok THEN "intl" ELSE "domestic", TIMEOUT)
    /\ healthy' = IF tunnel_ok THEN healthy ELSE 0
    /\ UNCHANGED <<uci, svc, streak, saved>>

clear_blackout ==
    uci' = [uci EXCEPT !.blackout = FALSE, !.transport = "auto", !.dns = "doh", !.clamp = FALSE]

\* The tunnel is up.
HealthyTick_Mutant(p) ==       \* the streak is written before it is counted
    /\ intl_ok
    /\ healthy' = Min({healthy + 1, Healthy})
    /\ streak' = IF streak + 1 >= Healthy /\ ~uci.blackout THEN 0 ELSE streak
    /\ IF streak >= Healthy /\ uci.blackout
       THEN clear_blackout /\ Restart(p, "cleared", 0)
       ELSE UNCHANGED uci /\ Exit(p)

HealthyTick(p) ==
    /\ intl_ok
    /\ healthy' = Min({healthy + 1, Healthy})
    /\ IF streak + 1 < Healthy
       THEN streak' = streak + 1 /\ UNCHANGED uci /\ Exit(p)
       ELSE IF uci.blackout
            THEN clear_blackout /\ Restart(p, "cleared", 0) /\ UNCHANGED streak
            ELSE streak' = 0 /\ UNCHANGED uci /\ Exit(p)

SeveredTick(p) ==
    /\ ~intl_ok
    /\ healthy' = 0 /\ streak' = 0 /\ Exit(p)
    /\ UNCHANGED uci

ProbeAbroad(p) ==
    /\ procs[p].pc = "intl"
    /\ HealthyTick(p) \/ SeveredTick(p)
    /\ UNCHANGED <<svc, saved>>

\* The tunnel is down.
ProbeDomestic(p) ==
    /\ procs[p].pc = "domestic"
    /\ Goto(p, IF domestic_ok THEN "severed" ELSE "logging", TIMEOUT)
    /\ UNCHANGED <<uci, svc, streak, saved, healthy>>

set_blackout(p) ==
    IF uci.blackout THEN UNCHANGED uci /\ Goto(p, "try", TIMEOUT)
    ELSE /\ uci' = [uci EXCEPT !.blackout = TRUE, !.transport = "ws_tls_cdn",
                               !.dns = "bootstrap", !.clamp = TRUE]
         /\ Restart(p, "try", TIMEOUT)

ProbeSevered_Mutant(p) ==      \* the two probes swapped
    /\ procs[p].pc = "severed"
    /\ IF ~intl_ok THEN Goto(p, "logging", TIMEOUT) /\ UNCHANGED uci ELSE set_blackout(p)
    /\ UNCHANGED <<svc, streak, saved, healthy>>

ProbeSevered(p) ==
    /\ procs[p].pc = "severed"
    /\ IF intl_ok THEN Goto(p, "logging", TIMEOUT) /\ UNCHANGED uci ELSE set_blackout(p)
    /\ UNCHANGED <<svc, streak, saved, healthy>>

\* The probe whose answer is only logged.
Log(p) ==
    /\ procs[p].pc = "logging"
    /\ Goto(p, "try", TIMEOUT)
    /\ UNCHANGED <<uci, svc, streak, saved, healthy>>

try_connect_Mutant(p) ==       \* the last rung goes round the loop and counts no try
    /\ procs[p].pc = "try"
    /\ IF tunnel_ok THEN Exit(p) /\ UNCHANGED uci
       ELSE IF uci.transport = "ss2022" THEN Goto(p, "try", TIMEOUT) /\ UNCHANGED uci
       ELSE /\ uci' = [uci EXCEPT !.transport = Rung(@)]
            /\ Restart(p, "sleep", TIMEOUT)
    /\ UNCHANGED <<svc, streak, saved, healthy>>

\* One round of try_connect: the tunnel works, or the ladder has another rung, or not.
try_connect(p) ==
    /\ procs[p].pc = "try"
    /\ IF tunnel_ok \/ uci.transport = "ss2022"
       THEN Exit(p) /\ UNCHANGED uci
       ELSE /\ uci' = [uci EXCEPT !.transport = Rung(@)]
            /\ Restart(p, "sleep", TIMEOUT)
    /\ UNCHANGED <<svc, streak, saved, healthy>>

Sleep(p) ==
    /\ procs[p].pc = "sleep"
    /\ IF procs[p].tries + 1 < MAX_TRIES
       THEN procs' = [procs EXCEPT ![p].pc = "try", ![p].tries = @ + 1,
                                   ![p].spent = Min({@ + 8, Minute})]
       ELSE Exit(p)
    /\ UNCHANGED <<uci, svc, streak, saved, healthy>>

Step(p) ==
    /\ \/ ProbeTunnel(p) \/ ProbeAbroad(p) \/ ProbeDomestic(p) \/ ProbeSevered(p)
       \/ Log(p) \/ try_connect(p) \/ Sleep(p) \/ StopService(p) \/ StartService(p)
    /\ UNCHANGED <<net, path>>
-----------------------------------------------------------------------------
(* The operator, the network and the power *)

\* Save & Apply of the form: no service command follows.
Save ==
    /\ Operator
    /\ \/ \E key \in {"enabled", "address", "blackout", "clamp"} : uci' = [uci EXCEPT ![key] = ~@]
       \/ \E t \in Transports : uci' = [uci EXCEPT !.transport = t]
    /\ saved' = TRUE
    /\ UNCHANGED <<svc, streak, procs, net, path, healthy>>

restart ==
    /\ Operator /\ procs["operator"] = Gone
    /\ Restart("operator", "gone", 0)
    /\ UNCHANGED <<uci, svc, streak, net, path, saved, healthy>>

Weather ==
    /\ net' \in {"open", "cut", "dark"} /\ path' \in BOOLEAN
    /\ UNCHANGED <<uci, svc, streak, procs, saved, healthy>>

\* A power cut at any time and the next boot: the configuration and the crontab
\* are in flash, the state file and the iptables rules are not.
Reboot ==
    /\ Operator
    /\ procs' = [p \in Procs |-> Gone]
    /\ streak' = 0 /\ saved' = FALSE /\ healthy' = 0
    /\ svc' = Started([svc EXCEPT !.up = FALSE, !.clamp = FALSE])
    /\ UNCHANGED <<uci, net, path>>

Init ==
    /\ uci = [enabled |-> TRUE, address |-> TRUE, blackout |-> FALSE,
              transport |-> "auto", dns |-> "doh", clamp |-> FALSE]
    /\ svc = Started([up |-> FALSE, stream |-> "ws", dns |-> "doh", clamp |-> FALSE,
                      armed |-> FALSE])
    /\ streak = 0 /\ procs = [p \in Procs |-> Gone]
    /\ net = "open" /\ path = TRUE
    /\ saved = FALSE /\ healthy = 0

Tick == \E p \in Ticks : Begin(p) /\ UNCHANGED <<net, path>>

Next == Tick \/ (\E p \in Procs : Step(p)) \/ Save \/ restart \/ Weather \/ Reboot

\* cron fires and a script goes on; nothing is owed by operator, network or power.
Fairness == WF_vars(Tick) /\ \A p \in Procs : WF_vars(Step(p))

Spec == Init /\ [][Next]_vars /\ Fairness
-----------------------------------------------------------------------------
(* Properties *)

Restarting == \E p \in Procs : procs[p].pc \in {"stop", "start"}

\* Whatever the ticks, the operator and power cuts did, once no restart is under way
\* the service is what the configuration says (unless the form was saved and nobody
\* restarted it): up, watched by cron, with its dns and its clamp, or not up at all.
ConfigIsApplied ==
    ~Restarting /\ ~saved =>
        IF uci.enabled /\ uci.address
        THEN svc.up /\ svc.armed /\ svc.dns = uci.dns /\ svc.clamp = uci.clamp
        ELSE ~svc.up

\* A tick ends: it gives up after its tries.
TicksEnd == \A p \in Ticks : (procs[p].pc # "gone") ~> (procs[p].pc = "gone")

\* The steps a process has still to make, at most.
ToGo(r) ==
    LET rounds == 4 * (MAX_TRIES - 1 - r.tries)
    IN  CASE r.pc = "gone"     -> 0
          [] r.pc = "sleep"    -> rounds + 1
          [] r.pc = "try"      -> rounds + 4
          [] r.pc = "logging"  -> rounds + 5
          [] r.pc = "severed"  -> rounds + 7
          [] r.pc = "domestic" -> rounds + 8
          [] r.pc = "tunnel"   -> rounds + 9
          [] r.pc = "intl"     -> 3
          [] r.pc = "start"    -> CASE r.then = "try" -> rounds + 5 [] r.then = "sleep" -> rounds + 2 [] OTHER -> 1
          [] r.pc = "stop"     -> CASE r.then = "try" -> rounds + 6 [] r.then = "sleep" -> rounds + 3 [] OTHER -> 2

\* A tick is 17 steps long at most (for three tries): each step of its brings it nearer to
\* its end, and nobody else's takes it further away.
TicksAreShort ==
    /\ [](\A p \in Procs : ToGo(procs[p]) \in 0..(9 + 4 * (MAX_TRIES - 1)))
    /\ [][ \A p \in Procs : procs[p].pc # "gone" =>
              /\ ToGo(procs'[p]) <= ToGo(procs[p])
              /\ Step(p) => ToGo(procs'[p]) < ToGo(procs[p]) ]_vars

\* When the tunnel stays down and only abroad stays unreachable, the blackout mode is
\* entered and kept.
BlackoutEngages == <>[](net = "cut" /\ ~path) => <>[]uci.blackout

\* When abroad stays reachable and the tunnel works, the blackout mode is left.
BlackoutEnds == <>[](net = "open" /\ path) => <>[](~uci.blackout)

(* What comments and documents say and the scripts do not. *)

\* Only five healthy ticks in a row end a blackout.
ClearedAfterFive == [][ uci.blackout /\ ~uci'.blackout => healthy' = Healthy ]_vars

\* In a blackout the service runs a CDN stream.
BlackoutDialsCdn == ~Restarting /\ uci.blackout /\ svc.up => svc.stream = "ws"

\* In a blackout the transport is one of the CDN class.
BlackoutKeepsCdn == uci.blackout => uci.transport \in CdnClass

\* While the tunnel stays down the ladder is walked again and again.
LadderIsWalked == <>[](~path) => []<>Restarting
=============================================================================
