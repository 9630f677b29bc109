---------------------------- MODULE WatchdogProofs ----------------------------
(***************************************************************************)
(* A theorem about Watchdog, for any number of ticks at a time and any       *)
(* bounds: whatever the ticks, the form, the operator's shell and power cuts *)
(* did, the service ends up running what the configuration says.             *)
(*                                                                         *)
(* The argument: whoever changes the configuration, but for the form, goes on *)
(* to restart the service; a start reads it after a stop by the same process, *)
(* and nobody else starts or stops in between (OneStarts, StartsClean).       *)
(***************************************************************************)
EXTENDS Watchdog, TLAPS

Pcs   == {"gone", "stop", "start", "tunnel", "intl", "domestic", "severed", "logging", "try", "sleep"}
Thens == {"gone", "cleared", "try", "sleep"}

Shape(r) == r = [pc |-> r.pc, then |-> r.then, tries |-> r.tries, spent |-> r.spent]

\* Types, as far as the argument needs them.
Types ==
    /\ DOMAIN procs = Procs
    /\ \A p \in Procs : Shape(procs[p]) /\ procs[p].pc \in Pcs /\ procs[p].then \in Thens
    /\ uci = [enabled |-> uci.enabled, address |-> uci.address, blackout |-> uci.blackout,
              transport |-> uci.transport, dns |-> uci.dns, clamp |-> uci.clamp]
    /\ uci.enabled \in BOOLEAN /\ uci.address \in BOOLEAN /\ uci.clamp \in BOOLEAN
    /\ svc = [up |-> svc.up, stream |-> svc.stream, dns |-> svc.dns, clamp |-> svc.clamp,
              armed |-> svc.armed]
    /\ svc.up \in BOOLEAN /\ svc.clamp \in BOOLEAN

\* The lock of the service: one process at a time is between its stop and its start.
OneStarts == \A p, q \in Procs : procs[p].pc = "start" /\ procs[q].pc = "start" => p = q

\* Until it starts, the service is down and its clamp is gone.
StartsClean == (\E p \in Procs : procs[p].pc = "start") => ~svc.up /\ ~svc.clamp

WInv == Types /\ OneStarts /\ StartsClean /\ ConfigIsApplied
-----------------------------------------------------------------------------
(* What the moves of a process do to the processes. *)

Moved(p, pc, then) ==
    /\ DOMAIN procs' = Procs
    /\ \A q \in Procs \ {p} : procs'[q] = procs[q]
    /\ Shape(procs'[p]) /\ procs'[p].pc = pc /\ procs'[p].then = then

LEMMA GotoMoves ==
    ASSUME Types, NEW p \in Procs, NEW pc, NEW s, Goto(p, pc, s)
    PROVE  Moved(p, pc, procs[p].then) /\ procs'[p].tries = procs[p].tries
  <1>1. PICK pc0, th, tr, sp : pc0 = procs[p].pc /\ th = procs[p].then /\ tr = procs[p].tries /\ sp = procs[p].spent
    OBVIOUS
  <1>2. procs[p] = [pc |-> pc0, then |-> th, tries |-> tr, spent |-> sp]
    BY <1>1 DEF Types, Shape
  <1>3. PICK mid : mid = [procs EXCEPT ![p].pc = pc]
    OBVIOUS
  <1>4. PICK m1 : m1 = [pc |-> pc, then |-> th, tries |-> tr, spent |-> sp]
    OBVIOUS
  <1>5. PICK old : old = procs[p]
    OBVIOUS
  <1>6. [old EXCEPT !.pc = pc] = m1
    BY <1>2, <1>4, <1>5
  <1>7. mid = [procs EXCEPT ![p] = m1]
    BY <1>3, <1>5, <1>6
  <1>8. DOMAIN mid = Procs /\ mid[p] = m1 /\ \A q \in Procs \ {p} : mid[q] = procs[q]
    BY <1>7 DEF Types
  <1>9. PICK t : t = Min({mid[p].spent + s, Minute})
    OBVIOUS
  <1>10. PICK m2 : m2 = [pc |-> pc, then |-> th, tries |-> tr, spent |-> t]
    OBVIOUS
  <1>11. [m1 EXCEPT !.spent = t] = m2
    BY <1>4, <1>10
  <1>12. procs' = [mid EXCEPT ![p] = m2]
    <2>1. procs' = [mid EXCEPT ![p].spent = t]
      BY <1>3, <1>9 DEF Goto
    <2>2. QED
      BY <2>1, <1>8, <1>11
  <1>13. /\ DOMAIN procs' = Procs /\ procs'[p] = m2
         /\ \A q \in Procs \ {p} : procs'[q] = procs[q]
    BY <1>8, <1>12
  <1>14. m2.pc = pc /\ m2.then = th /\ m2.tries = tr /\ Shape(m2)
    BY <1>10 DEF Shape
  <1>15. QED
    BY <1>1, <1>13, <1>14 DEF Moved

LEMMA RestartMoves ==
    ASSUME Types, NEW p \in Procs, NEW then, NEW s, Restart(p, then, s)
    PROVE  Moved(p, "stop", then) /\ procs'[p].tries = procs[p].tries
  <1>1. PICK pc0, th, tr, sp : pc0 = procs[p].pc /\ th = procs[p].then /\ tr = procs[p].tries /\ sp = procs[p].spent
    OBVIOUS
  <1>2. PICK old : old = procs[p]
    OBVIOUS
  <1>3. old = [pc |-> pc0, then |-> th, tries |-> tr, spent |-> sp]
    BY <1>1, <1>2 DEF Types, Shape
  <1>4. PICK m1 : m1 = [pc |-> "stop", then |-> th, tries |-> tr, spent |-> sp]
    OBVIOUS
  <1>5. [old EXCEPT !.pc = "stop"] = m1
    BY <1>3, <1>4
  <1>6. PICK f1 : f1 = [procs EXCEPT ![p].pc = "stop"]
    OBVIOUS
  <1>7. f1 = [procs EXCEPT ![p] = m1]
    BY <1>2, <1>5, <1>6
  <1>8. DOMAIN f1 = Procs /\ f1[p] = m1 /\ \A q \in Procs \ {p} : f1[q] = procs[q]
    BY <1>7 DEF Types
  <1>9. PICK m2 : m2 = [pc |-> "stop", then |-> then, tries |-> tr, spent |-> sp]
    OBVIOUS
  <1>10. [m1 EXCEPT !.then = then] = m2
    BY <1>4, <1>9
  <1>11. PICK f2 : f2 = [f1 EXCEPT ![p].then = then]
    OBVIOUS
  <1>12. f2 = [f1 EXCEPT ![p] = m2]
    BY <1>8, <1>10, <1>11
  <1>13. DOMAIN f2 = Procs /\ f2[p] = m2 /\ \A q \in Procs \ {p} : f2[q] = procs[q]
    BY <1>8, <1>12
  <1>14. PICK t : t = Min({f2[p].spent + s, Minute})
    OBVIOUS
  <1>15. PICK m3 : m3 = [pc |-> "stop", then |-> then, tries |-> tr, spent |-> t]
    OBVIOUS
  <1>16. [m2 EXCEPT !.spent = t] = m3
    BY <1>9, <1>15
  <1>17. procs' = [f2 EXCEPT ![p] = m3]
    <2>1. procs' = [f2 EXCEPT ![p].spent = t]
      BY <1>6, <1>11, <1>14 DEF Restart
    <2>2. QED
      BY <2>1, <1>13, <1>16
  <1>18. /\ DOMAIN procs' = Procs /\ procs'[p] = m3
         /\ \A q \in Procs \ {p} : procs'[q] = procs[q]
    BY <1>13, <1>17
  <1>19. m3.pc = "stop" /\ m3.then = then /\ m3.tries = tr /\ Shape(m3)
    BY <1>15 DEF Shape
  <1>20. QED
    BY <1>1, <1>18, <1>19 DEF Moved

LEMMA ExitMoves ==
    ASSUME Types, NEW p \in Procs, Exit(p)
    PROVE  Moved(p, "gone", "gone") /\ procs'[p].tries = 0
  <1>1. Gone.pc = "gone" /\ Gone.then = "gone" /\ Gone.tries = 0 /\ Shape(Gone)
    BY DEF Gone, Shape
  <1>2. /\ DOMAIN procs' = Procs /\ procs'[p] = Gone
        /\ \A q \in Procs \ {p} : procs'[q] = procs[q]
    BY DEF Exit, Types
  <1>3. QED
    BY <1>1, <1>2 DEF Moved

\* The sleep between two rounds of the ladder.
LEMMA SleepMoves ==
    ASSUME Types, NEW p \in Procs,
           procs' = [procs EXCEPT ![p].pc = "try", ![p].tries = @ + 1, ![p].spent = Min({@ + 8, Minute})]
    PROVE  Moved(p, "try", procs[p].then) /\ procs'[p].tries = procs[p].tries + 1
  <1>1. PICK pc0, th, tr, sp : pc0 = procs[p].pc /\ th = procs[p].then /\ tr = procs[p].tries /\ sp = procs[p].spent
    OBVIOUS
  <1>2. PICK old : old = procs[p]
    OBVIOUS
  <1>3. old = [pc |-> pc0, then |-> th, tries |-> tr, spent |-> sp] /\ th \in Thens /\ DOMAIN procs = Procs
    BY <1>1, <1>2 DEF Types, Shape
  <1>4. PICK m1 : m1 = [old EXCEPT !.pc = "try"]
    OBVIOUS
  <1>5. m1 = [pc |-> "try", then |-> th, tries |-> tr, spent |-> sp]
    BY <1>3, <1>4
  <1>6. PICK f1 : f1 = [procs EXCEPT ![p].pc = "try"]
    OBVIOUS
  <1>7. DOMAIN f1 = Procs /\ f1[p] = m1 /\ \A q \in Procs \ {p} : f1[q] = procs[q]
    BY <1>2, <1>3, <1>4, <1>6
  <1>8. PICK m2 : m2 = [m1 EXCEPT !.tries = tr + 1]
    OBVIOUS
  <1>9. m2 = [pc |-> "try", then |-> th, tries |-> tr + 1, spent |-> sp]
    BY <1>5, <1>8
  <1>10. PICK f2 : f2 = [f1 EXCEPT ![p].tries = @ + 1]
    OBVIOUS
  <1>11. f2 = [f1 EXCEPT ![p] = m2]
    BY <1>5, <1>7, <1>8, <1>10
  <1>12. DOMAIN f2 = Procs /\ f2[p] = m2 /\ \A q \in Procs \ {p} : f2[q] = procs[q]
    BY <1>7, <1>11
  <1>13. PICK t : t = Min({f2[p].spent + 8, Minute})
    OBVIOUS
  <1>14. PICK m3 : m3 = [m2 EXCEPT !.spent = t]
    OBVIOUS
  <1>15. m3 = [pc |-> "try", then |-> th, tries |-> tr + 1, spent |-> t]
    BY <1>9, <1>14
  <1>16. procs' = [f2 EXCEPT ![p] = m3]
    <2>1. procs' = [f2 EXCEPT ![p].spent = t]
      BY <1>6, <1>10, <1>13
    <2>2. QED
      BY <2>1, <1>12, <1>14
  <1>17. /\ DOMAIN procs' = Procs /\ procs'[p] = m3
         /\ \A q \in Procs \ {p} : procs'[q] = procs[q]
    BY <1>12, <1>16
  <1>18. m3.pc = "try" /\ m3.then = th /\ m3.tries = tr + 1 /\ Shape(m3)
    BY <1>15 DEF Shape
  <1>19. QED
    BY <1>1, <1>17, <1>18 DEF Moved

\* A move keeps the types of the processes.
LEMMA MovedTypes ==
    ASSUME Types, NEW p \in Procs, NEW pc \in Pcs, NEW then \in Thens, Moved(p, pc, then)
    PROVE  /\ DOMAIN procs' = Procs
           /\ \A q \in Procs : Shape(procs'[q]) /\ procs'[q].pc \in Pcs /\ procs'[q].then \in Thens
  BY DEF Types, Moved
-----------------------------------------------------------------------------
UciTypes ==
    /\ uci = [enabled |-> uci.enabled, address |-> uci.address, blackout |-> uci.blackout,
              transport |-> uci.transport, dns |-> uci.dns, clamp |-> uci.clamp]
    /\ uci.enabled \in BOOLEAN /\ uci.address \in BOOLEAN /\ uci.clamp \in BOOLEAN
SvcTypes ==
    /\ svc = [up |-> svc.up, stream |-> svc.stream, dns |-> svc.dns, clamp |-> svc.clamp,
              armed |-> svc.armed]
    /\ svc.up \in BOOLEAN /\ svc.clamp \in BOOLEAN

\* A process that is not restarting anything goes on with something else.
LEMMA GoesOn ==
    ASSUME WInv, NEW p \in Procs, NEW pc \in Pcs \ {"stop", "start"}, NEW then \in Thens,
           Moved(p, pc, then), procs[p].pc \notin {"stop", "start"}, UNCHANGED <<uci, svc, saved>>
    PROVE  WInv'
  <1>1. Types'
    BY MovedTypes DEF WInv, Types
  <1>2. \A q \in Procs : /\ procs'[q].pc = "start" <=> procs[q].pc = "start"
                         /\ procs'[q].pc = "stop" <=> procs[q].pc = "stop"
    BY DEF Moved
  <1>3. OneStarts' /\ StartsClean'
    BY <1>2 DEF WInv, OneStarts, StartsClean
  <1>4. ConfigIsApplied'
    BY <1>2 DEF WInv, ConfigIsApplied, Restarting
  <1>5. QED
    BY <1>1, <1>3, <1>4 DEF WInv

\* A process decides to restart the service, and may have changed the configuration.
LEMMA WillRestart ==
    ASSUME WInv, NEW p \in Procs, NEW then \in Thens, Moved(p, "stop", then),
           procs[p].pc # "start", svc' = svc, UciTypes'
    PROVE  WInv'
  <1>1. Types'
    BY MovedTypes DEF WInv, Types, UciTypes, Pcs
  <1>2. \A q \in Procs : procs'[q].pc = "start" => procs[q].pc = "start"
    BY DEF Moved
  <1>3. OneStarts' /\ StartsClean'
    BY <1>2 DEF WInv, OneStarts, StartsClean
  <1>4. ConfigIsApplied'
    BY DEF Moved, ConfigIsApplied, Restarting
  <1>5. QED
    BY <1>1, <1>3, <1>4 DEF WInv

\* What a start makes of a service that is down.
LEMMA StartedIs ==
    ASSUME UciTypes, NEW s, s.up = FALSE, s.clamp = FALSE,
           s = [up |-> s.up, stream |-> s.stream, dns |-> s.dns, clamp |-> s.clamp, armed |-> s.armed],
           NEW new, new = Started(s)
    PROVE  /\ new = [up |-> new.up, stream |-> new.stream, dns |-> new.dns, clamp |-> new.clamp,
                     armed |-> new.armed]
           /\ new.up \in BOOLEAN /\ new.clamp \in BOOLEAN
           /\ IF uci.enabled /\ uci.address
              THEN new.up /\ new.armed /\ new.dns = uci.dns /\ new.clamp = uci.clamp
              ELSE ~new.up
  <1>1. CASE uci.enabled /\ uci.address
    <2>1. PICK st : st = IF Reality THEN "reality" ELSE "ws"
      OBVIOUS
    <2>2. PICK d, c : d = uci.dns /\ c = uci.clamp
      OBVIOUS
    <2>3. (s.clamp \/ uci.clamp) = c
      BY <2>2 DEF UciTypes
    <2>4. new = [up |-> TRUE, stream |-> st, dns |-> d, clamp |-> c, armed |-> TRUE]
      BY <1>1, <2>1, <2>2, <2>3 DEF Started
    <2>5. new.up = TRUE /\ new.stream = st /\ new.dns = d /\ new.clamp = c /\ new.armed = TRUE
      BY <2>4
    <2>6. new = [up |-> new.up, stream |-> new.stream, dns |-> new.dns, clamp |-> new.clamp,
                 armed |-> new.armed]
      BY <2>4, <2>5
    <2>7. QED
      BY <1>1, <2>2, <2>5, <2>6 DEF UciTypes
  <1>2. CASE ~(uci.enabled /\ uci.address)
    BY <1>2 DEF Started
  <1>3. QED
    BY <1>1, <1>2

LEMMA StopKeeps == ASSUME WInv, NEW p \in Procs, StopService(p) PROVE WInv'
  <1>1. /\ procs[p].pc = "stop" /\ \A q \in Procs : procs[q].pc # "start"
        /\ svc' = Stopped(svc) /\ Goto(p, "start", 0) /\ UNCHANGED <<uci, saved>>
    BY DEF StopService
  <1>2. PICK then \in Thens : then = procs[p].then
    BY DEF WInv, Types
  <1>3. Moved(p, "start", then)
    BY <1>1, <1>2, GotoMoves DEF WInv
  <1>4. svc' = [up |-> FALSE, stream |-> svc.stream, dns |-> svc.dns, clamp |-> FALSE, armed |-> FALSE]
    <2>1. PICK old : old = svc
      OBVIOUS
    <2>2. PICK u, st, d, c, a : u = svc.up /\ st = svc.stream /\ d = svc.dns /\ c = svc.clamp /\ a = svc.armed
      OBVIOUS
    <2>3. old = [up |-> u, stream |-> st, dns |-> d, clamp |-> c, armed |-> a]
      BY <2>1, <2>2 DEF WInv, Types
    <2>4. PICK m1 : m1 = [old EXCEPT !.up = FALSE]
      OBVIOUS
    <2>5. m1 = [up |-> FALSE, stream |-> st, dns |-> d, clamp |-> c, armed |-> a]
      BY <2>3, <2>4
    <2>6. PICK m2 : m2 = [m1 EXCEPT !.clamp = FALSE]
      OBVIOUS
    <2>7. m2 = [up |-> FALSE, stream |-> st, dns |-> d, clamp |-> FALSE, armed |-> a]
      BY <2>5, <2>6
    <2>8. PICK m3 : m3 = [m2 EXCEPT !.armed = FALSE]
      OBVIOUS
    <2>9. m3 = [up |-> FALSE, stream |-> st, dns |-> d, clamp |-> FALSE, armed |-> FALSE]
      BY <2>7, <2>8
    <2>10. svc' = m3
      BY <1>1, <2>1, <2>4, <2>6, <2>8 DEF Stopped
    <2>11. QED
      BY <2>2, <2>9, <2>10
  <1>5. PICK st, d : svc' = [up |-> FALSE, stream |-> st, dns |-> d, clamp |-> FALSE, armed |-> FALSE]
    BY <1>4
  <1>6. SvcTypes' /\ ~svc'.up /\ ~svc'.clamp
    BY <1>5 DEF SvcTypes
  <1>7. Types'
    <2>1. "start" \in Pcs
      BY DEF Pcs
    <2>2. /\ DOMAIN procs' = Procs
          /\ \A q \in Procs : Shape(procs'[q]) /\ procs'[q].pc \in Pcs /\ procs'[q].then \in Thens
      BY <1>3, <2>1, MovedTypes DEF WInv
    <2>3. UciTypes'
      BY <1>1 DEF WInv, Types, UciTypes
    <2>4. QED
      BY <1>6, <2>2, <2>3 DEF Types, UciTypes, SvcTypes
  <1>8. OneStarts'
    BY <1>1, <1>3 DEF Moved, OneStarts
  <1>9. StartsClean'
    BY <1>6 DEF StartsClean
  <1>10. ConfigIsApplied'
    BY <1>3 DEF Moved, ConfigIsApplied, Restarting
  <1>11. QED
    BY <1>7, <1>8, <1>9, <1>10 DEF WInv

LEMMA StartKeeps == ASSUME WInv, NEW p \in Procs, StartService(p) PROVE WInv'
  <1>1. procs[p].pc = "start" /\ svc' = Started(svc) /\ saved' = FALSE /\ uci' = uci
    BY DEF StartService
  <1>2. PICK then \in Thens : then = procs[p].then
    BY DEF WInv, Types
  <1>3. \E pc \in Pcs \ {"stop", "start"}, th \in Thens : Moved(p, pc, th)
    <2>1. CASE then \in {"gone", "cleared"}
      <3>1. Moved(p, "gone", "gone")
        BY <1>2, <2>1, ExitMoves DEF StartService, WInv
      <3>2. QED
        BY <3>1 DEF Pcs, Thens
    <2>2. CASE then \notin {"gone", "cleared"}
      <3>1. Goto(p, then, RestartSeconds) /\ then \in Pcs \ {"stop", "start"}
        BY <1>2, <2>2 DEF StartService, Thens, Pcs
      <3>2. Moved(p, then, then)
        BY <1>2, <3>1, GotoMoves DEF WInv
      <3>3. QED
        BY <3>1, <3>2
    <2>3. QED
      BY <2>1, <2>2
  <1>4. PICK pc \in Pcs \ {"stop", "start"}, th \in Thens : Moved(p, pc, th)
    BY <1>3
  <1>5. PICK s : s = svc
    OBVIOUS
  <1>6. /\ s.up = FALSE /\ s.clamp = FALSE
        /\ s = [up |-> s.up, stream |-> s.stream, dns |-> s.dns, clamp |-> s.clamp, armed |-> s.armed]
    BY <1>1, <1>5 DEF WInv, StartsClean, Types
  <1>7. UciTypes
    BY DEF WInv, Types, UciTypes
  <1>8. PICK new : new = Started(s)
    OBVIOUS
  <1>9. svc' = new
    BY <1>1, <1>5, <1>8
  <1>10. /\ new = [up |-> new.up, stream |-> new.stream, dns |-> new.dns, clamp |-> new.clamp,
                   armed |-> new.armed]
         /\ new.up \in BOOLEAN /\ new.clamp \in BOOLEAN
         /\ IF uci.enabled /\ uci.address
            THEN new.up /\ new.armed /\ new.dns = uci.dns /\ new.clamp = uci.clamp
            ELSE ~new.up
    BY <1>6, <1>7, <1>8, StartedIs
  <1>11. SvcTypes'
    BY <1>9, <1>10 DEF SvcTypes
  <1>12. Types'
    <2>1. /\ DOMAIN procs' = Procs
          /\ \A q \in Procs : Shape(procs'[q]) /\ procs'[q].pc \in Pcs /\ procs'[q].then \in Thens
      BY <1>4, MovedTypes DEF WInv
    <2>2. UciTypes'
      BY <1>1, <1>7 DEF UciTypes
    <2>3. QED
      BY <1>11, <2>1, <2>2 DEF Types, UciTypes, SvcTypes
  <1>13. \A q \in Procs : procs'[q].pc # "start"
    BY <1>1, <1>4 DEF Moved, WInv, OneStarts
  <1>14. OneStarts' /\ StartsClean'
    BY <1>13 DEF OneStarts, StartsClean
  <1>15. ConfigIsApplied'
    BY <1>1, <1>9, <1>10 DEF ConfigIsApplied
  <1>16. QED
    BY <1>12, <1>14, <1>15 DEF WInv
-----------------------------------------------------------------------------
(* The steps of a tick that restart nothing, or decide to. *)

LEMMA BeginKeeps == ASSUME WInv, NEW p \in Ticks, Begin(p) PROVE WInv'
  <1>1. p \in Procs /\ procs[p].pc \notin {"stop", "start"} /\ Goto(p, "tunnel", 0) /\ UNCHANGED <<uci, svc, saved>>
    BY DEF Begin, Procs, Gone
  <1>2. PICK then \in Thens : then = procs[p].then
    BY <1>1 DEF WInv, Types
  <1>3. Moved(p, "tunnel", then) /\ "tunnel" \in Pcs \ {"stop", "start"}
    BY <1>1, <1>2, GotoMoves DEF WInv, Pcs
  <1>4. QED
    BY <1>1, <1>3, GoesOn

\* A probe or a sleep after which the tick goes on elsewhere or exits.
LEMMA QuietKeeps ==
    ASSUME WInv, NEW p \in Procs, procs[p].pc \notin {"stop", "start"}, UNCHANGED <<uci, svc, saved>>,
           \/ Exit(p)
           \/ \E pc \in Pcs \ {"stop", "start"} : \E s : Goto(p, pc, s)
    PROVE  WInv'
  <1>1. CASE Exit(p)
    <2>1. Moved(p, "gone", "gone") /\ "gone" \in Pcs \ {"stop", "start"} /\ "gone" \in Thens
      BY <1>1, ExitMoves DEF WInv, Pcs, Thens
    <2>2. QED
      BY <2>1, GoesOn
  <1>2. ASSUME NEW pc \in Pcs \ {"stop", "start"}, NEW s, Goto(p, pc, s) PROVE WInv'
    <2>1. PICK then \in Thens : then = procs[p].then
      BY DEF WInv, Types
    <2>2. Moved(p, pc, then)
      BY <1>2, <2>1, GotoMoves DEF WInv
    <2>3. QED
      BY <2>2, GoesOn
  <1>3. QED
    BY <1>1, <1>2

LEMMA AbroadKeeps == ASSUME WInv, NEW p \in Procs, ProbeAbroad(p) PROVE WInv'
  <1>1. procs[p].pc = "intl" /\ UNCHANGED <<svc, saved>> /\ (HealthyTick(p) \/ SeveredTick(p))
    BY DEF ProbeAbroad
  <1>2. CASE Exit(p) /\ uci' = uci
    BY <1>1, <1>2, QuietKeeps
  <1>3. CASE clear_blackout /\ Restart(p, "cleared", 0)
    <2>1. Moved(p, "stop", "cleared") /\ "cleared" \in Thens
      BY <1>3, RestartMoves DEF WInv, Thens
    <2>2. UciTypes'
      <3>1. PICK old : old = uci
        OBVIOUS
      <3>2. PICK en, ad, bl, tr, dn, cl : en = uci.enabled /\ ad = uci.address /\ bl = uci.blackout
               /\ tr = uci.transport /\ dn = uci.dns /\ cl = uci.clamp
        OBVIOUS
      <3>3. old = [enabled |-> en, address |-> ad, blackout |-> bl, transport |-> tr, dns |-> dn, clamp |-> cl]
            /\ en \in BOOLEAN /\ ad \in BOOLEAN
        BY <3>1, <3>2 DEF WInv, Types
      <3>4. PICK m1 : m1 = [old EXCEPT !.blackout = FALSE]
        OBVIOUS
      <3>5. m1 = [enabled |-> en, address |-> ad, blackout |-> FALSE, transport |-> tr, dns |-> dn, clamp |-> cl]
        BY <3>3, <3>4
      <3>6. PICK m2 : m2 = [m1 EXCEPT !.transport = "auto"]
        OBVIOUS
      <3>7. m2 = [enabled |-> en, address |-> ad, blackout |-> FALSE, transport |-> "auto", dns |-> dn, clamp |-> cl]
        BY <3>5, <3>6
      <3>8. PICK m3 : m3 = [m2 EXCEPT !.dns = "doh"]
        OBVIOUS
      <3>9. m3 = [enabled |-> en, address |-> ad, blackout |-> FALSE, transport |-> "auto", dns |-> "doh", clamp |-> cl]
        BY <3>7, <3>8
      <3>10. PICK m4 : m4 = [m3 EXCEPT !.clamp = FALSE]
        OBVIOUS
      <3>11. m4 = [enabled |-> en, address |-> ad, blackout |-> FALSE, transport |-> "auto", dns |-> "doh", clamp |-> FALSE]
        BY <3>9, <3>10
      <3>12. uci' = m4
        BY <1>3, <3>1, <3>4, <3>6, <3>8, <3>10 DEF clear_blackout
      <3>13. QED
        BY <3>3, <3>11, <3>12 DEF UciTypes
    <2>3. QED
      BY <1>1, <2>1, <2>2, WillRestart
  <1>4. QED
    BY <1>1, <1>2, <1>3 DEF HealthyTick, SeveredTick

LEMMA SeveredKeeps == ASSUME WInv, NEW p \in Procs, ProbeSevered(p) PROVE WInv'
  <1>1. procs[p].pc = "severed" /\ UNCHANGED <<svc, saved>>
    BY DEF ProbeSevered
  <1>2. CASE uci' = uci /\ \E pc \in {"logging", "try"} : Goto(p, pc, TIMEOUT)
    <2>1. \E pc \in Pcs \ {"stop", "start"} : \E s : Goto(p, pc, s)
      BY <1>2 DEF Pcs
    <2>2. QED
      BY <1>1, <1>2, <2>1, QuietKeeps
  <1>3. CASE /\ uci' = [uci EXCEPT !.blackout = TRUE, !.transport = "ws_tls_cdn",
                                   !.dns = "bootstrap", !.clamp = TRUE]
             /\ Restart(p, "try", TIMEOUT)
    <2>1. Moved(p, "stop", "try") /\ "try" \in Thens
      BY <1>3, RestartMoves DEF WInv, Thens
    <2>2. UciTypes'
      <3>1. PICK old : old = uci
        OBVIOUS
      <3>2. PICK en, ad, bl, tr, dn, cl : en = uci.enabled /\ ad = uci.address /\ bl = uci.blackout
               /\ tr = uci.transport /\ dn = uci.dns /\ cl = uci.clamp
        OBVIOUS
      <3>3. old = [enabled |-> en, address |-> ad, blackout |-> bl, transport |-> tr, dns |-> dn, clamp |-> cl]
            /\ en \in BOOLEAN /\ ad \in BOOLEAN
        BY <3>1, <3>2 DEF WInv, Types
      <3>4. PICK m1 : m1 = [old EXCEPT !.blackout = TRUE]
        OBVIOUS
      <3>5. m1 = [enabled |-> en, address |-> ad, blackout |-> TRUE, transport |-> tr, dns |-> dn, clamp |-> cl]
        BY <3>3, <3>4
      <3>6. PICK m2 : m2 = [m1 EXCEPT !.transport = "ws_tls_cdn"]
        OBVIOUS
      <3>7. m2 = [enabled |-> en, address |-> ad, blackout |-> TRUE, transport |-> "ws_tls_cdn", dns |-> dn, clamp |-> cl]
        BY <3>5, <3>6
      <3>8. PICK m3 : m3 = [m2 EXCEPT !.dns = "bootstrap"]
        OBVIOUS
      <3>9. m3 = [enabled |-> en, address |-> ad, blackout |-> TRUE, transport |-> "ws_tls_cdn", dns |-> "bootstrap", clamp |-> cl]
        BY <3>7, <3>8
      <3>10. PICK m4 : m4 = [m3 EXCEPT !.clamp = TRUE]
        OBVIOUS
      <3>11. m4 = [enabled |-> en, address |-> ad, blackout |-> TRUE, transport |-> "ws_tls_cdn", dns |-> "bootstrap", clamp |-> TRUE]
        BY <3>9, <3>10
      <3>12. uci' = m4
        BY <1>3, <3>1, <3>4, <3>6, <3>8, <3>10
      <3>13. QED
        BY <3>3, <3>11, <3>12 DEF UciTypes
    <2>3. QED
      BY <1>1, <2>1, <2>2, WillRestart
  <1>4. QED
    BY <1>2, <1>3 DEF ProbeSevered, set_blackout

LEMMA TryKeeps == ASSUME WInv, NEW p \in Procs, try_connect(p) PROVE WInv'
  <1>1. procs[p].pc = "try" /\ UNCHANGED <<svc, saved>>
    BY DEF try_connect
  <1>2. CASE Exit(p) /\ uci' = uci
    BY <1>1, <1>2, QuietKeeps
  <1>3. CASE /\ uci' = [uci EXCEPT !.transport = Rung(@)]
             /\ Restart(p, "sleep", TIMEOUT)
    <2>1. Moved(p, "stop", "sleep") /\ "sleep" \in Thens
      BY <1>3, RestartMoves DEF WInv, Thens
    <2>2. UciTypes'
      <3>1. PICK en, ad, bl, tr, dn, cl : en = uci.enabled /\ ad = uci.address /\ bl = uci.blackout
               /\ tr = uci.transport /\ dn = uci.dns /\ cl = uci.clamp
        OBVIOUS
      <3>2. PICK old : old = uci
        OBVIOUS
      <3>3. /\ old = [enabled |-> en, address |-> ad, blackout |-> bl, transport |-> tr, dns |-> dn, clamp |-> cl]
            /\ en \in BOOLEAN /\ ad \in BOOLEAN /\ cl \in BOOLEAN
        BY <3>1, <3>2 DEF WInv, Types
      <3>4. PICK rung : rung = Rung(old.transport)
        OBVIOUS
      <3>5. uci' = [old EXCEPT !.transport = rung]
        BY <1>3, <3>2, <3>4
      <3>6. uci' = [enabled |-> en, address |-> ad, blackout |-> bl, transport |-> rung, dns |-> dn, clamp |-> cl]
        BY <3>3, <3>5
      <3>7. QED
        BY <3>3, <3>6 DEF UciTypes
    <2>3. QED
      BY <1>1, <2>1, <2>2, WillRestart
  <1>4. QED
    BY <1>2, <1>3 DEF try_connect

LEMMA SleepKeeps == ASSUME WInv, NEW p \in Procs, Sleep(p) PROVE WInv'
  <1>1. procs[p].pc = "sleep" /\ UNCHANGED <<uci, svc, saved>>
    BY DEF Sleep
  <1>2. CASE Exit(p)
    BY <1>1, <1>2, QuietKeeps
  <1>3. CASE ~Exit(p)
    <2>1. PICK then \in Thens : then = procs[p].then
      BY DEF WInv, Types
    <2>2. Moved(p, "try", then) /\ "try" \in Pcs \ {"stop", "start"}
      BY <1>3, <2>1, SleepMoves DEF Sleep, WInv, Pcs
    <2>3. QED
      BY <1>1, <2>2, GoesOn
  <1>4. QED
    BY <1>2, <1>3
-----------------------------------------------------------------------------
(* The operator, the network and the power. *)

LEMMA SaveKeeps == ASSUME WInv, Save PROVE WInv'
  <1>1. saved' = TRUE /\ UNCHANGED <<svc, procs>>
    BY DEF Save
  <1>2. PICK en, ad, bl, tr, dn, cl : en = uci.enabled /\ ad = uci.address /\ bl = uci.blackout
           /\ tr = uci.transport /\ dn = uci.dns /\ cl = uci.clamp
    OBVIOUS
  <1>3. PICK old : old = uci
    OBVIOUS
  <1>4. /\ old = [enabled |-> en, address |-> ad, blackout |-> bl, transport |-> tr, dns |-> dn, clamp |-> cl]
        /\ en \in BOOLEAN /\ ad \in BOOLEAN /\ cl \in BOOLEAN
    BY <1>2, <1>3 DEF WInv, Types
  <1>5. ASSUME NEW key \in {"enabled", "address", "blackout", "clamp"}, uci' = [uci EXCEPT ![key] = ~@]
        PROVE  UciTypes'
    <2>1. PICK v : v = ~old[key]
      OBVIOUS
    <2>2. v \in BOOLEAN
      BY <2>1, Zenon
    <2>3. uci' = [old EXCEPT ![key] = v]
      BY <1>5, <1>3, <2>1
    <2>4. CASE key = "enabled"
      <3>1. uci' = [enabled |-> v, address |-> ad, blackout |-> bl, transport |-> tr, dns |-> dn, clamp |-> cl]
        BY <1>4, <2>3, <2>4
      <3>2. QED
        BY <1>4, <2>2, <3>1 DEF UciTypes
    <2>5. CASE key = "address"
      <3>1. uci' = [enabled |-> en, address |-> v, blackout |-> bl, transport |-> tr, dns |-> dn, clamp |-> cl]
        BY <1>4, <2>3, <2>5
      <3>2. QED
        BY <1>4, <2>2, <3>1 DEF UciTypes
    <2>6. CASE key = "blackout"
      <3>1. uci' = [enabled |-> en, address |-> ad, blackout |-> v, transport |-> tr, dns |-> dn, clamp |-> cl]
        BY <1>4, <2>3, <2>6
      <3>2. QED
        BY <1>4, <3>1 DEF UciTypes
    <2>7. CASE key = "clamp"
      <3>1. uci' = [enabled |-> en, address |-> ad, blackout |-> bl, transport |-> tr, dns |-> dn, clamp |-> v]
        BY <1>4, <2>3, <2>7
      <3>2. QED
        BY <1>4, <2>2, <3>1 DEF UciTypes
    <2>8. QED
      BY <1>5, <2>4, <2>5, <2>6, <2>7
  <1>6. ASSUME NEW t \in Transports, uci' = [uci EXCEPT !.transport = t] PROVE UciTypes'
    <2>1. uci' = [old EXCEPT !.transport = t]
      BY <1>3, <1>6
    <2>2. uci' = [enabled |-> en, address |-> ad, blackout |-> bl, transport |-> t, dns |-> dn, clamp |-> cl]
      BY <1>4, <2>1
    <2>3. QED
      BY <1>4, <2>2 DEF UciTypes
  <1>7. UciTypes'
    BY <1>5, <1>6 DEF Save
  <1>8. Types'
    BY <1>1, <1>7 DEF WInv, Types, UciTypes, Shape
  <1>9. OneStarts' /\ StartsClean'
    BY <1>1 DEF WInv, OneStarts, StartsClean
  <1>10. ConfigIsApplied'
    BY <1>1 DEF ConfigIsApplied
  <1>11. QED
    BY <1>8, <1>9, <1>10 DEF WInv

LEMMA RestartKeeps == ASSUME WInv, restart PROVE WInv'
  <1>1. "operator" \in Procs /\ procs["operator"].pc # "start" /\ UNCHANGED <<uci, svc>>
    BY DEF restart, Procs, Gone
  <1>2. Restart("operator", "gone", 0) /\ "gone" \in Thens
    BY DEF restart, Thens
  <1>3. Moved("operator", "stop", "gone")
    BY <1>1, <1>2, RestartMoves DEF WInv
  <1>4. UciTypes'
    BY <1>1 DEF WInv, Types, UciTypes
  <1>5. QED
    BY <1>1, <1>2, <1>3, <1>4, WillRestart

\* A boot starts a service that is down, on any configuration.
LEMMA BootKeeps ==
    ASSUME UciTypes, UciTypes', uci' = uci, procs' = [p \in Procs |-> Gone], NEW s,
           s.up = FALSE, s.clamp = FALSE,
           s = [up |-> s.up, stream |-> s.stream, dns |-> s.dns, clamp |-> s.clamp, armed |-> s.armed],
           svc' = Started(s)
    PROVE  WInv'
  <1>1. PICK new : new = Started(s)
    OBVIOUS
  <1>2. /\ new = [up |-> new.up, stream |-> new.stream, dns |-> new.dns, clamp |-> new.clamp,
                  armed |-> new.armed]
        /\ new.up \in BOOLEAN /\ new.clamp \in BOOLEAN
        /\ IF uci.enabled /\ uci.address
           THEN new.up /\ new.armed /\ new.dns = uci.dns /\ new.clamp = uci.clamp
           ELSE ~new.up
    BY <1>1, StartedIs
  <1>3. svc' = new
    BY <1>1
  <1>4. Gone.pc = "gone" /\ Gone.then = "gone" /\ Shape(Gone)
    BY DEF Gone, Shape
  <1>5. /\ DOMAIN procs' = Procs
        /\ \A p \in Procs : procs'[p] = Gone
    OBVIOUS
  <1>6. Types'
    BY <1>2, <1>3, <1>4, <1>5 DEF Types, UciTypes, Pcs, Thens
  <1>7. OneStarts' /\ StartsClean'
    BY <1>4, <1>5 DEF OneStarts, StartsClean
  <1>8. ConfigIsApplied'
    BY <1>2, <1>3 DEF ConfigIsApplied
  <1>9. QED
    BY <1>6, <1>7, <1>8 DEF WInv

LEMMA RebootKeeps == ASSUME WInv, Reboot PROVE WInv'
  <1>1. /\ procs' = [p \in Procs |-> Gone] /\ uci' = uci
        /\ svc' = Started([svc EXCEPT !.up = FALSE, !.clamp = FALSE])
    BY DEF Reboot
  <1>2. PICK u, st, d, c, a : u = svc.up /\ st = svc.stream /\ d = svc.dns /\ c = svc.clamp /\ a = svc.armed
    OBVIOUS
  <1>3. PICK old : old = svc
    OBVIOUS
  <1>4. old = [up |-> u, stream |-> st, dns |-> d, clamp |-> c, armed |-> a]
    BY <1>2, <1>3 DEF WInv, Types
  <1>5. PICK m1 : m1 = [old EXCEPT !.up = FALSE]
    OBVIOUS
  <1>6. m1 = [up |-> FALSE, stream |-> st, dns |-> d, clamp |-> c, armed |-> a]
    BY <1>4, <1>5
  <1>7. PICK m2 : m2 = [m1 EXCEPT !.clamp = FALSE]
    OBVIOUS
  <1>8. m2 = [up |-> FALSE, stream |-> st, dns |-> d, clamp |-> FALSE, armed |-> a]
    BY <1>6, <1>7
  <1>9. svc' = Started(m2)
    BY <1>1, <1>3, <1>5, <1>7
  <1>10. /\ m2.up = FALSE /\ m2.clamp = FALSE
         /\ m2 = [up |-> m2.up, stream |-> m2.stream, dns |-> m2.dns, clamp |-> m2.clamp, armed |-> m2.armed]
    BY <1>8
  <1>11. UciTypes /\ UciTypes'
    BY <1>1 DEF WInv, Types, UciTypes
  <1>12. QED
    BY <1>1, <1>9, <1>10, <1>11, BootKeeps
-----------------------------------------------------------------------------
LEMMA StepKeeps == ASSUME WInv, NEW p \in Procs, Step(p) PROVE WInv'
  <1>1. CASE ProbeTunnel(p)
    <2>1. procs[p].pc = "tunnel" /\ UNCHANGED <<uci, svc, saved>>
      BY <1>1 DEF ProbeTunnel
    <2>2. \E pc \in Pcs \ {"stop", "start"} : \E s : Goto(p, pc, s)
      BY <1>1 DEF ProbeTunnel, Pcs
    <2>3. QED
      BY <2>1, <2>2, QuietKeeps
  <1>2. CASE ProbeDomestic(p)
    <2>1. procs[p].pc = "domestic" /\ UNCHANGED <<uci, svc, saved>>
      BY <1>2 DEF ProbeDomestic
    <2>2. \E pc \in Pcs \ {"stop", "start"} : \E s : Goto(p, pc, s)
      BY <1>2 DEF ProbeDomestic, Pcs
    <2>3. QED
      BY <2>1, <2>2, QuietKeeps
  <1>3. CASE Log(p)
    <2>1. procs[p].pc = "logging" /\ UNCHANGED <<uci, svc, saved>>
      BY <1>3 DEF Log
    <2>2. \E pc \in Pcs \ {"stop", "start"} : \E s : Goto(p, pc, s)
      BY <1>3 DEF Log, Pcs
    <2>3. QED
      BY <2>1, <2>2, QuietKeeps
  <1>4. QED
    BY <1>1, <1>2, <1>3, AbroadKeeps, SeveredKeeps, TryKeeps, SleepKeeps, StopKeeps, StartKeeps DEF Step

LEMMA StutterKeeps == ASSUME WInv, UNCHANGED <<uci, svc, procs, saved>> PROVE WInv'
  BY DEF WInv, Types, Shape, OneStarts, StartsClean, ConfigIsApplied, Restarting

LEMMA WInvInit == ASSUME Init PROVE WInv
  <1>1. PICK s : s = [up |-> FALSE, stream |-> "ws", dns |-> "doh", clamp |-> FALSE, armed |-> FALSE]
    OBVIOUS
  <1>2. uci = [enabled |-> TRUE, address |-> TRUE, blackout |-> FALSE,
               transport |-> "auto", dns |-> "doh", clamp |-> FALSE]
        /\ svc = Started(s) /\ procs = [p \in Procs |-> Gone]
    BY <1>1 DEF Init
  <1>3. UciTypes
    BY <1>2 DEF UciTypes
  <1>4. /\ s.up = FALSE /\ s.clamp = FALSE
        /\ s = [up |-> s.up, stream |-> s.stream, dns |-> s.dns, clamp |-> s.clamp, armed |-> s.armed]
    BY <1>1
  <1>5. PICK new : new = Started(s)
    OBVIOUS
  <1>6. /\ new = [up |-> new.up, stream |-> new.stream, dns |-> new.dns, clamp |-> new.clamp,
                  armed |-> new.armed]
        /\ new.up \in BOOLEAN /\ new.clamp \in BOOLEAN
        /\ IF uci.enabled /\ uci.address
           THEN new.up /\ new.armed /\ new.dns = uci.dns /\ new.clamp = uci.clamp
           ELSE ~new.up
    BY <1>3, <1>4, <1>5, StartedIs
  <1>7. Gone.pc = "gone" /\ Gone.then = "gone" /\ Shape(Gone)
    BY DEF Gone, Shape
  <1>8. DOMAIN procs = Procs /\ \A p \in Procs : procs[p] = Gone
    BY <1>2
  <1>9. svc = new
    BY <1>2, <1>5
  <1>10. Types
    BY <1>3, <1>6, <1>7, <1>8, <1>9 DEF Types, UciTypes, Pcs, Thens
  <1>11. OneStarts /\ StartsClean
    BY <1>7, <1>8 DEF OneStarts, StartsClean
  <1>12. ConfigIsApplied
    BY <1>6, <1>9 DEF ConfigIsApplied
  <1>13. QED
    BY <1>10, <1>11, <1>12 DEF WInv

LEMMA WInvNext == WInv /\ [Next]_vars => WInv'
  <1> SUFFICES ASSUME WInv, [Next]_vars PROVE WInv'
    OBVIOUS
  <1>1. CASE Tick
    BY <1>1, BeginKeeps DEF Tick
  <1>2. ASSUME NEW p \in Procs, Step(p) PROVE WInv'
    BY <1>2, StepKeeps
  <1>3. CASE Save \/ restart \/ Reboot
    BY <1>3, SaveKeeps, RestartKeeps, RebootKeeps
  <1>4. CASE Weather
    BY <1>4, StutterKeeps DEF Weather
  <1>5. CASE UNCHANGED vars
    BY <1>5, StutterKeeps DEF vars
  <1>6. QED
    BY <1>1, <1>2, <1>3, <1>4, <1>5 DEF Next

\* The invariant: one process starts the service at a time, and on a clean slate.
THEOREM WatchdogInvariance == Spec => []WInv
  <1>1. Init => WInv
    BY WInvInit
  <1>2. QED
    BY <1>1, WInvNext, PTL DEF Spec

\* Once no restart is under way and no saved form waits for one, the service runs what
\* /etc/config/vor says: init.d/vor's stop and start around every change of it.
THEOREM ConfigApplied == Spec => []ConfigIsApplied
  <1>1. WInv => ConfigIsApplied
    BY DEF WInv
  <1>2. QED
    BY <1>1, WatchdogInvariance, PTL
-----------------------------------------------------------------------------
(* A tick is short: every step of a process brings it nearer to its end. *)

Triable == \A p \in Procs : procs[p].tries \in 0..(MAX_TRIES - 1)

TInv == WInv /\ Triable

\* What a step of p leaves: p has less to go, the others are where they were.
Shortens(p) ==
    /\ \A q \in Procs \ {p} : procs'[q] = procs[q]
    /\ procs'[p].tries \in 0..(MAX_TRIES - 1)
    /\ ToGo(procs'[p]) < ToGo(procs[p])

LEMMA ToGoRange ==
    ASSUME NEW r, r.pc \in Pcs, r.then \in Thens, r.tries \in 0..(MAX_TRIES - 1)
    PROVE  ToGo(r) \in 0..(9 + 4 * (MAX_TRIES - 1)) /\ (r.pc # "gone" => ToGo(r) > 0)
  <1>1. PICK t : t = r.tries
    OBVIOUS
  <1>2. PICK k : k = 4 * (MAX_TRIES - 1 - t)
    OBVIOUS
  <1>3. MAX_TRIES \in Nat /\ MAX_TRIES >= 1 /\ t \in Nat /\ t <= MAX_TRIES - 1
    BY <1>1, WatchdogAssumption
  <1>4. k \in Nat /\ k <= 4 * (MAX_TRIES - 1)
    BY <1>2, <1>3
  <1>5. PICK m : m = 4 * (MAX_TRIES - 1) /\ m \in Nat
    BY <1>3
  <1>6. r.pc \in {"stop", "start"} => r.then \in Thens
    OBVIOUS
  <1>7. ToGo(r) \in Nat /\ ToGo(r) <= 9 + m /\ (r.pc # "gone" => ToGo(r) > 0)
    <2> HIDE DEF Thens
    <2>1. CASE r.pc \in {"gone", "sleep", "try", "logging", "severed"}
      BY <1>1, <1>2, <1>4, <1>5, <2>1 DEF ToGo
    <2>2. CASE r.pc \in {"domestic", "tunnel", "intl"}
      BY <1>1, <1>2, <1>4, <1>5, <2>2 DEF ToGo
    <2>3. CASE r.pc = "start"
      BY <1>1, <1>2, <1>4, <1>5, <2>3 DEF ToGo, Thens
    <2>4. CASE r.pc = "stop"
      BY <1>1, <1>2, <1>4, <1>5, <2>4 DEF ToGo, Thens
    <2>5. QED
      BY <2>1, <2>2, <2>3, <2>4 DEF Pcs
  <1>8. QED
    BY <1>3, <1>5, <1>7

\* The way out is always shorter.
LEMMA ExitShortens ==
    ASSUME TInv, NEW p \in Procs, procs[p].pc # "gone", Exit(p)
    PROVE  Shortens(p)
  <1>1. Moved(p, "gone", "gone") /\ procs'[p].tries = 0
    BY ExitMoves DEF TInv, WInv
  <1>2. ToGo(procs'[p]) = 0
    BY <1>1 DEF Moved, ToGo
  <1>3. ToGo(procs[p]) > 0 /\ ToGo(procs[p]) \in Int
    <2>1. procs[p].pc \in Pcs /\ procs[p].then \in Thens /\ procs[p].tries \in 0..(MAX_TRIES - 1)
      BY DEF TInv, WInv, Types, Triable
    <2>2. QED
      BY <2>1, ToGoRange
  <1>4. 0 \in 0..(MAX_TRIES - 1)
    BY WatchdogAssumption
  <1>5. QED
    BY <1>1, <1>2, <1>3, <1>4 DEF Moved, Shortens

\* A move within a round of the ladder, or towards it.
LEMMA MoveShortens ==
    ASSUME TInv, NEW p \in Procs, NEW pc, NEW then,
           Moved(p, pc, then), procs'[p].tries = procs[p].tries,
           \/ procs[p].pc = "stop" /\ pc = "start" /\ then = procs[p].then
           \/ procs[p].pc = "start" /\ pc = procs[p].then /\ pc \in {"try", "sleep"}
           \/ procs[p].pc = "tunnel" /\ pc \in {"intl", "domestic"}
           \/ procs[p].pc = "intl" /\ pc = "stop" /\ then = "cleared"
           \/ procs[p].pc = "domestic" /\ pc \in {"severed", "logging"}
           \/ procs[p].pc = "severed" /\ pc \in {"logging", "try"}
           \/ procs[p].pc = "severed" /\ pc = "stop" /\ then = "try"
           \/ procs[p].pc = "logging" /\ pc = "try"
           \/ procs[p].pc = "try" /\ pc = "stop" /\ then = "sleep"
    PROVE  Shortens(p)
  <1>1. PICK old, new : old = procs[p] /\ new = procs'[p]
    OBVIOUS
  <1>2. PICK t : t = old.tries
    OBVIOUS
  <1>3. PICK k : k = 4 * (MAX_TRIES - 1 - t)
    OBVIOUS
  <1>4. t \in 0..(MAX_TRIES - 1) /\ old.then \in Thens
    BY <1>1, <1>2 DEF TInv, WInv, Types, Triable
  <1>5. k \in Nat
    BY <1>3, <1>4, WatchdogAssumption
  <1>6. new.pc = pc /\ new.then = then /\ new.tries = t
    BY <1>1, <1>2 DEF Moved
  <1>7. ToGo(new) < ToGo(old)
    <2>1. CASE old.pc = "stop" /\ pc = "start" /\ then = old.then
      BY <1>2, <1>3, <1>5, <1>6, <2>1 DEF ToGo
    <2>2. CASE old.pc = "start" /\ pc = old.then /\ pc \in {"try", "sleep"}
      BY <1>2, <1>3, <1>5, <1>6, <2>2 DEF ToGo
    <2>3. CASE old.pc = "tunnel" /\ pc \in {"intl", "domestic"}
      BY <1>2, <1>3, <1>5, <1>6, <2>3 DEF ToGo
    <2>4. CASE old.pc = "intl" /\ pc = "stop" /\ then = "cleared"
      BY <1>2, <1>3, <1>5, <1>6, <2>4 DEF ToGo
    <2>5. CASE old.pc = "domestic" /\ pc \in {"severed", "logging"}
      BY <1>2, <1>3, <1>5, <1>6, <2>5 DEF ToGo
    <2>6. CASE old.pc = "severed" /\ (pc \in {"logging", "try"} \/ (pc = "stop" /\ then = "try"))
      BY <1>2, <1>3, <1>5, <1>6, <2>6 DEF ToGo
    <2>7. CASE old.pc = "logging" /\ pc = "try"
      BY <1>2, <1>3, <1>5, <1>6, <2>7 DEF ToGo
    <2>8. CASE old.pc = "try" /\ pc = "stop" /\ then = "sleep"
      BY <1>2, <1>3, <1>5, <1>6, <2>8 DEF ToGo
    <2>9. QED
      BY <1>1, <2>1, <2>2, <2>3, <2>4, <2>5, <2>6, <2>7, <2>8
  <1>8. QED
    BY <1>1, <1>2, <1>4, <1>6, <1>7 DEF Moved, Shortens

\* The next round of the ladder is a try less.
LEMMA SleepShortens == ASSUME TInv, NEW p \in Procs, Sleep(p) PROVE Shortens(p)
  <1>1. CASE procs[p].tries + 1 < MAX_TRIES
    <2>1. Moved(p, "try", procs[p].then) /\ procs'[p].tries = procs[p].tries + 1
      BY <1>1, SleepMoves DEF Sleep, TInv, WInv
    <2>2. PICK old, new : old = procs[p] /\ new = procs'[p]
      OBVIOUS
    <2>3. PICK t : t = old.tries
      OBVIOUS
    <2>4. t \in Nat /\ t + 1 \in 0..(MAX_TRIES - 1)
      BY <1>1, <2>2, <2>3, WatchdogAssumption DEF TInv, Triable
    <2>5. old.pc = "sleep" /\ new.pc = "try" /\ new.tries = t + 1
      BY <2>1, <2>2, <2>3 DEF Sleep, Moved
    <2>6. ToGo(old) = 4 * (MAX_TRIES - 1 - t) + 1 /\ ToGo(new) = 4 * (MAX_TRIES - 1 - (t + 1)) + 4
      BY <2>3, <2>5 DEF ToGo
    <2>7. ToGo(new) < ToGo(old)
      BY <2>4, <2>6, WatchdogAssumption
    <2>8. QED
      BY <2>1, <2>2, <2>4, <2>5, <2>7 DEF Moved, Shortens
  <1>2. CASE ~(procs[p].tries + 1 < MAX_TRIES)
    BY <1>2, ExitShortens DEF Sleep
  <1>3. QED
    BY <1>1, <1>2

LEMMA StepShortens == ASSUME TInv, NEW p \in Procs, Step(p) PROVE Shortens(p)
  <1>1. Types
    BY DEF TInv, WInv
  <1>2. CASE ProbeTunnel(p)
    <2>1. PICK pc \in {"intl", "domestic"} : Goto(p, pc, TIMEOUT)
      BY <1>2 DEF ProbeTunnel
    <2>2. QED
      BY <1>1, <1>2, <2>1, GotoMoves, MoveShortens DEF ProbeTunnel
  <1>3. CASE ProbeAbroad(p)
    <2>1. procs[p].pc = "intl" /\ (Exit(p) \/ Restart(p, "cleared", 0))
      BY <1>3 DEF ProbeAbroad, HealthyTick, SeveredTick
    <2>2. CASE Exit(p)
      BY <2>1, <2>2, ExitShortens
    <2>3. CASE Restart(p, "cleared", 0)
      BY <1>1, <2>1, <2>3, RestartMoves, MoveShortens
    <2>4. QED
      BY <2>1, <2>2, <2>3
  <1>4. CASE ProbeDomestic(p)
    <2>1. PICK pc \in {"severed", "logging"} : Goto(p, pc, TIMEOUT)
      BY <1>4 DEF ProbeDomestic
    <2>2. QED
      BY <1>1, <1>4, <2>1, GotoMoves, MoveShortens DEF ProbeDomestic
  <1>5. CASE ProbeSevered(p)
    <2>1. procs[p].pc = "severed" /\ ((\E pc \in {"logging", "try"} : Goto(p, pc, TIMEOUT)) \/ Restart(p, "try", TIMEOUT))
      BY <1>5 DEF ProbeSevered, set_blackout
    <2>2. ASSUME NEW pc \in {"logging", "try"}, Goto(p, pc, TIMEOUT) PROVE Shortens(p)
      BY <1>1, <2>1, <2>2, GotoMoves, MoveShortens
    <2>3. CASE Restart(p, "try", TIMEOUT)
      BY <1>1, <2>1, <2>3, RestartMoves, MoveShortens
    <2>4. QED
      BY <2>1, <2>2, <2>3
  <1>6. CASE Log(p)
    BY <1>1, <1>6, GotoMoves, MoveShortens DEF Log
  <1>7. CASE try_connect(p)
    <2>1. procs[p].pc = "try" /\ (Exit(p) \/ Restart(p, "sleep", TIMEOUT))
      BY <1>7 DEF try_connect
    <2>2. CASE Exit(p)
      BY <2>1, <2>2, ExitShortens
    <2>3. CASE Restart(p, "sleep", TIMEOUT)
      BY <1>1, <2>1, <2>3, RestartMoves, MoveShortens
    <2>4. QED
      BY <2>1, <2>2, <2>3
  <1>8. CASE StopService(p)
    BY <1>1, <1>8, GotoMoves, MoveShortens DEF StopService
  <1>9. CASE StartService(p)
    <2>1. procs[p].pc = "start" /\ procs[p].then \in Thens
      BY <1>1, <1>9 DEF StartService, Types
    <2>2. CASE procs[p].then \in {"gone", "cleared"}
      BY <1>9, <2>1, <2>2, ExitShortens DEF StartService
    <2>3. CASE procs[p].then \notin {"gone", "cleared"}
      <3>1. Goto(p, procs[p].then, RestartSeconds) /\ procs[p].then \in {"try", "sleep"}
        BY <1>9, <2>1, <2>3 DEF StartService, Thens
      <3>2. QED
        BY <1>1, <2>1, <3>1, GotoMoves, MoveShortens
    <2>4. QED
      BY <2>2, <2>3
  <1>10. QED
    BY <1>2, <1>3, <1>4, <1>5, <1>6, <1>7, <1>8, <1>9, SleepShortens DEF Step

\* What a step that is nobody's does to the ticks: it leaves them alone, begins one, or
\* kills them all.
LEMMA OthersKeep ==
    ASSUME TInv, NEW p \in Procs, \/ Tick \/ Save \/ restart \/ Weather \/ Reboot \/ UNCHANGED vars
    PROVE  /\ procs'[p].tries \in 0..(MAX_TRIES - 1)
           /\ procs[p].pc # "gone" => procs'[p] = procs[p] \/ procs'[p] = Gone
  <1>1. Types /\ procs[p].tries \in 0..(MAX_TRIES - 1) /\ 0 \in 0..(MAX_TRIES - 1)
    BY WatchdogAssumption DEF TInv, WInv, Triable
  <1>2. ASSUME NEW q \in Ticks, Begin(q) PROVE (procs'[p] = procs[p]) \/ (procs[p] = Gone /\ procs'[p].tries = 0)
    <2>1. q \in Procs /\ procs[q] = Gone /\ Moved(q, "tunnel", procs[q].then) /\ procs'[q].tries = procs[q].tries
      BY <1>1, <1>2, GotoMoves DEF Begin, Procs
    <2>2. QED
      BY <2>1 DEF Moved, Gone
  <1>3. ASSUME restart PROVE (procs'[p] = procs[p]) \/ (procs[p] = Gone /\ procs'[p].tries = 0)
    <2>1. "operator" \in Procs /\ procs["operator"] = Gone /\ Restart("operator", "gone", 0)
      BY <1>3 DEF restart, Procs
    <2>2. Moved("operator", "stop", "gone") /\ procs'["operator"].tries = procs["operator"].tries
      BY <1>1, <2>1, RestartMoves
    <2>3. QED
      BY <2>1, <2>2 DEF Moved, Gone
  <1>4. CASE Reboot
    BY <1>1, <1>4 DEF Reboot, Gone
  <1>5. CASE Save \/ Weather \/ UNCHANGED vars
    BY <1>1, <1>5 DEF Save, Weather, vars
  <1>6. Gone.pc = "gone"
    BY DEF Gone
  <1>7. QED
    BY <1>1, <1>2, <1>3, <1>4, <1>5, <1>6 DEF Tick

LEMMA TInvNext == TInv /\ [Next]_vars => TInv'
  <1> SUFFICES ASSUME TInv, [Next]_vars PROVE TInv'
    OBVIOUS
  <1>1. WInv'
    BY WInvNext DEF TInv
  <1>2. ASSUME NEW p \in Procs PROVE procs'[p].tries \in 0..(MAX_TRIES - 1)
    <2>1. ASSUME NEW q \in Procs, Step(q) PROVE procs'[p].tries \in 0..(MAX_TRIES - 1)
      BY <2>1, StepShortens DEF Shortens, TInv, Triable
    <2>2. QED
      BY <2>1, OthersKeep DEF Next
  <1>3. QED
    BY <1>1, <1>2 DEF TInv, Triable

LEMMA TInvSteps ==
    TInv /\ [Next]_vars =>
        \A p \in Procs : procs[p].pc # "gone" =>
            /\ ToGo(procs'[p]) <= ToGo(procs[p])
            /\ Step(p) => ToGo(procs'[p]) < ToGo(procs[p])
  <1> SUFFICES ASSUME TInv, [Next]_vars, NEW p \in Procs, procs[p].pc # "gone"
               PROVE  /\ ToGo(procs'[p]) <= ToGo(procs[p])
                      /\ Step(p) => ToGo(procs'[p]) < ToGo(procs[p])
    OBVIOUS
  <1>1. Step(p) => ToGo(procs'[p]) < ToGo(procs[p])
    BY StepShortens DEF Shortens
  <1>2. ToGo(procs[p]) \in Nat
    <2>1. procs[p].pc \in Pcs /\ procs[p].then \in Thens /\ procs[p].tries \in 0..(MAX_TRIES - 1)
      BY DEF TInv, WInv, Types, Triable
    <2>2. QED
      BY <2>1, ToGoRange
  <1>3. ToGo(procs'[p]) \in Int
    <2>1. TInv'
      BY TInvNext
    <2>2. procs'[p].pc \in Pcs /\ procs'[p].then \in Thens /\ procs'[p].tries \in 0..(MAX_TRIES - 1)
      BY <2>1 DEF TInv, WInv, Types, Triable
    <2>3. QED
      BY <2>2, ToGoRange
  <1>4. ToGo(Gone) = 0
    BY DEF ToGo, Gone
  <1>5. procs'[p] = procs[p] \/ procs'[p] = Gone \/ Step(p)
    <2>1. ASSUME NEW q \in Procs \ {p}, Step(q) PROVE procs'[p] = procs[p]
      BY <2>1, StepShortens DEF Shortens
    <2>2. QED
      BY <2>1, OthersKeep DEF Next
  <1>6. QED
    BY <1>1, <1>2, <1>3, <1>4, <1>5

\* A tick is 9 + 4 (MAX_TRIES - 1) steps long at most: each step of its own brings it nearer
\* to its end, and no other tick, no network and no operator takes it further away.
THEOREM TicksShort == Spec => TicksAreShort
  <1>1. Init => TInv
    <2>1. Init => \A p \in Procs : procs[p].tries = 0
      BY DEF Init, Gone
    <2>2. QED
      BY <2>1, WInvInit, WatchdogAssumption DEF TInv, Triable
  <1>2. TInv => \A p \in Procs : ToGo(procs[p]) \in 0..(9 + 4 * (MAX_TRIES - 1))
    <2> SUFFICES ASSUME TInv, NEW p \in Procs PROVE ToGo(procs[p]) \in 0..(9 + 4 * (MAX_TRIES - 1))
      OBVIOUS
    <2>1. procs[p].pc \in Pcs /\ procs[p].then \in Thens /\ procs[p].tries \in 0..(MAX_TRIES - 1)
      BY DEF TInv, WInv, Types, Triable
    <2>2. QED
      BY <2>1, ToGoRange
  <1>3. QED
    BY <1>1, <1>2, TInvNext, TInvSteps, PTL DEF Spec, TicksAreShort
=============================================================================
