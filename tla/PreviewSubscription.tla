------------------------- MODULE PreviewSubscription -------------------------
(***************************************************************************)
(* The preview's share-link parser (subscription.ts), "TS mirror of          *)
(* vor-engine subscription.rs", and the import panel of the settings tab     *)
(* (SettingsTab.tsx) that uses it: a pasted payload is parsed and listed,    *)
(* a listed link is made the active profile, which localStorage keeps and    *)
(* whose link the panel shows as a QR code for another device.               *)
(*                                                                         *)
(* Where JavaScript's string functions differ from Rust's, the difference is *)
(* modelled: split(c, 2) drops what follows the second c, parseInt reads the *)
(* number a text starts with, atob takes base64 that Rust's engines refuse.  *)
(***************************************************************************)
EXTENDS Subscription

CONSTANTS Sloppy,   \* the text of each piece that only atob decodes
          Payloads  \* bound: what is pasted

ASSUME PayloadsAssumption == Payloads \subseteq Seq(Line) /\ None \notin Payloads

VARIABLES
    imported, \* the payload that was parsed last, None before the first of a visit
    results,  \* the list the panel shows
    active,   \* the profile the panel shows
    stored    \* localStorage's vor.activeProfile

panelVars == <<imported, results, active, stored>>
-----------------------------------------------------------------------------
(* subscription.ts *)

\* What stands for the result of a parser that throws a TypeError.
Throws == [ok |-> FALSE, error |-> "thrown"]

b64DecodeForgiving(s) ==
    IF Len(s) = 1 /\ s[1] \in DOMAIN Sloppy THEN Sloppy[s[1]] ELSE b64_decode_forgiving(s)

\* decodeURIComponent throws at a broken escape, and the text stays as it was.
tsUrldecode(s) == IF \E i \in DOMAIN s : s[i] \in Broken THEN s ELSE Unescaped(s)

splitQuery(fragment) ==
    LET mainNoTag == Head1(fragment, "#")
    IN  [authority |-> Head1(mainNoTag, "?"), query |-> Head1(Rest1(mainNoTag, "?"), "?")]

\* A key without "=" has the value ''.
queryGet(q, key) ==
    IF Keyed(q, key) = {} THEN None
    ELSE tsUrldecode(Head1(Head1(After(q, Earliest(Keyed(q, key)) + 1), "&"), "="))

\* The number a text starts with.
parseInt(s) == IF s # <<>> /\ s[1] \in DOMAIN Number THEN Number[s[1]] ELSE None
IsPort(n) == n # None /\ n > 0 /\ n <= 65535

\* One bracket at each end is dropped.
Unbracketed(s) ==
    LET from == IF s # <<>> /\ s[1] = "[" THEN 2 ELSE 1
        to   == IF s # <<>> /\ s[Len(s)] = "]" THEN Len(s) - 1 ELSE Len(s)
    IN  SubSeq(s, from, to)

parseHostPort_Mutant(s) ==     \* the first colon
    LET t == TrimEnd(s, {"/"})
    IN  IF Has(t, ":") /\ IsPort(parseInt(After(t, First(t, ":"))))
        THEN [host |-> Unbracketed(Before(t, First(t, ":"))), port |-> parseInt(After(t, First(t, ":")))]
        ELSE None

parseHostPort(s) ==
    LET t == TrimEnd(s, {"/"})
    IN  IF Has(t, ":") /\ IsPort(parseInt(After(t, Final(t, ":"))))
        THEN [host |-> Unbracketed(Before(t, Final(t, ":"))), port |-> parseInt(After(t, Final(t, ":")))]
        ELSE None

parseVless(rest) ==
    LET s  == splitQuery(rest)
        hp == parseHostPort(Rest1(s.authority, "@"))
    IN  IF ~Has(s.authority, "@") \/ hp = None THEN Malformed
        ELSE Profile("vless", hp, tsUrldecode(Head1(s.authority, "@")), None, None,
                     [k \in VlessKeys |-> queryGet(s.query, k)])

parseTrojan(rest) ==
    LET s  == splitQuery(rest)
        hp == parseHostPort(Rest1(s.authority, "@"))
    IN  IF ~Has(s.authority, "@") \/ hp = None THEN Malformed
        ELSE Profile("trojan", hp, <<>>, tsUrldecode(Head1(s.authority, "@")), None,
                     [k \in TrojanKeys |-> queryGet(s.query, k)])

vmessPort(v) == CASE v.port.is = "number" -> v.port.number
                  [] v.port.is = "text"   -> parseInt(v.port.text)
                  [] OTHER                -> None

\* A document that is `null` has no field to read: the TypeError is caught by nobody.
parseVmess(rest) ==
    LET text == b64DecodeForgiving(rest)
    IN  IF text = None \/ Len(text) # 1 \/ text[1] \notin DOMAIN Json THEN Malformed
        ELSE LET v == Json[text[1]]
             IN  IF v = NullJson THEN Throws
                 ELSE IF v.add \in {None, <<>>} \/ ~IsPort(vmessPort(v)) THEN Malformed
                 ELSE Profile("vmess", [host |-> v.add, port |-> vmessPort(v)], v.id, None, v.scy, v.params)

\* Of a link that is base64 as a whole the host is what follows the last "@", and the
\* method what precedes the first ":" of all.
parseSs(rest) ==
    LET main == Head1(rest, "#")
    IN  IF Has(main, "@")
        THEN LET cred == b64DecodeForgiving(Head1(main, "@"))
                 hp   == parseHostPort(Rest1(main, "@"))
             IN  IF cred = None \/ hp = None THEN Malformed
                 ELSE IF ~Has(cred, ":") THEN Malformed
                 ELSE Shadowsocks(hp, Head1(cred, ":"), Rest1(cred, ":"))
        ELSE LET all == b64DecodeForgiving(main)
             IN  IF all = None THEN Malformed
                 ELSE IF ~Has(all, "@") \/ ~Has(all, ":") THEN Malformed
                 ELSE LET hp == parseHostPort(After(all, Final(all, "@")))
                      IN  IF hp = None THEN Malformed
                          ELSE Shadowsocks(hp, Head1(all, ":"),
                                   SubSeq(all, First(all, ":") + 1, Final(all, "@") - 1))

Parsed(line) ==
    CASE line.scheme = "vless"  -> parseVless(line.rest)
      [] line.scheme = "vmess"  -> parseVmess(line.rest)
      [] line.scheme = "trojan" -> parseTrojan(line.rest)
      [] line.scheme = "ss"     -> parseSs(line.rest)
      [] OTHER                  -> Unsupported

parseLink_Mutant(line) ==      \* raw without its scheme
    WithLink(Parsed(line), [line EXCEPT !.scheme = NoScheme])

parseLink(line) == WithLink(Parsed(line), line)

parseSubscription(lines) ==
    IF Links(lines) = <<>> THEN <<EmptyInput>>
    ELSE IF IsList(lines) THEN [i \in DOMAIN Links(lines) |-> parseLink(Links(lines)[i])]
    ELSE IF ~IsBlob(Links(lines)) THEN <<Malformed>>
    ELSE LET links == Links(Blob[Links(lines)[1].rest[1]])
         IN  [i \in DOMAIN links |-> parseLink(links[i])]
-----------------------------------------------------------------------------
(* SettingsTab.tsx *)

PanelInit == imported = None /\ results = <<>> /\ active = None /\ stored = None

\* The handler of a payload with a line that throws ends before it sets the list.  (A
\* visit of the tab imports once: the list depends on the last payload only.)
runImport(payload) ==
    /\ imported = None
    /\ imported' = payload
    /\ LET parsed == parseSubscription(payload)
       IN  results' = IF \E i \in DOMAIN parsed : parsed[i] = Throws THEN results ELSE parsed
    /\ UNCHANGED <<active, stored>>

\* The USE button of a listed link parses it again.
activate(i) ==
    /\ results[i].ok
    /\ LET parsed == parseSubscription(<<results[i].raw>>)
           p      == parsed[1]
           now    == [raw |-> results[i].raw, protocol |-> p.protocol, address |-> p.address, port |-> p.port]
       IN  /\ p.ok
           /\ active' = now /\ stored' = now
    /\ UNCHANGED <<imported, results>>

\* The tab is left and opened again, or the page reloaded.
Mount ==
    /\ imported' = None /\ results' = <<>> /\ active' = stored
    /\ UNCHANGED stored

\* The danger zone: storage emptied, page reloaded.
resetAll == stored' = None /\ imported' = None /\ results' = <<>> /\ active' = None

PanelNext == (\E payload \in Payloads : runImport(payload)) \/ (\E i \in DOMAIN results : activate(i))
             \/ Mount \/ resetAll

PanelSpec == PanelInit /\ [][PanelNext]_panelVars
-----------------------------------------------------------------------------
(* Properties *)

AtMostOne(s, c) == \A i, j \in DOMAIN s : s[i] = c /\ s[j] = c => i = j
NoBroken(s) == \A i \in DOMAIN s : s[i] \notin Broken

\* A port both read the same way: one number from 1 to 65535, or no number at all.
PlainPort(text) == parseInt(text) = None \/ (Len(text) = 1 /\ IsPort(parseInt(text)))

\* A host and a plain port, with brackets only around the whole host.
PlainHost(s) ==
    LET t    == TrimEnd(s, {"/"})
        host == Before(t, Final(t, ":"))
    IN  Has(t, ":") =>
            /\ PlainPort(After(t, Final(t, ":")))
            /\ \A i \in DOMAIN host : (host[i] = "[" => i = 1) /\ (host[i] = "]" => i = Len(host))

\* A query whose "=" and "&" alternate.
PlainQuery(q) ==
    \A i \in DOMAIN q : /\ q[i] \notin {"?", "#"}
                        /\ q[i] = "=" => i > 1 /\ (i = 2 \/ q[i - 2] = "&") /\ q[i - 1] \notin {"=", "&"}
                        /\ (i = 1 \/ q[i - 1] = "&") => i < Len(q) /\ q[i + 1] = "="

PlainUrl(rest) == /\ NoBroken(rest) /\ PlainQuery(Query(rest))
                  /\ PlainHost(Rest1(Authority(rest), "@"))

\* JSON that is a document with an address and a port in range, or with neither.
PlainJson(v) ==
    /\ v # NullJson
    /\ v.add # <<>>
    /\ \/ v.port.is = "absent"
       \/ v.port.is = "number" /\ IsPort(v.port.number)
       \/ v.port.is = "text" /\ PlainPort(v.port.text)

PlainVmess(rest) ==
    LET text == b64_decode_forgiving(rest)
    IN  text # None /\ Len(text) = 1 /\ text[1] \in DOMAIN Json => PlainJson(Json[text[1]])

\* Shadowsocks: in a link that is base64 as a whole no "@" but the one before the host,
\* and a ":" before it.
PlainSs(rest) ==
    LET main == Head1(rest, "#")
        all  == b64_decode_forgiving(main)
    IN  IF Has(main, "@") THEN PlainHost(Rest1(main, "@"))
        ELSE all # None => /\ PlainHost(Rest1(all, "@")) /\ AtMostOne(all, "@")
                           /\ Has(all, "@") => Has(Head1(all, "@"), ":")

\* A link on which the two languages' string functions agree.
Plain(line) ==
    /\ \A i \in DOMAIN line.rest : line.rest[i] \notin DOMAIN Sloppy
    /\ CASE line.scheme \in {"vless", "trojan"} -> PlainUrl(line.rest)
         [] line.scheme = "vmess" -> PlainVmess(line.rest)
         [] line.scheme = "ss"    -> PlainSs(line.rest)
         [] OTHER                 -> TRUE

\* The lines the results of a payload are about.
Lines(payload) == IF ~IsList(payload) /\ IsBlob(Links(payload))
                  THEN Links(Blob[Links(payload)[1].rest[1]]) ELSE Links(payload)

\* The engine's results, line for line: as long as no line throws, the list is as long as
\* the engine's, and at a plain line it has the same profile or the same error, whatever
\* the other lines are.
MirrorsCore ==
    results # <<>> =>
        LET core == parse_subscription(imported)
        IN  /\ Len(results) = Len(core)
            /\ \A i \in DOMAIN results :
                  (i \in DOMAIN Lines(imported) => Plain(Lines(imported)[i])) => results[i] = core[i]

\* A link is its profile: whatever is listed as valid can be used and is used as listed,
\* and the QR code of the active profile, read by another preview, gives that profile
\* alone; what the panel shows is what a reload will restore.
LinkIsTheProfile ==
    /\ \A i \in DOMAIN results : results[i].ok => parseSubscription(<<results[i].raw>>) = <<results[i]>>
    /\ active # None =>
          LET again == parseSubscription(<<active.raw>>)
          IN  /\ Len(again) = 1 /\ again[1].ok
              /\ again[1].protocol = active.protocol /\ again[1].address = active.address
              /\ again[1].port = active.port
    /\ active = stored

(* What the code says and does not do. *)

\* subscription.ts: "TS mirror of vor-engine subscription.rs", for every link.
MirrorsEveryLink ==
    results # <<>> => results = parse_subscription(imported)

\* A payload that was imported is listed.
ImportIsListed == imported # None => results # <<>>
=============================================================================
