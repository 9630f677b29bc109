---------------------------- MODULE Subscription ----------------------------
(***************************************************************************)
(* The share-link parser of the adaptive engine (core/vor-engine,            *)
(* subscription.rs), which the preview mirrors: pure operators.              *)
(*                                                                         *)
(* Text is a sequence of tokens: a delimiter, an escape, or a piece without   *)
(* any (a name, a number, a run of base64), which is one string.  What a      *)
(* piece encodes is given by the constants.  A line is split at its "://";    *)
(* a payload is the sequence of its trimmed lines.  All errors but the empty  *)
(* input and the unknown scheme are "malformed".  The engine gives every      *)
(* profile its protocol as tag; tags are left out.  A profile keeps the link it *)
(* was read from.                                                            *)
(***************************************************************************)
EXTENDS Integers, Sequences

CONSTANTS Tokens,   \* what text is made of
          Number,   \* the value of each piece that is a decimal number
          Escape,   \* the character of each escape %xx
          Broken,   \* pieces with a % that starts no escape
          Base64,   \* the text of each piece that decodes as base64
          Json,     \* the value of each piece of decoded text that is JSON
          Blob,     \* the lines of each piece that decodes to a list of links
          NullJson, \* the JSON value null
          Foreign,  \* schemes that no parser knows
          NoScheme, \* the scheme of a line without "://"
          None      \* an absent value

Schemes == {"vless", "vmess", "trojan", "ss"}
Text == Seq(Tokens)
Line == [scheme : Schemes \cup Foreign \cup {NoScheme}, rest : Text]

ASSUME SubscriptionAssumption ==
    /\ Number \in [DOMAIN Number -> Nat] /\ Base64 \in [DOMAIN Base64 -> Text]
    /\ Blob \in [DOMAIN Blob -> Seq(Line)]
    /\ \A piece \in DOMAIN Json :
          LET v == Json[piece]
          IN  v # NullJson /\ v.port.is = "number" => v.port.number \in Nat
    /\ None \notin Nat \cup Text /\ {NoScheme} \cap (Schemes \cup Foreign) = {}
    /\ Schemes \cap Foreign = {}

Malformed   == [ok |-> FALSE, error |-> "malformed"]
Unsupported == [ok |-> FALSE, error |-> "unsupported_scheme"]
EmptyInput  == [ok |-> FALSE, error |-> "empty"]
-----------------------------------------------------------------------------
(* Text *)

Has(s, c)     == \E i \in DOMAIN s : s[i] = c
First(s, c)   == CHOOSE i \in DOMAIN s : s[i] = c /\ \A j \in 1..(i - 1) : s[j] # c
Final(s, c)   == CHOOSE i \in DOMAIN s : s[i] = c /\ \A j \in (i + 1)..Len(s) : s[j] # c
Before(s, i)  == SubSeq(s, 1, i - 1)
After(s, i)   == SubSeq(s, i + 1, Len(s))

\* What stands before the first c, all of s if there is none; what stands after it.
Head1(s, c) == IF Has(s, c) THEN Before(s, First(s, c)) ELSE s
Rest1(s, c) == IF Has(s, c) THEN After(s, First(s, c)) ELSE <<>>

\* s without the tokens of C at its end, or at both ends.
TrimEnd(s, C) ==
    SubSeq(s, 1, CHOOSE n \in 0..Len(s) : /\ \A i \in (n + 1)..Len(s) : s[i] \in C
                                          /\ n = 0 \/ s[n] \notin C)
Trim(s, C) ==
    LET t == TrimEnd(s, C)
        n == CHOOSE n \in 0..Len(t) : /\ \A i \in 1..n : t[i] \in C
                                      /\ n = Len(t) \/ t[n + 1] \notin C
    IN  After(t, n)

\* Where the pieces of a query with this key start.
Keyed(q, key) == {i \in DOMAIN q : /\ i = 1 \/ q[i - 1] = "&"
                                   /\ q[i] = key
                                   /\ i = Len(q) \/ q[i + 1] \in {"=", "&"}}
Earliest(S) == CHOOSE i \in S : \A j \in S : i <= j

Unescaped(s) == [i \in DOMAIN s |-> IF s[i] \in DOMAIN Escape THEN Escape[s[i]]
                                    ELSE IF s[i] = "+" THEN " " ELSE s[i]]

Profile(protocol, hp, uuid, password, encryption, params) ==
    [ok |-> TRUE, protocol |-> protocol, address |-> hp.host, port |-> hp.port, uuid |-> uuid,
     password |-> password, encryption |-> encryption, params |-> params]

\* A result, with the link it was read from if it is a profile.
WithLink(p, line) ==
    IF p.ok THEN [f \in DOMAIN p \cup {"raw"} |-> IF f = "raw" THEN line ELSE p[f]] ELSE p

NoParams == [k \in {} |-> None]
VlessKeys  == {"sni", "pbk", "sid", "path", "host"}
TrojanKeys == {"sni", "path", "host"}
-----------------------------------------------------------------------------
(* subscription.rs *)

\* None is what every function below returns for an Err.
b64_decode_forgiving(s) ==
    IF s = <<>> THEN s
    ELSE IF Len(s) = 1 /\ s[1] \in DOMAIN Base64 THEN Base64[s[1]] ELSE None

\* A broken escape is left as it is, and the others are decoded.
urldecode(s) == Unescaped(s)

query_get(q, key) ==
    LET at == {i \in Keyed(q, key) : i < Len(q) /\ q[i + 1] = "="}
    IN  IF at = {} THEN None ELSE urldecode(Head1(After(q, Earliest(at) + 1), "&"))

Authority(rest) == Head1(Head1(rest, "#"), "?")
Query(rest)     == Rest1(Head1(rest, "#"), "?")

parse_host_port(s) ==
    LET t == TrimEnd(s, {"/"})
        port == After(t, Final(t, ":"))
    IN  IF Has(t, ":") /\ Len(port) = 1 /\ port[1] \in DOMAIN Number /\ Number[port[1]] < 65536
        THEN [host |-> Trim(Before(t, Final(t, ":")), {"[", "]"}), port |-> Number[port[1]]]
        ELSE None

\* vless and trojan differ in what the user information is and in the keys they read.
parse_url(protocol, rest) ==
    LET auth == Authority(rest)
        user == urldecode(Head1(auth, "@"))
        hp   == parse_host_port(Rest1(auth, "@"))
        keys == IF protocol = "vless" THEN VlessKeys ELSE TrojanKeys
    IN  IF ~Has(auth, "@") \/ hp = None THEN Malformed
        ELSE Profile(protocol, hp, IF protocol = "vless" THEN user ELSE <<>>,
                     IF protocol = "trojan" THEN user ELSE None, None,
                     [k \in keys |-> query_get(Query(rest), k)])

\* A number of any size, or text that is one; what does not fit u16 loses its high bits.
vmess_port(v) ==
    IF v.port.is = "number" THEN v.port.number % 65536
    ELSE IF v.port.is = "text" /\ Len(v.port.text) = 1 /\ v.port.text[1] \in DOMAIN Number
    THEN Number[v.port.text[1]] % 65536 ELSE None

parse_vmess(rest) ==
    LET text == b64_decode_forgiving(rest)
    IN  IF text = None \/ Len(text) # 1 \/ text[1] \notin DOMAIN Json THEN Malformed
        ELSE LET v == Json[text[1]]
             IN  IF v = NullJson THEN Malformed
                 ELSE IF v.add = None \/ vmess_port(v) = None THEN Malformed
                 ELSE Profile("vmess", [host |-> v.add, port |-> vmess_port(v)], v.id, None, v.scy, v.params)

Shadowsocks(hp, method, password) == Profile("shadowsocks", hp, <<>>, password, method, NoParams)

\* ss://base64(method:password)@host:port or ss://base64(method:password@host:port)
parse_ss(rest) ==
    LET main == Head1(rest, "#")
        all  == b64_decode_forgiving(main)
        sip  == Has(main, "@")
        cred == IF sip THEN b64_decode_forgiving(Head1(main, "@"))
                ELSE IF all = None THEN None ELSE Head1(all, "@")
        hp   == IF sip THEN parse_host_port(Rest1(main, "@"))
                ELSE IF all = None THEN None ELSE parse_host_port(Rest1(all, "@"))
    IN  IF cred = None \/ hp = None THEN Malformed
        ELSE IF ~Has(cred, ":") THEN Malformed
        ELSE Shadowsocks(hp, Head1(cred, ":"), Rest1(cred, ":"))

parse_link(line) ==
    WithLink(CASE line.scheme \in {"vless", "trojan"} -> parse_url(line.scheme, line.rest)
               [] line.scheme = "vmess" -> parse_vmess(line.rest)
               [] line.scheme = "ss"    -> parse_ss(line.rest)
               [] OTHER                 -> Unsupported, line)

\* filter(|l| !l.is_empty()), from the first line on.
NotBlank(line) == line.scheme # NoScheme \/ line.rest # <<>>
Links(lines) ==
    LET upTo[n \in 0..Len(lines)] ==
            IF n = 0 THEN <<>>
            ELSE IF NotBlank(lines[n]) THEN Append(upTo[n - 1], lines[n]) ELSE upTo[n - 1]
    IN  upTo[Len(lines)]
IsList(lines) == \E i \in DOMAIN lines : lines[i].scheme # NoScheme

\* A payload without "://" is a base64 blob, if it is one piece and decodes.
IsBlob(lines) == Len(lines) = 1 /\ Len(lines[1].rest) = 1 /\ lines[1].rest[1] \in DOMAIN Blob

parse_subscription(lines) ==
    IF Links(lines) = <<>> THEN <<EmptyInput>>
    ELSE IF IsList(lines) THEN [i \in DOMAIN Links(lines) |-> parse_link(Links(lines)[i])]
    ELSE IF ~IsBlob(Links(lines)) THEN <<Malformed>>
    ELSE LET links == Links(Blob[Links(lines)[1].rest[1]])
         IN  [i \in DOMAIN links |-> parse_link(links[i])]
=============================================================================
