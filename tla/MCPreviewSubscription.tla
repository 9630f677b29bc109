------------------------ MODULE MCPreviewSubscription ------------------------
(* Instances of PreviewSubscription for TLC: small families of links. *)
EXTENDS PreviewSubscription, TLC

\* The delimiters, the pieces, an escape and a % that starts none.
MCTokens == {"#", "?", "&", "=", "@", ":", "/", "+", "[", "]", "%40", "%zz", "id", "host", "1", "443",
             "0", "65537", "x", "sni", "path", "name", "a", "b", "ed", "2048", "tag", "aes", "pw", "p",
             "w", "doc", "doc text", "low", "high", "noadd", "null", "b64(cred)", "b64(nocred)",
             "b64(whole)", "b64(at)", "b64(late)", "b64(doc)", "b64(text)", "b64(low)", "b64(high)",
             "b64(noadd)", "b64(null)", "b64(cred)~", "b64(list)"}

\* A port, the two limits and a number no port has.
MCNumber == "443" :> 443 @@ "0" :> 0 @@ "65537" :> 65537
MCEscape == "%40" :> "@"
MCBroken == {"%zz"}

\* Credentials, whole shadowsocks links, JSON documents; and text that is none of these.
MCBase64 ==
    "b64(cred)"   :> <<"aes", ":", "pw">> @@
    "b64(nocred)" :> <<"aes">> @@
    "b64(whole)"  :> <<"aes", ":", "pw", "@", "host", ":", "443">> @@
    "b64(at)"     :> <<"aes", ":", "p", "@", "w", "@", "host", ":", "443">> @@
    "b64(late)"   :> <<"aes", "@", "host", ":", "443">> @@
    "b64(doc)"    :> <<"doc">> @@ "b64(text)" :> <<"doc text">> @@ "b64(low)" :> <<"low">> @@
    "b64(high)"   :> <<"high">> @@ "b64(noadd)" :> <<"noadd">> @@ "b64(null)" :> <<"null">>

\* base64 whose last bits are not zero.
MCSloppy == "b64(cred)~" :> <<"aes", ":", "pw">>

PortNumber(n) == [is |-> "number", number |-> n]
PortText(s)   == [is |-> "text", text |-> s]
Doc(add, port) ==
    [add |-> add, port |-> port, id |-> <<"id">>, scy |-> None,
     params |-> [k \in TrojanKeys |-> IF k = "sni" THEN <<"name">> ELSE None]]
MCJson ==
    "doc"      :> Doc(<<"host">>, PortNumber(443)) @@
    "doc text" :> Doc(<<"host">>, PortText(<<"443">>)) @@
    "low"      :> Doc(<<"host">>, PortText(<<"443", "x">>)) @@
    "high"     :> Doc(<<"host">>, PortNumber(65537)) @@
    "noadd"    :> Doc(None, [is |-> "absent"]) @@
    "null"     :> NullJson

Link(scheme, rest) == [scheme |-> scheme, rest |-> rest]

Users   == {<<"id", "@">>, <<"id", "%40", "+", "@">>, <<>>}
Hosts   == {<<"host", ":", "443", "/">>, <<"[", ":", ":", "1", "]", ":", "443">>, <<"host">>,
            <<"host", "]", ":", "443">>, <<"host", ":", "0">>, <<"host", ":", "65537">>, <<"host", ":", "443", "x">>}
Queries == {<<>>, <<"?", "sni", "=", "name", "&", "path", "=", "a", "+", "b">>,
            <<"?", "path", "=", "a", "?", "ed", "=", "2048">>, <<"?", "sni", "&", "sni", "=", "name">>,
            <<"?", "path", "=", "a", "%40", "%zz">>}
Tags    == {<<>>, <<"#", "tag", "?">>}
Urls    == {Link(s, u \o h \o q \o t) :
               s \in {"vless", "trojan"}, u \in Users, h \in Hosts, q \in Queries, t \in Tags}

SsRests == {<<c, "@">> \o h : c \in {"b64(cred)", "b64(nocred)", "b64(cred)~", "aes"}, h \in Hosts}
           \cup {<<c>> : c \in {"b64(whole)", "b64(at)", "b64(late)", "b64(cred)", "aes"}}
SsLinks == {Link("ss", r \o t) : r \in SsRests, t \in {<<>>, <<"#", "tag">>}}

VmessLinks == {Link("vmess", <<c>>) : c \in {"aes", "b64(cred)", "b64(doc)", "b64(text)", "b64(low)",
                                            "b64(high)", "b64(noadd)", "b64(null)"}}

Good    == Link("trojan", <<"id", "@", "host", ":", "443">>)
Bad     == Link("vless", <<"host">>)
Killer  == Link("vmess", <<"b64(null)">>)
Blank   == Link(NoScheme, <<>>)
Mailbox == Link("mailto", <<"id">>)
Word    == Link(NoScheme, <<"aes">>)

MCBlob == "b64(list)" :> <<Good, Blank, Bad, Word>>

MCPayloads ==
    {<<l>> : l \in Urls \cup SsLinks \cup VmessLinks}
    \cup {<<>>, <<Blank>>, <<Word>>, <<Word, Good, Mailbox>>, <<Bad, Blank, Good>>, <<Good, Killer>>,
          <<Link(NoScheme, <<"b64(list)">>)>>, <<Blank, Link(NoScheme, <<"b64(list)">>)>>}
=============================================================================
