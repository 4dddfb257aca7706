------------------------------ MODULE MCUriOptions ------------------------------
(* Bounded instance of UriOptions for TLC. *)
EXTENDS UriOptions

B(key, b) == [key |-> key, bool |-> b]
I(key, n) == [key |-> key, int |-> n]
T(key, s) == [key |-> key, text |-> s]
A(key, a) == [key |-> key, array |-> a]
D(key, d) == [key |-> key, document |-> d]

Strings == STRING

\* Keys in other cases, and an older name.
OtherSpellings ==
    [W |-> "w", Safe |-> "safe", wTimeoutMs |-> "wtimeoutMS",
     readpreference |-> "readPreference", readpreferencetags |-> "readPreferenceTags",
     readconcernlevel |-> "readConcernLevel", authsource |-> "authSource",
     GSSAPISERVICENAME |-> "gssapiServiceName", ssl |-> "tls", tlscafile |-> "tlsCAFile"]

\* The options of each group, several values of a key.
WcGroup ==
    {I("w", n) : n \in {-2, -1, 0, 2}} \cup {T("w", "majority"), B("w", TRUE),
     B("safe", TRUE), B("safe", FALSE), T("safe", "x"), B("journal", TRUE),
     B("journal", FALSE), I("wtimeoutMS", -1), I("wtimeoutMS", 201), I("wTimeoutMs", 5),
     I("W", 0), B("Safe", TRUE)}
RpGroup ==
    {T("readPreference", m) : m \in {"primary", "secondary", "other"}} \cup
    {A("readPreferenceTags", t) : t \in {<<>>, <<"document">>, <<"array">>, <<"int">>}} \cup
    {I("maxStalenessSeconds", n) : n \in {-1, 10, 90, 201}} \cup
    {T("readConcernLevel", "local"), I("readConcernLevel", 1),
     T("readconcernlevel", "majority"), T("readpreference", "nearest"),
     A("readpreferencetags", <<"array">>)}
AuthGroup ==
    {T("username", "u"), T("username", ""), T("password", "p"), I("username", 1),
     T("authMechanism", "GSSAPI"), T("authMechanism", "MONGODB-X509"),
     T("authMechanism", "SCRAM"), T("authSource", "$external"), T("authSource", "db"),
     T("authsource", "$external"), D("authMechanismProperties", "d"),
     T("gssapiServiceName", "s"), T("GSSAPISERVICENAME", "s")}
TlsGroup ==
    {B("tls", FALSE), B("tls", TRUE), I("tlsInsecure", 0), I("tlsInsecure", 1),
     B("tlsAllowInvalidCertificates", FALSE), T("tlsAllowInvalidHostnames", "false"),
     B("tlsDisableOCSPEndpointCheck", TRUE), T("tlsCAFile", "ca1"),
     T("tlsCertificateKeyFile", NULL), B("ssl", FALSE), T("tlscafile", "ca5")}
OtherGroup ==
    {B("directConnection", TRUE), I("connectTimeoutMS", 5), I("connectTimeoutMS", 201),
     T("replicaSet", ""), T("replicaSet", "rs"), T("compressors", "zlib"),
     T("unknown", "x"), [key |-> "unknown", unexpected |-> "x"], B("journal", TRUE), T("authMechanism", "SCRAM")}

\* All lists of up to n options of a group, no key twice in one spelling.
Lists(group, n) ==
    UNION {{l \in [1..k -> group] : \A i, j \in 1..k : l[i].key = l[j].key => i = j} :
             k \in 0..n}

Parsed(srv, hosts, set, rp, wc) ==
    [srv |-> srv, hosts |-> hosts, set |-> set, rc |-> NULL, rp |-> rp, wc |-> wc]
Default == Parsed(FALSE, 1, <<>>, NoUri.rp, NoUri.wc)
Secondary == [mode |-> "secondary", tags |-> <<"document">>, staleness |-> 90]
Journaled == [w |-> 1, journal |-> TRUE, wtimeout |-> 0]
Fire == [w |-> 0, journal |-> NULL, wtimeout |-> 0]

PlainUris ==
    {Default, Parsed(FALSE, 2, <<>>, Secondary, Journaled),
     Parsed(TRUE, 1, [username |-> "u"], NoUri.rp, Fire)}
TlsUris ==
    {Default, Parsed(FALSE, 1, [tlsInsecure |-> TRUE], NoUri.rp, NoUri.wc),
     Parsed(FALSE, 1, [tls |-> TRUE, tlsCAFile |-> "ca0"], NoUri.rp, NoUri.wc)}

NoDriver == <<>>
TlsDrivers ==
    {NoDriver, [weak_cert_validation |-> TRUE],
     [allow_self_signed |-> TRUE, weak_cert_validation |-> FALSE],
     [allow_invalid_hostname |-> FALSE, ca_dir |-> "d"],
     [cafile |-> "ca2", crl_file |-> "crl"],
     [context |-> [allow_self_signed |-> FALSE, cafile |-> "ca3"], ca_file |-> "ca4"],
     [context |-> NULL], [pem_file |-> NULL]}
OtherDrivers ==
    {NoDriver, [disableClientPersistence |-> TRUE], [driver |-> "strings"],
     [driver |-> "other"],
     [autoEncryption |-> "valid"], [serverApi |-> "invalid"]}

Call(u, l, d) == [uri |-> u, options |-> l, driver |-> d]
SomeCalls ==
    {Call(u, l, NoDriver) : u \in PlainUris,
       l \in Lists(WcGroup, 3) \cup Lists(RpGroup, 3) \cup Lists(AuthGroup, 3)}
    \cup {Call(u, l, d) : u \in TlsUris, l \in Lists(TlsGroup, 2), d \in TlsDrivers}
    \cup {Call(u, l, d) : u \in PlainUris \cup {NULL}, l \in Lists(OtherGroup, 2), d \in OtherDrivers}

================================================================================
