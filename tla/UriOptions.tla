------------------------------ MODULE UriOptions ------------------------------
(***************************************************************************)
(* What MongoDB\Driver\Manager::__construct() makes of a connection string, *)
(* URI options and driver options: Manager.c and the functions of           *)
(* php_phongo.c that phongo_manager_init calls before a client is made.     *)
(*                                                                         *)
(* Each function is one step; the loops over the options are folds.  An    *)
(* option is a record of its key and its value, whose field names the BSON *)
(* type; the keys are those of a PHP array, in which one option may be      *)
(* there in several spellings.  libmongoc parses the connection string and stores single options; *)
(* the value NULL stands for one that its setters do not take.              *)
(***************************************************************************)
EXTENDS Integers, Sequences, SequencesExt, FiniteSets

CONSTANTS
    Calls,          \* arguments of the constructor: [uri, options, driver]
    Text,           \* the strings among them
    Spellings,      \* other spellings of a key: [spelling -> key]
    Int32Max,       \* INT32_MAX
    MinStaleness,   \* MONGOC_SMALLEST_MAX_STALENESS_SECONDS
    MaxCalls,       \* bound: calls of the constructor
    NULL

VARIABLES
    call,       \* the arguments of the call that is running, or NULL
    phase,      \* the function that runs next
    uri,        \* mongoc_uri_t
    driver,     \* driver options, those of the stream context included
    ssl,        \* mongoc_ssl_opt_t, or NULL
    config,     \* what the new client is configured with, or NULL
    pclients,   \* persistent clients: [arguments -> configuration]
    exception,  \* EG(exception)
    results     \* what the calls so far came to

vars == <<call, phase, uri, driver, ssl, config, pclients, exception, results>>

-------------------------------------------------------------------------------
(* Functions with a value more, or with the values of another before theirs *)

Put(f, key, value) == [k \in DOMAIN f \cup {key} |-> IF k = key THEN value ELSE f[k]]
Over(f, g) == [k \in DOMAIN f \cup DOMAIN g |-> IF k \in DOMAIN f THEN f[k] ELSE g[k]]

-------------------------------------------------------------------------------
(* Folds that stop at the first error *)

Ok(value) == [value |-> value, ok |-> TRUE]
Refused(value) == [value |-> value, ok |-> FALSE]

ForEach(Op(_, _), value, options) ==
    LET after[n \in 0..Len(options)] ==
          IF n = 0 THEN Ok(value)
          ELSE LET acc == after[n - 1]
               IN IF acc.ok THEN Op(acc.value, options[n]) ELSE acc
    IN after[Len(options)]

-------------------------------------------------------------------------------
(* php_phongo_apply_options_to_uri *)

BoolKeys == {"tls", "tlsInsecure", "tlsAllowInvalidCertificates",
             "tlsAllowInvalidHostnames", "tlsDisableOCSPEndpointCheck",
             "tlsDisableCertificateRevocationCheck", "directConnection"}
Int32Keys == {"connectTimeoutMS"}
Utf8Keys == {"appname", "replicaSet", "tlsCAFile", "tlsCertificateKeyFile",
             "tlsCertificateKeyFilePassword"}
AuthKeys == {"username", "password", "authMechanism", "authSource"}
ConcernKeys == {"journal", "maxStalenessSeconds", "readConcernLevel",
                "readPreference", "readPreferenceTags", "safe", "w", "wtimeoutMS"}

Is(type, o) == type \in DOMAIN o
IsInt32(o) == Is("int", o) /\ o.int <= Int32Max

\* bson_iter_as_bool: all but false and zero count as true.
AsBool(o) == (Is("bool", o) => o.bool) /\ (Is("int", o) => o.int # 0)

Store(u, key, value) == Ok([u EXCEPT !.set = Put(@, key, value)])

\* The option that a key stands for: its case is folded (strcasecmp), and so is
\* the older name of a TLS option (mongoc_uri_canonicalize_option).
Key(o) == IF o.key \in DOMAIN Spellings THEN Spellings[o.key] ELSE o.key

\* One option; a key that is not known is ignored.
ApplyOption(u, o) ==
    CASE Key(o) \in ConcernKeys -> Ok(u)
      [] Key(o) \in BoolKeys -> Store(u, Key(o), AsBool(o))
      [] Key(o) \in Int32Keys ->
           IF IsInt32(o) THEN Store(u, Key(o), o.int) ELSE Refused(u)
      [] Key(o) \in Utf8Keys \cup AuthKeys \cup {"compressors"} ->
           IF /\ Is("text", o) /\ o.text # NULL
              /\ Key(o) = "replicaSet" => o.text # ""
             THEN Store(u, Key(o), o.text) ELSE Refused(u)
      [] Key(o) = "authMechanismProperties" ->
           IF Is("document", o) THEN Store(u, Key(o), o.document) ELSE Refused(u)
      [] Key(o) = "gssapiServiceName" ->
           IF "authMechanismProperties" \notin DOMAIN u.set /\ Is("text", o)
             THEN Store(u, "authMechanismProperties", o.text) ELSE Refused(u)
      [] OTHER -> Ok(u)

Value(u, key) == IF key \in DOMAIN u.set THEN u.set[key] ELSE NULL

External == "$external"

\* php_phongo_uri_finalize_auth: what it refuses ...
AuthOk(u) ==
    LET mechanism == Value(u, "authMechanism")
        source == Value(u, "authSource")
        anonymous == Value(u, "username") \in {NULL, ""}
    IN IF mechanism # NULL
         THEN /\ mechanism \in {"GSSAPI", "MONGODB-X509"} => source \in {NULL, External}
              /\ mechanism \notin {"MONGODB-X509", "MONGODB-AWS"} => ~anonymous
              /\ mechanism = "MONGODB-X509" => Value(u, "password") = NULL
         ELSE source \notin {NULL, External} => ~anonymous

\* ... and the source that it fills in.
AuthFinal(u) ==
    IF Value(u, "authMechanism") \in {"GSSAPI", "MONGODB-X509"}
      THEN [u EXCEPT !.set = Put(@, "authSource", External)]
      ELSE u

\* php_phongo_uri_finalize_directconnection
DirectOk(u) == Value(u, "directConnection") = TRUE => ~u.srv /\ u.hosts = 1

AppliedOptions(u, options) ==
    LET applied == ForEach(ApplyOption, u, options)
    IN IF options = <<>> THEN Ok(u) ELSE
       IF applied.ok /\ AuthOk(applied.value) /\ DirectOk(AuthFinal(applied.value))
         THEN Ok(AuthFinal(applied.value)) ELSE Refused(u)

-------------------------------------------------------------------------------
(* Read concern, read preference and write concern *)

ApplyRc(rc, o) ==
    IF Key(o) # "readConcernLevel" THEN Ok(rc) ELSE
    IF Is("text", o) THEN Ok(o.text) ELSE Refused(rc)

Modes == {"primary", "primaryPreferred", "secondary", "secondaryPreferred",
          "nearest"}

\* php_phongo_read_preference_tags_are_valid; prep_tagsets has made a document
\* of each array.
TagsValid(tags) == \A i \in DOMAIN tags : tags[i] \in {"array", "document"}

NoStaleness == -1
StalenessOk(seconds) == seconds = NoStaleness \/ seconds \in MinStaleness..Int32Max

ApplyRp(rp, o) ==
    CASE Key(o) = "readPreference" ->
           IF Is("text", o) /\ o.text \in Modes
             THEN Ok([rp EXCEPT !.mode = o.text]) ELSE Refused(rp)
      [] Key(o) = "readPreferenceTags" ->
           IF Is("array", o) /\ TagsValid(o.array)
             THEN Ok([rp EXCEPT !.tags = o.array]) ELSE Refused(rp)
      [] Key(o) = "maxStalenessSeconds" ->
           IF /\ Is("int", o) /\ StalenessOk(o.int)
              /\ o.int # NoStaleness => rp.mode # "primary"
             THEN Ok([rp EXCEPT !.staleness = o.int]) ELSE Refused(rp)
      [] OTHER -> Ok(rp)

RpOk(rp) == rp.mode = "primary" => rp.tags = <<>> /\ rp.staleness = NoStaleness

\* The values of w that are not a number of nodes, as in mongoc-write-concern.h.
Unacknowledged == {0, -1}
DefaultW == -2
W(text) == IF text = "majority" THEN -3 ELSE -4

\* A safe option that counts even after w.
SafeCountsAlways(acc) == TRUE

\* ignore is ignore_safe: w has been seen.
SafeCounts(acc) == ~acc.ignore

ApplyWc(acc, o) ==
    LET set(field, value) == Ok([acc EXCEPT !.wc[field] = value])
        setW(value) == Ok([acc EXCEPT !.wc.w = value, !.ignore = TRUE])
    IN CASE Key(o) = "safe" /\ SafeCounts(acc) ->
              IF Is("bool", o) THEN set("w", IF o.bool THEN 1 ELSE 0) ELSE Refused(acc)
         [] Key(o) = "wtimeoutMS" ->
              IF Is("int", o) /\ o.int >= 0 THEN set("wtimeout", o.int) ELSE Refused(acc)
         [] Key(o) = "journal" ->
              IF Is("bool", o) THEN set("journal", o.bool) ELSE Refused(acc)
         [] Key(o) = "w" ->
              IF Is("text", o) THEN setW(W(o.text)) ELSE
              IF IsInt32(o) /\ o.int >= -1 THEN setW(o.int) ELSE Refused(acc)
         [] OTHER -> Ok(acc)

WcOk(wc) == ~(wc.journal = TRUE /\ wc.w \in Unacknowledged)

AppliedWc(wc, options) ==
    LET applied == ForEach(ApplyWc, [wc |-> wc, ignore |-> FALSE], options)
    IN IF applied.ok /\ WcOk(applied.value.wc) THEN Ok(applied.value.wc) ELSE Refused(wc)

\* Only what the loop checks.
AppliedRpUnchecked(rp, options) == ForEach(ApplyRp, rp, options)

AppliedRp(rp, options) ==
    LET applied == ForEach(ApplyRp, rp, options)
    IN IF applied.ok /\ RpOk(applied.value) THEN applied ELSE Refused(rp)

-------------------------------------------------------------------------------
(* TLS *)

\* The driver options that stand for a URI option, the one that is preferred
\* first.
DriverTls ==
    [tlsAllowInvalidHostnames      |-> <<"allow_invalid_hostname">>,
     tlsAllowInvalidCertificates   |-> <<"weak_cert_validation", "allow_self_signed">>,
     tlsCertificateKeyFile         |-> <<"pem_file", "local_cert">>,
     tlsCertificateKeyFilePassword |-> <<"pem_pwd", "passphrase">>,
     tlsCAFile                     |-> <<"ca_file", "cafile">>]

GivenBy(keys, options) == {i \in DOMAIN keys : keys[i] \in DOMAIN options}
Preferred(keys, options) == options[keys[Min(GivenBy(keys, options))]]

MappedTls(options) == {t \in DOMAIN DriverTls : GivenBy(DriverTls[t], options) # {}}

\* Driver options that give way to the URI.
AppliedDriverKeeps(u, options) ==
    LET set == [t \in MappedTls(options) |-> Preferred(DriverTls[t], options)]
    IN Ok([u EXCEPT !.set = Over(@, set)])

AppliedDriver(u, options) ==
    LET set == [t \in MappedTls(options) |-> Preferred(DriverTls[t], options)]
    IN IF \E t \in DOMAIN set : set[t] = NULL THEN Refused(u)
       ELSE Ok([u EXCEPT !.set = Over(set, @)])

\* php_phongo_uri_finalize_tls
Relaxations == {"tlsAllowInvalidCertificates", "tlsAllowInvalidHostnames",
                "tlsDisableOCSPEndpointCheck", "tlsDisableCertificateRevocationCheck"}
Revocation == {"tlsDisableOCSPEndpointCheck", "tlsDisableCertificateRevocationCheck"}

TlsOk(u) ==
    /\ "tlsInsecure" \in DOMAIN u.set => DOMAIN u.set \cap Relaxations = {}
    /\ "tlsAllowInvalidCertificates" \in DOMAIN u.set =>
         DOMAIN u.set \cap Revocation = {}

\* mongoc_uri_get_tls: any of the TLS options turns it on, unless it is off.
TlsKeys == {"tlsInsecure", "tlsCAFile", "tlsCertificateKeyFile",
            "tlsCertificateKeyFilePassword"} \cup Relaxations
Tls(u) == IF "tls" \in DOMAIN u.set THEN u.set["tls"] ELSE DOMAIN u.set \cap TlsKeys # {}

\* php_phongo_mongoc_ssl_opts_from_uri; libmongoc does the same for itself.
SslFromUri(u) ==
    LET insecure == Value(u, "tlsInsecure") = TRUE
        flag(key) == IF key \in DOMAIN u.set THEN u.set[key] ELSE insecure
    IN [pem |-> Value(u, "tlsCertificateKeyFile"),
        pwd |-> Value(u, "tlsCertificateKeyFilePassword"),
        ca |-> Value(u, "tlsCAFile"),
        weak |-> flag("tlsAllowInvalidCertificates"),
        anyhost |-> flag("tlsAllowInvalidHostnames"),
        dir |-> NULL, crl |-> NULL]

NoSsl == [pem |-> NULL, pwd |-> NULL, ca |-> NULL, weak |-> FALSE,
          anyhost |-> FALSE, dir |-> NULL, crl |-> NULL]

\* php_phongo_make_ssl_opt
SslOpt(u, options) ==
    LET dirs == <<"ca_dir", "capath">>
        opt == [(IF Tls(u) THEN SslFromUri(u) ELSE NoSsl) EXCEPT
                  !.dir = IF GivenBy(dirs, options) = {} THEN NULL
                          ELSE Preferred(dirs, options),
                  !.crl = IF "crl_file" \in DOMAIN options
                            THEN options["crl_file"] ELSE NULL]
    IN IF DOMAIN options = {} \/ opt = NoSsl THEN NULL ELSE opt

-------------------------------------------------------------------------------
(* The constructor *)

NoUri == [srv |-> FALSE, hosts |-> 1, set |-> <<>>, rc |-> NULL,
          rp |-> [mode |-> "primary", tags |-> <<>>, staleness |-> NoStaleness],
          wc |-> [w |-> DefaultW, journal |-> NULL, wtimeout |-> 0]]

Init ==
    /\ call = NULL /\ phase = "none"
    /\ uri = NoUri /\ driver = <<>> /\ ssl = NULL /\ config = NULL
    /\ pclients = <<>>
    /\ exception = FALSE
    /\ results = <<>>

\* The call ends; what it has built is given up unless it is the client's.
Return(outcome, made) ==
    /\ results' = Append(results, [call |-> call, outcome |-> outcome, config |-> made])
    /\ call' = NULL /\ phase' = "none"
    /\ uri' = NoUri /\ driver' = <<>> /\ ssl' = NULL /\ config' = NULL
    /\ exception' = FALSE

Throw == Return("exception", NULL) /\ UNCHANGED pclients

\* php_phongo_manager_merge_context_options: the options that are there are
\* kept.
MergeContext(options) ==
    IF "context" \notin DOMAIN options THEN Ok(options) ELSE
    IF options["context"] = NULL THEN Refused(options) ELSE
    Ok([k \in (DOMAIN options \cup DOMAIN options["context"]) \ {"context"} |->
          Over(options, options["context"])[k]])

Persistent(options) ==
    "disableClientPersistence" \in DOMAIN options => ~options["disableClientPersistence"]

\* The options are prepared, and the hash of the arguments looked for among
\* the persistent clients before anything is validated.
Construct(c) ==
    /\ call' = c
    /\ LET merged == MergeContext(c.driver)
       IN IF merged.ok
            THEN driver' = merged.value /\ phase' = "find"
            ELSE driver' = <<>> /\ phase' = "throw"
    /\ UNCHANGED <<uri, ssl, config, pclients, exception, results>>

Thrown == phase = "throw" /\ Throw

\* An option that cannot be converted to BSON, and a string that libmongoc
\* cannot parse, are refused.
Convertible(options) == \A i \in DOMAIN options : ~Is("unexpected", options[i])

FindClient ==
    /\ phase = "find"
    /\ IF Persistent(driver) /\ call \in DOMAIN pclients
         THEN Return("manager", pclients[call]) /\ UNCHANGED pclients
       ELSE IF ~Convertible(call.options) \/ call.uri = NULL THEN Throw
         ELSE /\ phase' = "options"
              /\ uri' = call.uri
              /\ UNCHANGED <<call, driver, ssl, config, pclients, exception, results>>

\* The next function, or the way out.
Goes(applied, field, next) ==
    IF applied.ok
      THEN /\ uri' = IF field = "uri" THEN applied.value
                     ELSE [uri EXCEPT ![field] = applied.value]
           /\ phase' = next
           /\ UNCHANGED <<call, driver, ssl, config, pclients, exception, results>>
      ELSE Throw

ApplyOptions == phase = "options" /\ Goes(AppliedOptions(uri, call.options), "uri", "rc")
ApplyReadConcern == phase = "rc" /\ Goes(ForEach(ApplyRc, uri.rc, call.options), "rc", "rp")
ApplyReadPreference == phase = "rp" /\ Goes(AppliedRp(uri.rp, call.options), "rp", "wc")
ApplyWriteConcern == phase = "wc" /\ Goes(AppliedWc(uri.wc, call.options), "wc", "driver")
ApplyDriverOptions == phase = "driver" /\ Goes(AppliedDriver(uri, driver), "uri", "ssl")

MakeSslOpt ==
    /\ phase = "ssl"
    /\ ssl' = SslOpt(uri, driver)
    /\ phase' = "tls"
    /\ UNCHANGED <<call, uri, driver, config, pclients, exception, results>>

FinalizeTls ==
    /\ phase = "tls"
    /\ IF TlsOk(uri)
         THEN /\ phase' = "client"
              /\ UNCHANGED <<call, uri, driver, ssl, config, pclients, exception, results>>
         ELSE Throw

\* php_phongo_make_mongo_client: handshake data that is not made of strings
\* raises an exception, which nobody looks at before the client is made and
\* registered.  (In a build with TLS libmongoc makes a client of every URI it
\* has parsed.)  The SSL options replace the ones it took from the URI.
HandshakeOk(options) == "driver" \in DOMAIN options => options["driver"] = "strings"

Effective(u, opt) ==
    [uri |-> u,
     ssl |-> IF opt # NULL THEN opt ELSE IF Tls(u) THEN SslFromUri(u) ELSE NULL]

MakeClient ==
    /\ phase = "client"
    /\ config' = Effective(uri, ssl)
    /\ exception' = ~HandshakeOk(driver)
    /\ phase' = "configure"
    /\ UNCHANGED <<call, uri, driver, ssl, pclients, results>>

\* Encryption and server API options; then the client is registered, and the
\* Manager if no exception is pending.
Configurable(options) ==
    \A k \in {"autoEncryption", "serverApi"} \cap DOMAIN options : options[k] = "valid"

Configure ==
    /\ phase = "configure"
    /\ IF ~Configurable(driver) THEN Throw
       ELSE /\ pclients' = IF Persistent(driver) THEN Put(pclients, call, config)
                           ELSE pclients
            /\ IF exception THEN Return("exception", NULL) ELSE Return("manager", config)

\* Calls with other arguments have another hash and share nothing: only calls
\* with the same ones, up to the order of the options, follow each other.
Following ==
    IF results = <<>> THEN Calls
    ELSE LET c == results[1].call
         IN {[c EXCEPT !.options = l] : l \in SetToSeqs(ToSet(c.options))}

Next ==
    \/ call = NULL /\ Len(results) < MaxCalls /\ \E c \in Following : Construct(c)
    \/ Thrown \/ FindClient \/ ApplyOptions \/ ApplyReadConcern
    \/ ApplyReadPreference \/ ApplyWriteConcern \/ ApplyDriverOptions
    \/ MakeSslOpt \/ FinalizeTls \/ MakeClient \/ Configure

Spec == Init /\ [][Next]_vars

-------------------------------------------------------------------------------
(* Properties *)

\* The options that PHP gives to libbson; no key is there twice, but two may be
\* spellings of one.
Option ==
    [key : Text, bool : BOOLEAN] \cup [key : Text, int : Int] \cup
    [key : Text, text : Text \cup {NULL}] \cup [key : Text, array : Seq(Text)] \cup
    [key : Text, document : Text] \cup [key : Text, unexpected : Text]

Distinct(options) ==
    \A i, j \in DOMAIN options : options[i].key = options[j].key => i = j

\* What libmongoc parses, and has validated: the finalize functions are copies
\* of its own.
IsUri(u) ==
    /\ u = [srv |-> u.srv, hosts |-> u.hosts, set |-> [k \in DOMAIN u.set |-> u.set[k]],
            rc |-> u.rc,
            rp |-> [mode |-> u.rp.mode, tags |-> u.rp.tags, staleness |-> u.rp.staleness],
            wc |-> [w |-> u.wc.w, journal |-> u.wc.journal, wtimeout |-> u.wc.wtimeout]]
    /\ \A k \in DOMAIN u.set :
         /\ k \in BoolKeys => u.set[k] \in BOOLEAN
         /\ k \in Utf8Keys => u.set[k] \in Text
    /\ AuthOk(u) /\ DirectOk(u) /\ TlsOk(u) /\ RpOk(u.rp) /\ WcOk(u.wc)

\* Driver options and those of a stream context, as the constructor converts
\* them.
DriverBools == {"allow_invalid_hostname", "weak_cert_validation", "allow_self_signed",
                "disableClientPersistence"}
AreDriverOptions(options) ==
    \A k \in DOMAIN options \ {"context"} :
      options[k] \in IF k \in DriverBools THEN BOOLEAN ELSE Text \cup {NULL}

\* Arguments that the constructor can be called with.
IsCall(c) ==
    /\ c = [uri |-> c.uri, options |-> c.options, driver |-> c.driver]
    /\ c.uri = NULL \/ IsUri(c.uri)
    /\ c.options \in Seq(Option) /\ Distinct(c.options)
    /\ AreDriverOptions(c.driver)
    /\ "context" \in DOMAIN c.driver =>
         c.driver["context"] = NULL \/ AreDriverOptions(c.driver["context"])

ASSUME CallsAssumption == \A c \in Calls : IsCall(c)

Ssl == [pem : Text \cup {NULL}, pwd : Text \cup {NULL}, ca : Text \cup {NULL},
        weak : BOOLEAN, anyhost : BOOLEAN, dir : Text \cup {NULL}, crl : Text \cup {NULL}]

ASSUME NullAssumption == NULL \notin Text /\ NULL \notin BOOLEAN /\ NULL \notin Ssl
ASSUME TextAssumption == {"GSSAPI", "MONGODB-X509"} \subseteq Text

\* The last of the spellings of a key.
IsLast(options, i) ==
    \A j \in DOMAIN options : Key(options[j]) = Key(options[i]) => j <= i

Position(options, key) ==
    IF \E i \in DOMAIN options : Key(options[i]) = key
      THEN CHOOSE i \in DOMAIN options : Key(options[i]) = key /\ IsLast(options, i)
      ELSE 0

Before(options, key1, key2) ==
    Position(options, key1) # 0 /\ Position(options, key1) < Position(options, key2)

\* The three pairs of options whose order matters: maxStalenessSeconds is
\* checked against the mode so far, a gssapiServiceName must not come after the
\* properties, and the type of safe is looked at only before w.
OrderMatters(options) ==
    \/ Before(options, "maxStalenessSeconds", "readPreference")
    \/ Before(options, "readPreference", "maxStalenessSeconds")
    \/ Before(options, "authMechanismProperties", "gssapiServiceName")
    \/ Before(options, "gssapiServiceName", "authMechanismProperties")
    \/ \E i \in DOMAIN options : Key(options[i]) = "safe" /\ ~Is("bool", options[i])

\* Of the spellings of one key, the same one comes last.
SameLast(p, q) ==
    \A i \in DOMAIN p, j \in DOMAIN q :
      Key(p[i]) = Key(q[j]) /\ IsLast(p, i) /\ IsLast(q, j) => p[i] = q[j]

\* Constructing a Manager again, with the same arguments or with its options in
\* another order, has the same outcome and gives a client that is configured
\* in the same way; a call that was refused is refused again, although a
\* client that is found in the registry is not validated (phongo_manager_init).
\* Of the order, only the three pairs above count, and which of several
\* spellings of one option comes last (manager-ctor-duplicate-option-*.phpt).
\* Handshake data that are not strings are the exception: they are refused only
\* after the client has been registered.
SameOutcome ==
    \A i, j \in DOMAIN results :
      LET c == results[i].call
          d == results[j].call
      IN /\ c = d \/ (~OrderMatters(c.options) /\ SameLast(c.options, d.options))
         /\ HandshakeOk(MergeContext(c.driver).value)
         =>
         /\ results[i].outcome = results[j].outcome
         /\ results[i].config = results[j].config

\* What the options ask for, by their last spelling, or else the connection
\* string.
LastAsks(options, key, type, default) ==
    LET i == Position(options, key) IN IF i = 0 THEN default ELSE options[i][type]

\* The configuration of every client is consistent, whether its parts come
\* from the connection string, the options or the driver options.  Its read
\* concern, read preference and write concern are what was asked for, by the last
\* spelling of each option; the acknowledgement of writes, by w, in whatever
\* position, before safe, before the connection string
\* (php_phongo_apply_*_to_uri and php_phongo_uri_finalize_*).
ClientConsistent ==
    \A i \in DOMAIN results :
      results[i].outcome = "manager" =>
        LET u == results[i].config.uri
            given == results[i].call.uri
            options == results[i].call.options
            w == Position(options, "w")
            safe == Position(options, "safe")
            asked(o) == IF Is("int", o) THEN o.int ELSE W(o.text)
        IN /\ AuthOk(u) /\ DirectOk(u) /\ TlsOk(u) /\ RpOk(u.rp) /\ WcOk(u.wc)
           /\ Value(u, "authMechanism") = "GSSAPI" /\ options # <<>> =>
                Value(u, "authSource") = External
           /\ u.rc = LastAsks(options, "readConcernLevel", "text", given.rc)
           /\ u.rp.mode = LastAsks(options, "readPreference", "text", given.rp.mode)
           /\ u.rp.tags = LastAsks(options, "readPreferenceTags", "array", given.rp.tags)
           /\ u.rp.staleness =
                LastAsks(options, "maxStalenessSeconds", "int", given.rp.staleness)
           /\ u.wc.journal = LastAsks(options, "journal", "bool", given.wc.journal)
           /\ u.wc.wtimeout = LastAsks(options, "wtimeoutMS", "int", given.wc.wtimeout)
           /\ u.wc.w = IF w # 0 THEN asked(options[w]) ELSE
                       IF safe # 0 THEN (IF options[safe].bool THEN 1 ELSE 0)
                       ELSE given.wc.w

\* What the arguments ask of TLS: by the driver option that is preferred, else by
\* the option, else by the connection string.
Asked(c, t) ==
    LET merged == MergeContext(c.driver).value
        o == c.options[Position(c.options, t)]
    IN IF t \in MappedTls(merged) THEN Preferred(DriverTls[t], merged) ELSE
       IF Position(c.options, t) # 0 THEN (IF t \in BoolKeys THEN AsBool(o) ELSE o.text)
       ELSE Value(c.uri, t)

\* A check of the server's certificate is left out only if it was asked for;
\* and TLS that was asked for in any way is used, with the certificates it names
\* (php_phongo_apply_driver_options_to_uri, php_phongo_make_ssl_opt).
TlsAsAsked ==
    \A i \in DOMAIN results :
      results[i].outcome = "manager" =>
        LET asked(t) == Asked(results[i].call, t)
            used == results[i].config.ssl
            off == asked("tls") = FALSE
            any == \E t \in TlsKeys : asked(t) # NULL
        IN /\ ~off /\ (any \/ asked("tls") = TRUE) =>
                /\ used # NULL
                /\ used.weak = ({asked("tlsAllowInvalidCertificates"),
                                 asked("tlsInsecure")} \cap {TRUE} # {})
                /\ used.anyhost = ({asked("tlsAllowInvalidHostnames"),
                                    asked("tlsInsecure")} \cap {TRUE} # {})
                /\ used.pem = asked("tlsCertificateKeyFile")
                /\ used.ca = asked("tlsCAFile")
           /\ used # NULL /\ (used.weak \/ used.anyhost) => ~off

================================================================================
