------------------------------ MODULE Servers ------------------------------
(***************************************************************************)
(* The servers of the settings, from what is typed to a connection: the    *)
(* form an address is stored in (src/src/chain/connect.rs), the two        *)
(* parsers that read a stored address (src/src/chain/mod.rs for the route, *)
(* src/src/chain/electrum.rs for the socket), the certificates accepted    *)
(* (src/src/manager/settings.rs, src/src/chain/tls.rs), and whether a      *)
(* connection goes through Tor (src/src/chain/net.rs).                     *)
(*                                                                         *)
(* An address is a record: scheme, if any; bracket, whether the host is in *)
(* brackets; host; parts, what follows the host between colons, a          *)
(* port number or a letter as a record n, letter; path, what ends it;      *)
(* material, what the host is when it is no server's. A host is a record:  *)
(* is (dns, onion, ip6, word, none, bad), name, and whether it is spelled  *)
(* in capitals or with a trailing dot.                                     *)
(***************************************************************************)
LOCAL INSTANCE Naturals
LOCAL INSTANCE Sequences

CONSTANTS
    Networks, Active,
    Typed,            \* addresses people type, scan or keep from old vaults
    Public,           \* the public Electrum servers, id -> address
    PublicEsplora,    \* the address the automatic rotation starts with
    Certificates,     \* what a server may present: fp, vouched, old, holdsKey
    MaxEdits, MaxConnections

Hosts == [is : {"dns", "onion", "ip6", "word", "none", "bad"}, name : STRING, caps : BOOLEAN, dot : BOOLEAN]
Addresses ==
    [scheme : {"none", "http", "https", "ssl", "tls", "electrums", "tcp", "electrum", "other"}, bracket : BOOLEAN,
     host : Hosts, parts : Seq([n : Nat, letter : {"none", "s", "t", "x"}]),
     path : {"none", "slash", "fragment", "other"}, material : {"none", "key", "address", "words"}]

ASSUME ServersAssumption ==
    /\ Typed \subseteq Addresses /\ PublicEsplora \in Addresses
    /\ \A id \in DOMAIN Public : Public[id] \in Addresses

VARIABLES
    backends,         \* settings.backends
    certs,            \* settings.electrum_certs, a set of key, fp
    report,           \* the certificate report on screen, if any
    connection,       \* a connection being opened: its endpoint and proxy
    opened,           \* the connection opened last, with what it met
    resolved,         \* the host handed to the system's resolver last
    beside,           \* the last request that was no sync: direct, meant
    acceptances,      \* what the user accepted: address typed, fp
    edits, connections

settingVars == <<backends, certs, acceptances, edits>>
wireVars == <<connection, opened, resolved, beside, connections>>
serverVars == <<backends, certs, report, connection, opened, resolved, beside,
                acceptances, edits, connections>>

-----------------------------------------------------------------------------
(* Hosts and ports *)

\* Host names have no case, and may end in a dot.
Canonical(host) == [host EXCEPT !.caps = FALSE, !.dot = FALSE]
HostReads(host) == host.is \notin {"none", "bad"}

IsOnionHost(host) == host.is = "onion"

\* A port is a u16.
MaxPort == 65535
IsPort(part) == part.letter = "none" /\ part.n \in 1..MaxPort
IsBareIpv6(a) == a.host.is = "ip6" /\ ~a.bracket /\ a.parts = <<>> /\ a.path = "none"

\* split_host_port: a host and the port it names, or nothing. A second
\* colon outside brackets is an IPv6 literal's or a mistake.
SplitHostPort(a) ==
    IF \/ Len(a.parts) > 1
       \/ \E i \in DOMAIN a.parts : ~IsPort(a.parts[i])
       \/ ~HostReads(a.host)
       \/ a.host.is = "ip6" /\ ~a.bracket /\ a.parts # <<>>
    THEN {}
    ELSE {[host |-> Canonical(a.host), port |-> {a.parts[i].n : i \in DOMAIN a.parts}]}

\* electrum: the stored form of an Electrum address.
ElectrumTls == 50002
ElectrumTcp == 50001
DefaultPort(tls) == IF tls THEN ElectrumTls ELSE ElectrumTcp
PortOf(port, tls) == IF port = {} THEN DefaultPort(tls) ELSE CHOOSE n \in port : TRUE
Electrum(host, port, tls) ==
    LET n == PortOf(port, tls)
    IN [scheme |-> IF tls THEN "ssl" ELSE "tcp", bracket |-> host.is = "ip6", host |-> host,
        parts |-> <<[n |-> n, letter |-> "none"]>>, path |-> "none", material |-> "none"]
ElectrumOf(split, tls) == {Electrum(s.host, s.port, tls) : s \in split}

-----------------------------------------------------------------------------
(* parse_backend and stored_form *)

PlainPorts == {50001, 60001, 20001, 50003}
TlsPorts == {50002, 60002, 20002, 50004}

\* refuse_wallet_material, refuse_typed_secret: a key, an address or the
\* words of a seed are no server, behind a scheme or not.
IsMaterial(a) == a.material # "none"

\* Url::parse, as host_and_port and esplora use it: brackets are for IPv6.
UrlReads(a) ==
    /\ HostReads(a.host)
    /\ a.bracket = (a.host.is = "ip6")
    /\ Len(a.parts) <= 1
    /\ \A i \in DOMAIN a.parts : a.parts[i].letter = "none" /\ a.parts[i].n \in 0..MaxPort
HostOf(a) == IF UrlReads(a) THEN {Canonical(a.host)} ELSE {}

Esplora(a) ==
    IF UrlReads(a)
    THEN {[a EXCEPT !.host = Canonical(@), !.path = IF @ = "slash" THEN "none" ELSE @]} ELSE {}

\* The connection flag of the one-line form, which no IPv6 literal has.
HasFlag(a) == a.scheme = "none" /\ a.parts # <<>> /\ a.parts[Len(a.parts)].letter # "none"
Flag(a) == a.parts[Len(a.parts)].letter
Unflagged(a) == [a EXCEPT !.parts = SubSeq(@, 1, Len(@) - 1)]

\* Nothing says whether the socket is encrypted: its port, or its host.
BareTls(split) ==
    CASE split.port # {} /\ split.port \subseteq PlainPorts -> FALSE
      [] split.port # {} /\ split.port \subseteq TlsPorts -> TRUE
      [] OTHER -> ~IsOnionHost(split.host)

ParseBackend(a) ==
    IF IsMaterial(a) THEN {} ELSE
    CASE a.scheme \in {"http", "https"} -> Esplora(a)
      [] a.scheme \in {"ssl", "tls", "electrums"} -> ElectrumOf(SplitHostPort(a), TRUE)
      [] a.scheme \in {"tcp", "electrum"} -> ElectrumOf(SplitHostPort(a), FALSE)
      [] a.scheme = "other" -> {}
      [] HasFlag(a) -> IF Flag(a) \in {"s", "t"}
                       THEN ElectrumOf(SplitHostPort(Unflagged(a)), Flag(a) = "s") ELSE {}
      [] OTHER -> UNION {IF s.host.is = "word" THEN {} ELSE {Electrum(s.host, s.port, BareTls(s))} :
                           s \in SplitHostPort(a)}

IsEsplora(a) == a.scheme \in {"http", "https"}

\* stored_form: a bare address is read as ssl://.
StoredForm(kind, a) ==
    LET read == IF kind = "esplora" \/ a.scheme # "none" \/ HasFlag(a) THEN a
                ELSE [a EXCEPT !.scheme = "ssl", !.bracket = @ \/ IsBareIpv6(a)]
    IN IF kind = "esplora" /\ a.scheme = "none" THEN {}
       ELSE {stored \in ParseBackend(read) : IsEsplora(stored) = (kind = "esplora")}

\* BackendConfig::canonical.
CanonicalConfig(config) ==
    IF config.is = "public" THEN {config}
    ELSE {[config EXCEPT !.url = {u}] : u \in UNION {StoredForm(config.is, a) : a \in config.url}}

-----------------------------------------------------------------------------
(* The Electrum client's own reading, and the key of a certificate *)

\* electrum::parse. It knows two schemes less than parse_backend and ends
\* an address at / and ?, not at #.
Parse(a) ==
    LET tls == a.scheme \in {"none", "ssl", "tls"}
        port == {a.parts[i].n : i \in DOMAIN a.parts}
    IN IF \/ a.scheme \notin {"none", "ssl", "tls", "tcp"}
          \/ Len(a.parts) > 1
          \/ \E i \in DOMAIN a.parts : a.parts[i].letter # "none" \/ a.parts[i].n \notin 0..MaxPort
          \/ a.path = "fragment" /\ ~(a.bracket /\ a.parts = <<>>)
          \/ ~HostReads(a.host)
       THEN {}
       ELSE {[tls |-> tls, host |-> Canonical(a.host), port |-> PortOf(port, tls)]}

KeyHost(a, host) == Canonical(host)

\* certificate_key: the socket; an address that does not read keys as written.
CertificateKey(a) ==
    IF Parse(a) = {} THEN [socket |-> {}, written |-> {a}]
    ELSE [socket |-> {[host |-> KeyHost(a, p.host), port |-> p.port] : p \in Parse(a)}, written |-> {}]
PinFor(a) == {c.fp : c \in {c \in certs : c.key = CertificateKey(a)}}

\* endpoints: kind, address and pin of each server, in order. The public
\* rotation is Esplora; a server no longer listed falls back to it.
Endpoint(kind, a) == [kind |-> kind, url |-> a, pin |-> IF kind = "electrum" THEN PinFor(a) ELSE {}]
EndpointsOf(config) ==
    CASE config.is = "public" ->
           IF config.server \subseteq DOMAIN Public /\ config.server # {}
           THEN {Endpoint("electrum", Public[id]) : id \in config.server}
           ELSE {Endpoint("esplora", PublicEsplora)}
      [] OTHER -> {Endpoint(c.is, u) : u \in UNION {c2.url : c2 \in CanonicalConfig(config)},
                                       c \in {config}}

\* By the parser of the route, and by the name a connection would use.
IsOnion(a) == \E h \in HostOf(a) : IsOnionHost(h)
IsOnionTarget(a, host) == IsOnion(a) \/ IsOnionHost(host)
NeedsTor(endpoints) == \E e \in endpoints : IsOnion(e.url)

-----------------------------------------------------------------------------
(* Certificates: Tofu and Handshake *)

\* An accepted fingerprint that the public authorities may stand in for.
CertVerdict(pin, cert) ==
    CASE pin # {} /\ cert.fp \in pin -> "pinned"
      [] pin # {} /\ cert.fp \notin pin -> "changed"
      [] pin = {} /\ cert.vouched /\ ~cert.old -> "trusted"
      [] OTHER -> "unknown"

\* The server proves that it holds the key, by the standard check or, on a
\* certificate accepted by its fingerprint, by the key inside it.
Completes(pin, cert) == cert.holdsKey /\ CertVerdict(pin, cert) \in {"pinned", "trusted"}

-----------------------------------------------------------------------------
NoConfig == [is |-> "public", server |-> {}, url |-> {}]
Custom(kind, a) == [is |-> kind, server |-> {}, url |-> {a}]
Configs == {NoConfig} \cup {[NoConfig EXCEPT !.server = {id}] : id \in DOMAIN Public \cup {"dropped"}}
           \cup {Custom(kind, a) : kind \in {"esplora", "electrum"}, a \in Typed}

\* A vault written before addresses were checked holds one as typed.
ServersInit ==
    /\ \E old \in {NoConfig} \cup {Custom("electrum", a) : a \in Typed} :
         backends = [n \in Networks |-> IF n = Active THEN old ELSE NoConfig]
    /\ certs = {} /\ report = {} /\ connection = {} /\ opened = {} /\ resolved = {} /\ beside = {}
    /\ acceptances = {} /\ edits = 0 /\ connections = 0

Edit == edits < MaxEdits /\ edits' = edits + 1

SetBackend(network, config) ==
    /\ Edit
    /\ \E c \in CanonicalConfig(config) : backends' = [backends EXCEPT ![network] = c]
    /\ UNCHANGED <<certs, report, acceptances, wireVars>>

Inserted(key, fp) == {c \in certs : c.key # key} \cup {[key |-> key, fp |-> fp]}

\* trust_certificate: what the report shows, under the key of its address.
TrustCertificate ==
    /\ Edit
    /\ \E r \in report :
         /\ certs' = Inserted(CertificateKey(r.url), r.fp)
         /\ acceptances' = {x \in acceptances : CertificateKey(x.url) # CertificateKey(r.url)}
                             \cup {[url |-> r.url, fp |-> r.fp]}
    /\ report' = {}
    /\ UNCHANGED <<backends, wireVars>>

\* set_backend_trusting: both in one write, when the address is the
\* Electrum server of the configuration.
SetBackendTrusting(network, config) ==
    /\ Edit
    /\ \E r \in report, c \in CanonicalConfig(config) :
         LET server == IF c.is = "electrum" THEN c.url
                       ELSE {Public[id] : id \in c.server \cap DOMAIN Public}
         IN /\ \E a \in server : CertificateKey(a) = CertificateKey(r.url)
            /\ certs' = Inserted(CertificateKey(r.url), r.fp)
            /\ acceptances' = {x \in acceptances : CertificateKey(x.url) # CertificateKey(r.url)}
                                \cup {[url |-> r.url, fp |-> r.fp]}
            /\ backends' = [backends EXCEPT ![network] = c]
    /\ report' = {}
    /\ UNCHANGED wireVars

ForgetCertificate ==
    /\ Edit
    /\ \E c \in certs :
         /\ certs' = certs \ {c}
         /\ acceptances' = {x \in acceptances : CertificateKey(x.url) # c.key}
    /\ UNCHANGED <<backends, report, wireVars>>

\* inspect: the verdict a sync would meet. An onion is Tor's business and
\* is not looked up.
Looked(a) == {p \in Parse(a) : p.tls /\ ~IsOnionTarget(a, p.host)}
Inspected(a, cert) ==
    IF CertVerdict(PinFor(a), cert) \in {"unknown", "changed"} THEN {[url |-> a, fp |-> cert.fp]} ELSE {}

\* inspect_certificate: of an address as typed, before it is stored.
InspectCertificate(a, cert) ==
    /\ report = {}
    /\ ~IsMaterial(a)
    /\ \E p \in Looked(a) : resolved' = {p.host} /\ report' = Inspected(a, cert)
    /\ UNCHANGED <<settingVars, connection, opened, beside, connections>>

-----------------------------------------------------------------------------
(* A sync, or the watch: the setup is read under the lock, the route        *)
(* resolved and the connection opened after it.                            *)

\* tor_proxy_for: a route when a host is an onion; nothing when there is
\* none to be had.
ReadSetup(network, tor) ==
    /\ connection = {} /\ connections < MaxConnections
    /\ LET endpoints == EndpointsOf(backends[network])
       IN /\ endpoints # {} /\ NeedsTor(endpoints) => tor
          /\ \E e \in endpoints : connection' = {[endpoint |-> e, proxy |-> NeedsTor(endpoints)]}
    /\ connections' = connections + 1
    /\ UNCHANGED <<settingVars, report, opened, resolved, beside>>

\* What an address is opened as: by the Electrum client's parser, or by the
\* HTTP client's.
Socket(endpoint) ==
    IF endpoint.kind = "electrum" THEN Parse(endpoint.url)
    ELSE {[tls |-> endpoint.url.scheme = "https", host |-> h, port |-> 0] : h \in HostOf(endpoint.url)}

\* handshake: the check of a certificate, before anything is read. Over an
\* onion an Electrum server's is taken as it comes: the address is its key.
\* The HTTP client knows the public authorities alone.
Handshakes(pin, p, cert) == p.tls => Completes(pin, cert)
OnionHandshakes(kind, p, cert) == kind = "electrum" \/ Handshakes({}, p, cert)

\* electrum::connect, net::open and esplora::build: an onion goes to the
\* proxy by name and is refused without one; any other name is resolved.
ServerConnects(c, p, cert) ==
    IF IsOnionTarget(c.endpoint.url, p.host)
    THEN c.proxy /\ OnionHandshakes(c.endpoint.kind, p, cert)
    ELSE Handshakes(c.endpoint.pin, p, cert)
OpenSocket(cert) ==
    \E c \in connection :
        LET a == c.endpoint.url
            socket == Socket(c.endpoint)
        IN /\ resolved' = {p.host : p \in {p \in socket : ~IsOnionTarget(a, p.host)}}
           /\ opened' = {[url |-> a, tls |-> p.tls, onion |-> IsOnionHost(p.host), pin |-> c.endpoint.pin, cert |-> cert] :
                           p \in {p \in socket : ServerConnects(c, p, cert)}}
           /\ connection' = {}
    /\ UNCHANGED <<settingVars, report, beside, connections>>

\* An address that does not read, taken for one that names nothing.
MutNamesOnion(a) == FALSE

\* uses_tor: an onion among the backends, or an address that does not read
\* and names one. A request that is no sync then goes through Tor.
NamesOnion(a) == a.host.is = "onion"
UsesTor == \E n \in Networks :
    LET endpoints == EndpointsOf(backends[n])
    IN IF endpoints # {} THEN NeedsTor(endpoints) ELSE \E a \in backends[n].url : NamesOnion(a)
BesideSyncs ==
    /\ beside' = {[direct |-> ~UsesTor, meant |-> \E n \in Networks : \E a \in backends[n].url : a.host.is = "onion"]}
    /\ UNCHANGED <<settingVars, report, connection, opened, resolved, connections>>

ServersNext ==
    \/ \E n \in Networks, config \in Configs : SetBackend(n, config) \/ SetBackendTrusting(n, config)
    \/ TrustCertificate
    \/ ForgetCertificate
    \/ \E a \in Typed, cert \in Certificates : InspectCertificate(a, cert)
    \/ \E n \in Networks, tor \in BOOLEAN : ReadSetup(n, tor)
    \/ \E cert \in Certificates : OpenSocket(cert)
    \/ BesideSyncs

-----------------------------------------------------------------------------
(* The name of a hidden service never reaches the system's resolver,       *)
(* however it is spelled and wherever it comes from (typed for an          *)
(* inspection, stored, or kept as typed in an old vault), and while a      *)
(* backend names one no request that is not a sync leaves outside Tor.     *)
OnionStaysInTor ==
    /\ \A host \in resolved : host.is # "onion"
    /\ \A b \in beside : b.meant => ~b.direct

(* A connection that carries data over TLS, to a server that is no hidden  *)
(* service, met the certificate the user accepted for that socket when its *)
(* setup was read, or, none being accepted, one an authority vouches for;  *)
(* and the server holds its key. An accepted certificate is never replaced *)
(* by another, not even by one that authorities vouch for.                 *)
AcceptedIsMet ==
    \A o \in opened : (o.tls /\ ~o.onion) =>
        /\ o.cert.holdsKey
        /\ IF o.pin = {} THEN o.cert.vouched ELSE o.pin = {o.cert.fp}

(* A certificate accepted under one spelling of an address is found for    *)
(* the form the same address is stored in, while it is not forgotten or    *)
(* replaced, as the comment on certificate_key says.                       *)
FoundUnderEverySpelling ==
    \A x \in acceptances : HostOf(x.url) # {} =>
        \A stored \in StoredForm("electrum", x.url) : x.fp \in PinFor(stored)

(* What the user accepted is what is asked for: a certificate met under    *)
(* no pin but the one accepted, and that one under every spelling.         *)
PinsInv == AcceptedIsMet /\ FoundUnderEverySpelling

(* Whoever is reached is who the user named, over the road he chose.       *)
ServersInv == OnionStaysInTor /\ PinsInv

=============================================================================
