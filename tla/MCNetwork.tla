----------------------------- MODULE MCNetwork ------------------------------
(***************************************************************************)
(* What goes over the network, one part at a time: the watch over its      *)
(* servers, previews and broadcasts and syncs over the servers of the      *)
(* automatic backend, servers chosen and certificates accepted, one host   *)
(* dialled, an onion service reached, requests on a connection.            *)
(***************************************************************************)
EXTENDS WatchHub, Sending, Servers, Dial, Onion, Requests

VARIABLE part

-----------------------------------------------------------------------------
\* The watch: one wallet of two scripts, a transaction of one of which waits
\* for a block.  Two Electrum servers, or an Esplora server alone.
CONSTANTS w1, x1, x2, e1, e2, m1
MCWallets == <<w1>>
MCScripts == (w1 :> <<x1, x2>>)
MCStart == (x1 :> 1) @@ (x2 :> 0)
MCLimits == [perWallet |-> 3, total |-> 3]
MCHubServers == <<<<e1, e2>>, <<m1>>>>

-----------------------------------------------------------------------------
\* Sending: the web APIs of two operators and an Electrum server of the
\* first.
Web(op) == [protocol |-> "esplora", operator |-> op, name |-> op]
MCRotation == <<Web("x"), Web("y")>>
MCCatalogue == <<[protocol |-> "electrum", operator |-> "x", name |-> "ex"]>>
Automatic == << >>

\* Two rival transactions of one coin, a second coin.
Coin1 == [tx |-> 10, vout |-> 1]
Coin2 == [tx |-> 11, vout |-> 1]
MCSpendsOf == [t \in {1, 2} |-> {Coin1}]
Script == [type |-> "p2wpkh", of |-> "k"]
Holds(v) == [value |-> v, script |-> Script]
MCTruth == (Coin1 :> Holds(3)) @@ (Coin2 :> Holds(2))
Lie == Holds(5)
Foreign == [value |-> 3, script |-> [type |-> "p2wpkh", of |-> "other"]]

Pays(v, lock) ==
  [id |-> 1, outs |-> <<[value |-> v, data |-> FALSE]>>, base |-> 80,
   vsize |-> 110, lock |-> lock]
Off == [kind |-> "off", at |-> 0]
Later == [kind |-> "height", at |-> 2]
Carried(c, previous, witnessUtxo, signatures) ==
  [outpoint |-> c, previous |-> previous, witnessUtxo |-> witnessUtxo,
   signatures |-> signatures, loose |-> FALSE,
   final |-> [weight |-> 108, witness |-> TRUE], hints |-> NoHints]
Whole(c) == [tx |-> c.tx, outs |-> <<MCTruth[c]>>]
Psbt(tx, inputs) == [source |-> "psbt", tx |-> tx, inputs |-> inputs]
Raw(c) == [source |-> "raw", tx |-> Pays(2, Off),
           inputs |-> <<[outpoint |-> c, pushes |-> << >>, size |-> 107,
                         witness |-> <<[len |-> 72, first |-> 48,
                                        der |-> {"all"}, last |-> {}]>>]>>]
MCContainers ==
  {Psbt(Pays(4, Off), <<Carried(Coin1, {}, {Lie}, "final")>>),
   Psbt(Pays(2, Later), <<Carried(Coin1, {Whole(Coin1)}, {Lie}, "enough")>>),
   Psbt(Pays(2, Off), <<Carried(Coin1, {Whole(Coin2)}, {}, "none")>>),
   Psbt(Pays(4, Off), <<Carried(Coin1, {}, {}, "none"),
                        Carried(Coin2, {Whole(Coin2)}, {}, "none")>>),
   Psbt(Pays(7, Off), <<Carried(Coin1, {}, {Lie}, "none")>>),
   Raw(Coin1)}

Engine == [kind |-> "descriptors", name |-> "engine", coins |-> {Coin1},
           satisfaction |-> {[weight |-> 108, witness |-> TRUE]}]
Listing(held) == [kind |-> "address", name |-> "listing", coins |-> {Coin1},
                  listing |-> (Coin1 :> held)]
MCVaults == {<< >>, <<Engine>>, <<Listing(Lie)>>, <<Listing(Foreign)>>,
             <<Engine, Listing(Lie)>>, <<Listing(Lie), Engine>>}

\* Rivals of a previewed transaction are seen and mined; broadcasts race
\* each other and blocks; calls of all kinds meet outages.
MCScenarios ==
  {[kinds |-> {"preview"}, calls |-> 1, moves |-> 2, world |-> {"chain"}],
   [kinds |-> {"broadcast"}, calls |-> 2, moves |-> 2, world |-> {"chain"}],
   [kinds |-> {"broadcast", "status", "preview"}, calls |-> 1, moves |-> 2,
    world |-> {"watch"}],
   [kinds |-> {"sync"}, calls |-> 3, moves |-> 1, world |-> {"servers"}]}

CONSTANTS p1, p2

-----------------------------------------------------------------------------
\* Servers: a host and an onion service, each spelled in several ways, and
\* text that is no server's address.
Dns(name) == [is |-> "dns", name |-> name, caps |-> FALSE, dot |-> FALSE]
Loud(host) == [host EXCEPT !.caps = TRUE, !.dot = TRUE]
OnionHost == [Dns("x") EXCEPT !.is = "onion"]
Port(n) == <<[n |-> n, letter |-> "none"]>>
Letter(l) == <<[n |-> 0, letter |-> l]>>
Addr(scheme, host, parts) ==
  [scheme |-> scheme, bracket |-> FALSE, host |-> host, parts |-> parts,
   path |-> "none", material |-> "none"]
MCTyped ==
  {Addr("none", Dns("node"), Port(50002) \o Letter("s")),
   Addr("ssl", Loud(Dns("node")), <<>>),
   [Addr("electrums", Dns("node"), Port(50002)) EXCEPT !.path = "fragment"],
   Addr("none", Loud(OnionHost), Port(50002)),
   [Addr("ssl", OnionHost, Port(50002)) EXCEPT !.bracket = TRUE],
   Addr("tcp", OnionHost, Port(50001) \o Letter("x")),
   Addr("https", Loud(OnionHost), <<>>),
   [Addr("none", Dns("2001::a"), <<>>) EXCEPT !.host.is = "ip6"],
   [Addr("ssl", Dns("xpub"), Port(50002)) EXCEPT !.material = "key"]}
MCPublic == [emzy |-> Addr("ssl", Dns("node"), Port(50002))]
MCPublicEsplora == Addr("https", Dns("space"), <<>>)
Cert(fp, vouched, holdsKey) ==
  [fp |-> fp, vouched |-> vouched, old |-> ~vouched, holdsKey |-> holdsKey]
MCCertificates ==
  {Cert("A", FALSE, TRUE), Cert("B", TRUE, TRUE), Cert("A", FALSE, FALSE)}

-----------------------------------------------------------------------------
\* Dial: no address, one, and families in turn past the most tried.
MCResolutions == {<<>>, <<6>>, <<6, 6, 6, 4, 4>>, <<4, 6, 6, 6, 6>>}

-----------------------------------------------------------------------------
\* Onion: a session of this process, one of another, one that is no SOCKS.
Ours == [version |-> 5, inTime |-> TRUE, methods |-> {"user_pass"}, authVersion |-> 1,
         credentials |-> TRUE, requestVersion |-> 5, address |-> "domain",
         command |-> "connect"]
MCSessions == {Ours, [Ours EXCEPT !.credentials = FALSE], [Ours EXCEPT !.version = 4]}
CONSTANTS s1, s2

-----------------------------------------------------------------------------
Interchangeable == Permutations({p1, p2})

\* Each part starts from its own initial states, the others from one.
Parts == {"watch", "sending", "servers", "dial", "onion", "batch", "thread", "get"}
MCInit ==
  /\ part \in Parts
  /\ part # "watch" => present = {} /\ config = 1
  /\ part # "sending" => scenario = CHOOSE s \in Scenarios : TRUE
  /\ HubInit /\ Init /\ ServersInit /\ DialInit /\ OnionInit /\ RequestsInit
  /\ part # "servers" => backends[Active] = NoConfig
  /\ part # "dial" => dial.order = << >>

Beside(p) ==
  /\ part = p /\ UNCHANGED part
  /\ p # "watch" => UNCHANGED hubVars
  /\ p # "sending" => UNCHANGED vars
  /\ p # "servers" => UNCHANGED serverVars
  /\ p # "dial" => UNCHANGED dial
  /\ p # "onion" => UNCHANGED onionVars
  /\ p \notin {"batch", "thread", "get"} => UNCHANGED requestVars
MCNext ==
  \/ Beside("watch") /\ Connecting
  \/ Beside("watch") /\ Answering
  \/ Beside("watch") /\ Hearing
  \/ Beside("watch") /\ Proving
  \/ Beside("watch") /\ Polling
  \/ Beside("watch") /\ Limiting
  \/ Beside("watch") /\ Leaving
  \/ Beside("watch") /\ Commanded
  \/ Beside("watch") /\ App
  \/ Beside("sending") /\ Next
  \/ Beside("servers") /\ ServersNext
  \/ Beside("dial") /\ DialNext
  \/ Beside("onion") /\ OnionNext
  \/ Beside("batch") /\ BatchNext
  \/ Beside("thread") /\ ThreadNext
  \/ Beside("get") /\ GetNext

networkVars == <<part, hubVars, vars, serverVars, dial, onionVars, requestVars>>
MCSpec == MCInit /\ [][MCNext]_networkVars
=============================================================================
