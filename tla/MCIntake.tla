------------------------------ MODULE MCIntake ------------------------------
(***************************************************************************)
(* What the app takes in, one part at a time: the codes it scans, the      *)
(* readings it imports and the policies it reads in them, the backups it   *)
(* makes and restores, the charts of the price.                            *)
(***************************************************************************)
EXTENDS Frames, Backups, Prices, Policies

VARIABLE part

\* Keys, paths and descriptors of the inputs.
S(n) == [n |-> n, hard |-> FALSE]
Key(id, net, paths, wild) ==
    [id |-> id, net |-> net, depth |-> 3, prefix |-> "xpub", origin |-> {}, paths |-> paths, wild |-> wild, private |-> FALSE]
Ranged(id, net, branch) == Key(id, net, <<<<S(branch)>>>>, "plain")
Both(id, net) == Key(id, net, <<<<S(0)>>, <<S(1)>>>>, "plain")
Desc(fn, cond, keys) ==
  [fn |-> fn, cond |-> cond, keys |-> keys, lifts |-> TRUE, nests |-> 1, checksum |-> "none", secret |-> "none"]

Plain == [form |-> "lines", envelopes |-> 0, parts |-> 1, warns |-> {}, whole |-> TRUE, lines |-> <<>>, key |-> {},
          origin |-> {}, address |-> {}, first |-> {}, branches |-> <<0, 1>>, accounts |-> {}, xfp |-> {},
          escaped |-> FALSE, secret |-> "none"]
Lines(ds) == [Plain EXCEPT !.lines = ds]
Lone(k, o) == [Plain EXCEPT !.form = "key", !.key = {k}, !.origin = o]
WalletFile(i) == [i EXCEPT !.form = "json"]
Bsms(d, first) == [Plain EXCEPT !.form = "bsms", !.lines = <<d>>, !.first = {first}]

W(b) == Desc("wpkh", "one", <<Ranged("A", "main", b)>>)
Fixed(id, net, path) == Desc("wpkh", "one", <<Key(id, net, <<path>>, "none")>>)
Multi == Desc("wpkh", "one", <<Both("A", "main")>>)
TwoOf(x, y) == Desc("wsh", "sorted", <<x, y>>)
Template == Desc("wsh", "sorted", <<[Both("T", "test") EXCEPT !.paths = <<>>], [Both("U", "test") EXCEPT !.paths = <<>>]>>)
Filled == Desc("wsh", "sorted", <<Ranged("T", "test", 0), Ranged("U", "test", 0)>>)
Account(script, desc, xpub, first) ==
    [script |-> script, desc |-> desc, xpub |-> xpub, deriv |-> {<<[n |-> 84, hard |-> TRUE]>>}, first |-> first, secret |-> "none"]
Zpub(id) == [Ranged(id, "main", 0) EXCEPT !.prefix = "zpub", !.paths = <<<<>>>>, !.wild = "none"]
Xpub(id) == [Zpub(id) EXCEPT !.prefix = "xpub"]
Hardened(n) == [fingerprint |-> TRUE, path |-> <<[n |-> n, hard |-> TRUE]>>, secret |-> "none"]
Xfp(s) == {[reads |-> s = "none", secret |-> s]}
DerivedFirst(id) == Address(ScriptAt(Desc("wpkh", "one", <<Ranged(id, "main", 0)>>), 0), "mainnet")

MCInputs == {
    \* One descriptor, two lines, three lines.
    Lines(<<Multi>>), Lines(<<W(0)>>), Lines(<<W(0), W(1)>>), Lines(<<W(1), W(0), Multi>>), Lines(<<W(0), W(0)>>),
    Lines(<<W(0), Desc("wpkh", "one", <<Ranged("B", "main", 1)>>)>>),
    Lines(<<W(0), Fixed("A", "main", <<S(0), S(2)>>)>>), Lines(<<Fixed("A", "main", <<S(0), S(2)>>), W(1)>>),
    Lines(<<TwoOf(Ranged("A", "main", 0), Ranged("B", "main", 0)), TwoOf(Ranged("B", "main", 1), Ranged("A", "main", 1))>>),
    Lines(<<[TwoOf(Both("A", "main"), Both("B", "main")) EXCEPT !.lifts = FALSE]>>),
    Lines(<<[Multi EXCEPT !.checksum = "wrong"]>>), Lines(<<[Multi EXCEPT !.nests = 9]>>),
    Lines(<<[Multi EXCEPT !.fn = "bare"]>>),
    Lines(<<[Multi EXCEPT !.keys[1].prefix = "zpub"]>>), Lines(<<[Multi EXCEPT !.keys[1].prefix = "ypub"]>>),
    Lines(<<TwoOf(Both("A", "main"), Both("T", "test"))>>),
    Lines(<<[Multi EXCEPT !.secret = "wif"]>>), Lines(<<Desc("wpkh", "one", <<Key("P", "any", <<<<>>>>, "none")>>)>>),
    \* Lone keys, and the words of a seed.
    Lone(Xpub("A"), {}), Lone(Zpub("A"), {}), Lone(Xpub("A"), {Hardened(86)}), Lone(Xpub("A"), {Hardened(48)}),
    Lone([Xpub("A") EXCEPT !.private = TRUE], {}), [Plain EXCEPT !.form = "words", !.secret = "words"],
    \* Addresses, promises, wallet files.
    [Plain EXCEPT !.form = "address", !.address = {Address(ScriptAt(W(0), 0), "signet")}],
    Bsms(Template, Address(ScriptAt(Filled, 0), "signet")), Bsms(Template, Address(ScriptAt(Filled, 0), "regtest")),
    Bsms(Template, Address(ScriptAt(W(0), 0), "signet")),
    [Bsms(Template, Address(ScriptAt(Filled, 0), "signet")) EXCEPT !.secret = "wif"],
    [WalletFile(Lines(<<W(0), W(1)>>)) EXCEPT !.escaped = TRUE],
    [WalletFile(Lines(<<[W(0) EXCEPT !.secret = "wif"]>>)) EXCEPT !.escaped = TRUE],
    [WalletFile(Plain) EXCEPT !.accounts = {Account("segwit", {}, {Zpub("A")}, {DerivedFirst("A")}), Account("legacy", {}, {Xpub("B")}, {})},
                        !.xfp = Xfp("none")],
    [WalletFile(Plain) EXCEPT !.accounts = {Account("segwit", {}, {Xpub("A")}, {DerivedFirst("B")})}, !.xfp = Xfp("none")],
    [WalletFile(Plain) EXCEPT !.accounts = {Account("segwit", {}, {Xpub("A")}, {})}, !.xfp = Xfp("wif"), !.escaped = TRUE],
    [WalletFile(Plain) EXCEPT !.accounts = {Account("taproot", {Multi}, {}, {})}],
    \* Envelopes.
    [Lines(<<Multi>>) EXCEPT !.envelopes = 1, !.warns = {"branches_assumed"}], [Lines(<<Multi>>) EXCEPT !.envelopes = 2],
    [Plain EXCEPT !.form = "backup"], [Plain EXCEPT !.form = "other"]}

Branch(n, secret) == [steps |-> <<S(n)>>, wild |-> TRUE, secret |-> secret]
By(receive, change, origin) == [script |-> {}, derivation |-> {[receive |-> receive, change |-> change, origin |-> origin]}, network |-> {}]
NoOptions == [script |-> {}, derivation |-> {}, network |-> {}]
MCOptions == {
    NoOptions, [NoOptions EXCEPT !.network = {"regtest"}], [NoOptions EXCEPT !.script = {"taproot"}], [NoOptions EXCEPT !.script = {"witness_script"}],
    By(Branch(0, "none"), {}, {}), By(Branch(4, "none"), {Branch(4, "none")}, {}),
    By(Branch(4, "none"), {Branch(5, "none")}, {Hardened(84)}), By(Branch(0, "wif"), {Branch(1, "none")}, {})}

Saved(network, e, i) == [named |-> TRUE, network |-> network, kind |-> [external |-> {e}, internal |-> i, address |-> {}]]
Pin(host, spelled, print, shaped) == [host |-> host, spelled |-> spelled, print |-> print, shaped |-> shaped]
ByHand == [form |-> "backup", version |-> 1, password |-> 8, wallets |-> <<>>, settings |-> {}]
Node(host) == [network |-> "mainnet", reads |-> TRUE, hosts |-> {host}]
MCFiles == {
    [ByHand EXCEPT !.wallets = <<Saved("mainnet", W(0), {W(1)}), Saved("mainnet", W(0), {W(1)}), Saved("mainnet", W(0), {W(0)})>>],
    [ByHand EXCEPT !.wallets = <<Saved("signet", W(0), {}), Saved("mainnet", W(0), {})>>,
                   !.settings = {[backends |-> {Node("h1")}, gap |-> 900,
                                  certs |-> {Pin("h1", "h1", "theirs", TRUE), Pin("h3", "h3", "theirs", TRUE), Pin("pub", "pub", "theirs", TRUE)}]}],
    [ByHand EXCEPT !.settings = {[backends |-> {[Node("h2") EXCEPT !.reads = FALSE]}, gap |-> 0,
                                  certs |-> {Pin("pub", "pub", "theirs", TRUE), Pin("pub", "PUB", "mine", TRUE), Pin("h2", "h2", "mine", TRUE)}]}],
    [ByHand EXCEPT !.version = 2]}

MCConfigs == {Node("h1"), Node("h2")}

-----------------------------------------------------------------------------
\* Codes scanned frame by frame: one export in two frames, a second one that
\* pretends to the same sum, one of a private key, and a part of a BBQr code.
Path(steps) == [dangling |-> FALSE, steps |-> steps]
PathStep(n) == [indices |-> {n}, hardened |-> TRUE, flagged |-> TRUE]
Hdkey(name, private) ==
  [tag |-> "hdkey", name |-> name, private |-> private, data |-> {"point"},
   chain |-> {32}, network |-> {}, origin |-> {Path(<<PathStep(84), PathStep(0)>>)},
   fingerprint |-> {"u32"}, depth |-> {}, children |-> {}]
Message(tags, keys) ==
  [tags |-> tags, threshold |-> {2}, keys |-> keys, holds |-> "other", name |-> "m"]
MCCodes ==
  [export |-> [sum |-> 1, file |-> "text",
               message |-> Message(<<"wpkh">>, <<Hdkey("k", {})>>)],
   other |-> [sum |-> 2, file |-> "text",
              message |-> Message(<<"wsh", "sortedmulti">>,
                                  <<Hdkey("k", {}), Hdkey("l", {})>>)],
   private |-> [sum |-> 3, file |-> "garbage",
                message |-> Message(<<"wpkh">>, <<Hdkey("k", {TRUE})>>)]]
Ur(owner, sum, mix) ==
  [env |-> "ur", reads |-> TRUE, multi |-> TRUE, named |-> TRUE, intact |-> TRUE,
   type |-> "crypto-output", total |-> 2, seq |-> 1, count |-> 2, sum |-> sum,
   mix |-> mix, owner |-> owner, enc |-> "", len |-> 1]
Bbqr(owner, i) ==
  [Ur(owner, 0, {}) EXCEPT !.env = "bbqr", !.seq = i, !.type = "U", !.enc = "2"]
MCFrames ==
  {Ur("export", 1, {0}), Ur("export", 1, {1}), Ur("other", 1, {0, 1}),
   [Ur("private", 3, {0}) EXCEPT !.total = 1, !.count = 1],
   Bbqr("export", 1)}

-----------------------------------------------------------------------------
\* Policies: a key, some of several, and branches with one lock of each kind,
\* with two in either order, and with a preimage.
KeyOf(id) == [is |-> "key", id |-> id]
Height(n) == [is |-> "after", lock |-> [by |-> "height", at |-> n]]
Time(n) == [is |-> "after", lock |-> [by |-> "time", at |-> n]]
Blocks(n) == [is |-> "older", lock |-> [by |-> "blocks", for |-> n]]
Seconds(n) == [is |-> "older", lock |-> [by |-> "seconds", for |-> n]]
Preimage == [is |-> "hash"]
Of(k, items) == [is |-> "thresh", k |-> k, items |-> items]
AllOf(items) == Of(Len(items), items)
OneOf(items) == Of(1, items)
MCLifted == {
    KeyOf("A"), Of(2, <<KeyOf("A"), KeyOf("B"), KeyOf("C")>>),
    OneOf(<<KeyOf("A"), AllOf(<<KeyOf("B"), Blocks(2)>>)>>),
    Of(3, <<KeyOf("A"), KeyOf("B"), Blocks(2), Seconds(3)>>),
    OneOf(<<AllOf(<<KeyOf("A"), Height(2)>>), AllOf(<<KeyOf("B"), Seconds(3)>>), AllOf(<<KeyOf("C"), Preimage>>)>>),
    OneOf(<<KeyOf("A"), AllOf(<<KeyOf("B"), Time(3)>>), KeyOf("C")>>),
    AllOf(<<KeyOf("A"), OneOf(<<Height(2), Blocks(2)>>)>>), Of(2, <<KeyOf("A"), Height(2), Preimage>>),
    OneOf(<<Blocks(1), AllOf(<<KeyOf("A"), Height(2)>>), AllOf(<<KeyOf("B"), Height(3)>>),
            AllOf(<<KeyOf("C"), Time(1)>>), AllOf(<<KeyOf("D"), Time(3), Blocks(3)>>)>>),
    Of(2, <<AllOf(<<KeyOf("A"), Time(2)>>), AllOf(<<KeyOf("B"), Blocks(2)>>), AllOf(<<KeyOf("C"), Height(3)>>)>>)}

-----------------------------------------------------------------------------
\* Charts: a range and the whole, a series out of order with two points of
\* one time and an implausible one, and a series of a single point.
MCCutoffs == [Day |-> {2}, Max |-> {}]
Point(t, rate) == [t |-> t, rate |-> rate]
MCSeries ==
  {<<Point(1, 2), Point(-2, 1), Point(0, 1), Point(0, 0), Point(-1, 1), Point(-1, 3)>>, <<Point(0, 1)>>}

\* Who scans and who looks at a chart is one of two.
Interchangeable == Permutations(Threads)

-----------------------------------------------------------------------------
otherVars == <<priceVars, policyVars>>

MCInit ==
  /\ part \in {"codes", "imports", "backups", "charts", "policies"}
  /\ FramesInit
  /\ BackupsInit(IF part # "backups" THEN {}
                 ELSE Readings[Lines(<<Multi>>), NoOptions].parsed)
  /\ PricesInit /\ PoliciesInit
  /\ part # "charts" => preferences = [currency |-> "EUR", source |-> "mempool"]
  /\ part # "policies" => policy = KeyOf("A")

Still(p) == part = p /\ UNCHANGED part
MCNext ==
  \/ Still("codes") /\ FramesNext /\ UNCHANGED <<backupVars, otherVars>>
  \/ /\ Still("imports") /\ ImportsNext
     /\ UNCHANGED <<frameVars, settings, kept, shown, restored, changes, otherVars>>
  \/ Still("backups") /\ BackupsNext /\ UNCHANGED <<frameVars, otherVars>>
  \/ Still("charts") /\ PricesNext /\ UNCHANGED <<frameVars, backupVars, policyVars>>
  \/ Still("policies") /\ PoliciesNext /\ UNCHANGED <<frameVars, backupVars, priceVars>>

MCSpec == MCInit /\ [][MCNext]_<<part, frameVars, backupVars, otherVars>>
=============================================================================
