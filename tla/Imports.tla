------------------------------ MODULE Imports -------------------------------
(***************************************************************************)
(* From what is pasted, opened or scanned to a wallet in the vault: the    *)
(* classifier of src/src/input/mod.rs with src/src/input/bsms.rs, the      *)
(* choices of the import screen, and the wallets it adds and removes       *)
(* (src/src/manager/wallets.rs).                                           *)
(*                                                                         *)
(* An input is a record. form: words, empty, large, backup, json, bsms,    *)
(* transaction, lines (descriptors), key, address, other. envelopes: the   *)
(* QR envelopes around it; whole, whether all its parts are there. lines,  *)
(* its descriptors; key; origin; address; first, the address it promises;  *)
(* branches, what a BSMS record restricts its paths to; accounts and xfp,  *)
(* of a wallet file; escaped, whether a file spells its strings with       *)
(* escapes; secret, private material in any other text of it.              *)
(***************************************************************************)
EXTENDS Material, Naturals, Sequences, FiniteSets, SequencesExt, FiniteSetsExt

CONSTANTS
    Inputs,           \* what people paste, open and scan
    Options,          \* what they pick on the import screen
    MaxReadings, MaxWallets

VARIABLES
    screen,           \* what the import screen shows: input, options, outcome
    given,            \* the reading the app holds and may hand back
    wallets,          \* payload.wallets
    readings          \* bound: the inputs read

importVars == <<screen, given, wallets, readings>>

-----------------------------------------------------------------------------
(* Outcomes: what was recognized, or a refusal and whether it quotes text  *)
(* it was given. A refusal in a word quotes nothing.                       *)

Parsed(kind, networks, payload) ==
    [parsed |-> {[kind |-> kind, networks |-> networks, payload |-> payload, warnings |-> {},
                  options |-> FALSE, promise |-> {}]}, refused |-> {}]
Refused(why) == [parsed |-> {}, refused |-> {[why |-> why, quotes |-> "none"]}]
Quoting(why, secret) == [parsed |-> {}, refused |-> {[why |-> why, quotes |-> secret]}]
IsOk(outcome) == outcome.parsed # {}
The(outcome) == CHOOSE p \in outcome.parsed : TRUE
Warned(outcome, warnings) ==
    [outcome EXCEPT !.parsed = {[p EXCEPT !.warnings = @ \cup warnings] : p \in @}]
Recognized(outcome, kind) == [outcome EXCEPT !.parsed = {[p EXCEPT !.kind = kind] : p \in @}]

Material(external, internal) == [external |-> {external}, internal |-> internal, address |-> {}]
OneAddress(a) == [external |-> {}, internal |-> {}, address |-> {a}]
External(p) == CHOOSE d \in p.payload.external : TRUE

\* What is refused of a descriptor on reading it, by normalize_descriptor_keys
\* and read_descriptor. The parser quotes the text.
Unread(d) ==
    CASE d.secret = "xprv" -> Refused("private")
      [] ParserQuotes(d) -> Quoting("descriptor", d.secret)
      [] OTHER -> Refused("descriptor")
Reads(d) == ReadsDescriptor(Normalized(d)) /\ HintsAgree(Hints(d), d)
Slip132(hints) == IF hints = {} THEN {} ELSE {"slip132_converted"}

-----------------------------------------------------------------------------
(* Descriptors *)

ParseSingleDescriptor(d) ==
    LET read == Normalized(d)
        parts == Branches(read)
    IN CASE ~Reads(d) -> Unread(d)
         [] IsMultipath(read) /\ Len(parts) # 2 -> Refused("descriptor")
         [] DescriptorNetworks(read) = <<>> -> Refused("descriptor")
         [] IsMultipath(read) ->
              Warned(Parsed("multipath", DescriptorNetworks(read), Material(parts[1], {parts[2]})), Slip132(Hints(d)))
         [] OTHER ->
              Warned(Parsed("descriptor", DescriptorNetworks(read), Material([read EXCEPT !.checksum = "none"], {})),
                     Slip132(Hints(d)) \cup (IF HasWildcard(read) THEN {"change_not_tracked"} ELSE {}))

ParseDescriptorPair(first, second) ==
    LET external == [Normalized(first) EXCEPT !.checksum = "none"]
        internal == [Normalized(second) EXCEPT !.checksum = "none"]
    IN CASE ~Reads(first) -> Unread(first)
         [] ~Reads(second) -> Unread(second)
         [] \/ IsMultipath(external) \/ IsMultipath(internal)
            \/ DescriptorNetworks(external) = <<>>
            \/ DescriptorNetworks(external) # DescriptorNetworks(internal)
            \/ ~PairHolds(external, internal, TRUE) -> Refused("descriptor")
         [] OTHER -> Warned(Parsed("pair", DescriptorNetworks(external), Material(external, {internal})),
                            Slip132(Hints(first) \cup Hints(second)))

\* parse_descriptor_file: one multipath descriptor and its two branches, in
\* any order, which must say the same.
ParseDescriptorFile(lines) ==
    LET outcomes == [i \in 1..3 |-> ParseSingleDescriptor(lines[i])]
        failed == {i \in 1..3 : ~IsOk(outcomes[i])}
        whole == {i \in 1..3 : IsOk(outcomes[i]) /\ The(outcomes[i]).kind = "multipath"}
        w == CHOOSE i \in whole : TRUE
        pairs == {<<i, j>> \in (1..3) \X (1..3) : i # j /\ w \notin {i, j}}
        Same(p) == LET pair == ParseDescriptorPair(lines[p[1]], lines[p[2]])
                   IN IsOk(pair) /\ The(pair).payload = The(outcomes[w]).payload
    IN CASE failed # {} -> outcomes[Min(failed)]
         [] Cardinality(whole) # 1 -> Refused("descriptor")
         \* The pair in the order it is written must read as one wallet.
         [] ~(\A p \in pairs : p[1] < p[2] => IsOk(ParseDescriptorPair(lines[p[1]], lines[p[2]]))) -> Refused("descriptor")
         [] ~(\E p \in pairs : Same(p)) -> Refused("descriptor")
         [] OTHER -> outcomes[w]

-----------------------------------------------------------------------------
(* A lone extended key *)

SingleKeyScripts == {"legacy", "nested", "segwit", "taproot"}
DefaultDerivation == [receive |-> [steps |-> <<[n |-> 0, hard |-> FALSE]>>, wild |-> TRUE, secret |-> "none"],
                      change |-> {[steps |-> <<[n |-> 1, hard |-> FALSE]>>, wild |-> TRUE, secret |-> "none"]},
                      origin |-> {}]

\* parse_step, canonical_branch, canonical_origin.
StepReads(s) == s.n < HARDENED_INDEX
BranchReads(b) == b.wild /\ \A s \in Steps(b.steps) : StepReads(s) /\ ~s.hard
OriginReads(o) == o.fingerprint /\ \A s \in Steps(o.path) : StepReads(s)

ScriptFromOrigin(o) ==
    IF o.path = <<>> THEN {}
    ELSE CASE o.path[1].n = 44 -> {"legacy"} [] o.path[1].n = 49 -> {"nested"}
           [] o.path[1].n = 84 -> {"segwit"} [] o.path[1].n = 86 -> {"taproot"} [] OTHER -> {}
IsCosigner(o) == o.path # <<>> /\ o.path[1].n \in {45, 48}

\* effective_derivation: the choice, the convention, the origin pasted. A
\* field typed by hand is held to public keys first, and never quoted.
Choice(options) == IF options.derivation = {} THEN DefaultDerivation ELSE CHOOSE c \in options.derivation : TRUE
Fields(c) == {c.receive.secret} \cup {b.secret : b \in c.change} \cup {o.secret : o \in c.origin}
Origin(c, pasted) == IF c.origin # {} THEN c.origin ELSE pasted
DerivationRefusals(c, pasted) ==
    CASE \E s \in Fields(c) : IsPrivate(s) -> {"private"}
      [] ~BranchReads(c.receive) \/ \E b \in c.change : ~BranchReads(b) -> {"derivation"}
      [] \E b \in c.change : b.steps = c.receive.steps -> {"derivation"}
      [] \E o \in Origin(c, pasted) : ~OriginReads(o) -> {"derivation"}
      [] OTHER -> {}

Wrap(script) == CASE script = "legacy" -> "pkh" [] script = "nested" -> "sh_wpkh" [] script = "segwit" -> "wpkh" [] OTHER -> "tr"
DescriptorForXpub(k, script, branch, origin) ==
    [fn |-> Wrap(script), cond |-> "one", lifts |-> TRUE, nests |-> 1, checksum |-> "none", secret |-> "none",
     keys |-> <<[k EXCEPT !.prefix = "xpub", !.origin = {o.path : o \in origin}, !.paths = <<branch.steps>>, !.wild = "plain"]>>]

ParseExtendedKey(k, pasted, options) ==
    LET hint == Encodings[k.prefix].script
        c == Choice(options)
        refusals == DerivationRefusals(c, pasted)
        origin == Origin(c, pasted)
        suggested == UNION {ScriptFromOrigin(o) : o \in origin}
        script == CHOOSE s \in (CASE hint # {} -> hint [] options.script # {} -> options.script
                                  [] suggested # {} -> suggested [] OTHER -> {"segwit"}) : TRUE
        Build(b) == DescriptorForXpub(k, script, b, origin)
    IN CASE k.private -> Refused("private")
         [] Encodings[k.prefix].multisig \/ ~(options.script \subseteq SingleKeyScripts) -> Refused("key")
         [] refusals # {} -> Refused(CHOOSE r \in refusals : TRUE)
         [] \E o \in origin : IsCosigner(o) -> Refused("key")
         [] ~ReadsDescriptor(Build(c.receive)) \/ \E b \in c.change : ~ReadsDescriptor(Build(b)) -> Refused("descriptor")
         [] OTHER ->
              [Warned(Parsed("key", NetworksForKind({k.net}), Material(Build(c.receive), {Build(b) : b \in c.change})),
                      (IF hint = {} /\ options.script = {} /\ suggested = {} THEN {"assumed_segwit"} ELSE {})
                        \cup (IF Converted(k) THEN {"slip132_converted"} ELSE {})
                        \cup (IF <<c.receive, c.change>> # <<DefaultDerivation.receive, DefaultDerivation.change>>
                              THEN {"nonstandard"} ELSE {})
                        \cup (IF c.change = {} THEN {"change_not_tracked"} ELSE {}))
                 EXCEPT !.parsed = {[p EXCEPT !.options = TRUE] : p \in @}]

-----------------------------------------------------------------------------
(* Addresses and wallet files *)

ClassifyAddress(a) ==
    LET networks == SelectSeq(Networks, LAMBDA n : CheckAddress(a, n))
    IN IF networks = <<>> THEN Refused("address") ELSE Parsed("address", networks, OneAddress(a))

\* reject_private_in_json: every string once more, as decoded.
FileTexts(input) ==
    {input.secret} \cup {input.lines[i].secret : i \in DOMAIN input.lines} \cup {x.secret : x \in input.xfp}
      \cup UNION {{a.secret} \cup {d.secret : d \in a.desc} : a \in input.accounts}

\* The raw text alone is held to public keys.
MutRejectPrivateInJson(input) == FALSE

RejectPrivateInJson(input) == \E s \in FileTexts(input) : IsPrivate(s)

\* coldcard_account: its key on its path, under the fingerprint of the file.
\* An origin read from a file is quoted.
ColdcardAccount(account, xfp) ==
    LET k == CHOOSE k \in account.xpub : TRUE
        origin == {[fingerprint |-> x.reads, path |-> p, secret |-> x.secret] : x \in xfp, p \in account.deriv}
        Build(b) == DescriptorForXpub(k, account.script, b, origin)
        change == CHOOSE b \in DefaultDerivation.change : TRUE
    IN CASE account.xpub = {} -> Refused("file")
         [] k.private -> Refused("private")
         [] Encodings[k.prefix].multisig \/ ~(Encodings[k.prefix].script \subseteq {account.script}) -> Refused("file")
         [] \E o \in origin : ~OriginReads(o) -> Quoting("derivation", (CHOOSE o \in origin : TRUE).secret)
         [] ~ReadsDescriptor(Build(DefaultDerivation.receive)) -> Refused("descriptor")
         [] OTHER -> Warned(Parsed("file", NetworksForKind({k.net}), Material(Build(DefaultDerivation.receive), {Build(change)})),
                            IF Converted(k) THEN {"slip132_converted"} ELSE {})

\* derives_first: on any network of the input.
DerivesFirst(p, first) ==
    \E i \in DOMAIN p.networks : first \in FirstAddress(External(p), p.networks[i])

\* The accounts a file is read by, modern first.
AccountOrder == <<"segwit", "taproot", "nested", "legacy">>
Preferred(accounts) ==
    CHOOSE a \in accounts : \A b \in accounts :
        \E i, j \in 1..4 : AccountOrder[i] = a.script /\ AccountOrder[j] = b.script /\ i <= j

ParseJsonExport(input) ==
    LET account == Preferred(input.accounts)
        read == IF account.desc # {} THEN ParseSingleDescriptor(CHOOSE d \in account.desc : TRUE)
                ELSE ColdcardAccount(account, input.xfp)
    IN CASE ~input.whole -> Refused("json")
         [] RejectPrivateInJson(input) -> Refused("private")
         [] Len(input.lines) = 1 -> Recognized(ParseSingleDescriptor(input.lines[1]), "file")
         [] Len(input.lines) = 2 -> Recognized(ParseDescriptorPair(input.lines[1], input.lines[2]), "file")
         [] input.accounts = {} -> Refused("unrecognized")
         [] ~IsOk(read) -> read
         [] account.desc # {} /\ ScriptKindOf(External(The(read))) # account.script -> Refused("file")
         [] ~(\A f \in account.first : DerivesFirst(The(read), f)) -> Quoting("file", account.secret)
         [] OTHER -> LET warned == Warned(Recognized(read, "file"),
                                          IF Cardinality(input.accounts) > 1 THEN {"several_accounts"} ELSE {})
                     IN [warned EXCEPT !.parsed = {[p EXCEPT !.promise = {f.script : f \in account.first}] : p \in @}]

-----------------------------------------------------------------------------
(* The classifier *)

\* reject_private_material on the text as it is written.
RawTexts(input) == IF input.form = "json" /\ input.escaped THEN {} ELSE FileTexts(input) \cup {IF k.private THEN "xprv" ELSE "none" : k \in input.key}
RejectPrivate(input) == input.form = "words" \/ \E s \in RawTexts(input) : IsPrivate(s)

ClassifyText(input, options) ==
    CASE input.form \in {"empty", "large"} -> Refused("unrecognized")
      [] RejectPrivate(input) -> Refused("private")
      [] input.form = "backup" -> Refused("backup")
      [] input.form = "json" -> ParseJsonExport(input)
      [] input.form = "transaction" -> Refused("transaction")
      [] input.form = "lines" /\ Len(input.lines) = 1 -> ParseSingleDescriptor(input.lines[1])
      [] input.form = "lines" /\ Len(input.lines) = 2 -> ParseDescriptorPair(input.lines[1], input.lines[2])
      [] input.form = "lines" /\ Len(input.lines) = 3 -> ParseDescriptorFile(input.lines)
      [] input.form = "key" -> ParseExtendedKey(CHOOSE k \in input.key : TRUE, input.origin, options)
      [] input.form = "address" -> ClassifyAddress(CHOOSE a \in input.address : TRUE)
      [] OTHER -> Refused("unrecognized")

\* parse_bsms: the paths of the record put where its descriptor says /**.
BsmsDescriptor(input) ==
    [input.lines[1] EXCEPT !.keys = [i \in DOMAIN @ |->
        IF @[i].paths = <<>> THEN [@[i] EXCEPT !.paths = [b \in 1..2 |-> <<[n |-> input.branches[b], hard |-> FALSE]>>], !.wild = "plain"]
        ELSE @[i]]]

\* The networks whose first address is the one the record promises.
Matching(p, first) == SelectSeq(p.networks, LAMBDA n : first \in FirstAddress(External(p), n))

\* parse_bsms_record.
ParseBsmsRecord(input) ==
    LET read == ParseSingleDescriptor(BsmsDescriptor(input))
        first == CHOOSE f \in input.first : TRUE
        matching == Matching(The(read), first)
    IN CASE RejectPrivate(input) -> Refused("private")
         [] ~input.whole \/ Len(input.lines) # 1 \/ input.first = {} -> Refused("bsms")
         [] Len(input.branches) # 2 \/ input.branches[1] = input.branches[2] -> Refused("bsms")
         [] ~IsOk(read) -> read
         [] matching = <<>> -> Quoting("bsms", input.secret)
         [] OTHER -> LET named == Recognized(read, "bsms")
                     IN [named EXCEPT !.parsed = {[p EXCEPT !.networks = matching, !.promise = {first.script}] : p \in @}]

Classify(input, options) ==
    IF input.form = "bsms" THEN ParseBsmsRecord(input) ELSE ClassifyText(input, options)

\* open_pasted and opened_once: an envelope is opened once, whole.
Opened(input, options) ==
    CASE input.envelopes = 0 -> Classify(input, options)
      [] input.envelopes = 1 /\ input.parts = 1 -> Warned(Classify(input, options), input.warns)
      [] OTHER -> Refused("qr")

\* parse_input_with_options: what the engine refuses is refused here.
ParseInput(input, options) ==
    LET outcome == Opened(input, options)
    IN IF IsOk(outcome) /\ ~EngineTakes(The(outcome).payload, The(outcome).networks[1])
       THEN Refused("descriptor") ELSE outcome

\* preview_address: on the network chosen, or the first.
Preview(p, options) ==
    LET allowed == {n \in options.network : Contains(p.networks, n)}
        network == IF allowed = {} THEN p.networks[1] ELSE CHOOSE n \in allowed : TRUE
    IN UNION {FirstAddress(d, network) : d \in p.payload.external}

-----------------------------------------------------------------------------
\* parse_input has no state: its readings are a table.
Readings == [input \in Inputs, options \in Options |-> ParseInput(input, options)]

\* The app keeps what it was given before when a reading is refused.
Shown(input, options, outcome) ==
    /\ screen' = {[input |-> input, options |-> options, outcome |-> outcome,
                   preview |-> UNION {Preview(p, options) : p \in outcome.parsed}]}
    /\ given' = IF IsOk(outcome) THEN outcome.parsed ELSE given

Read(input) ==
    /\ readings < MaxReadings
    /\ \E options \in Options : options.derivation = {} /\ options.script = {} /\ Shown(input, options, Readings[input, options])
    /\ readings' = readings + 1
    /\ UNCHANGED wallets

\* The screen is filled again with what was picked, for an input that
\* leaves it open.
Pick(options) ==
    /\ \E s \in screen : /\ \E p \in s.outcome.parsed : p.options
                         /\ options # s.options
                         /\ Shown(s.input, options, Readings[s.input, options])
    /\ UNCHANGED <<wallets, readings>>

\* find_watched: identity is the material on the network.
IsWatched(network, kind) == \E i \in DOMAIN wallets : wallets[i].network = network /\ wallets[i].kind = kind
Record(network, kind, promise) == [network |-> network, kind |-> kind, promise |-> promise]

\* add_wallet, with the reading the app hands back.
AddWallet(network) ==
    /\ Len(wallets) < MaxWallets
    /\ \E p \in given :
         /\ Contains(p.networks, network)
         /\ ~IsWatched(network, p.payload)
         /\ EngineTakes(p.payload, network)
         /\ wallets' = Append(wallets, Record(network, p.payload, p.promise))
    /\ UNCHANGED <<screen, given, readings>>

RemoveWallet(i) ==
    /\ wallets' = RemoveAt(wallets, i)
    /\ UNCHANGED <<screen, given, readings>>

ImportsNext ==
    \/ \E input \in Inputs : Read(input)
    \/ \E options \in Options : Pick(options)
    \/ \E i \in DOMAIN Networks : AddWallet(Networks[i])
    \/ \E i \in DOMAIN wallets : RemoveWallet(i)

-----------------------------------------------------------------------------
(* Wherever private material hides, in the text, behind the escapes of a   *)
(* file, in an envelope or in a field of the import screen, it reaches     *)
(* neither a wallet nor the words of a refusal: the parsers that would     *)
(* quote it never see it.                                                  *)
SecretStaysOut ==
    /\ \A s \in screen : \A r \in s.outcome.refused : r.quotes = "none"
    /\ \A i \in DOMAIN wallets : \A d \in Descriptors(wallets[i].kind) : d.secret = "none"

(* Every wallet of the vault, imported or restored, is one wallet on two   *)
(* branches of its own: no address of its change branch is an address of   *)
(* its receive branch, or change would be shown as a payment, and both are *)
(* spent under the same conditions by the same keys, whichever of the      *)
(* readings (two lines, a file, a multipath descriptor, a lone key with a  *)
(* derivation typed by hand, a backup) it came through.                    *)
OneWallet ==
    \A i \in DOMAIN wallets :
        \A e \in wallets[i].kind.external, c \in wallets[i].kind.internal :
            /\ \A x, y \in Indexes : ScriptAt(e, x) # ScriptAt(c, y)
            /\ {k.id : k \in Keys(e)} = {k.id : k \in Keys(c)} /\ e.cond = c.cond

(* A wallet added from a record or a file that promises its first address  *)
(* derives that address, and the address shown to be compared is the one   *)
(* the wallet gives first on the network it is added on, however the       *)
(* reading that was handed back and the network picked were combined.      *)
PromisedIsDerived ==
    /\ \A i \in DOMAIN wallets : \A promised \in wallets[i].promise :
         \A e \in wallets[i].kind.external : ScriptAt(e, 0) = promised
    /\ \A s \in screen : \A p \in s.outcome.parsed : \A a \in s.preview :
         \A f \in s.input.first : (p.kind = "bsms" /\ s.options.network \subseteq {p.networks[i] : i \in DOMAIN p.networks}) => a = f

\* Both: a wallet is the one its reading showed.
WalletsInv == OneWallet /\ PromisedIsDerived

\* What an import leaves in the vault: the wallet it showed, and no secret.
ImportsInv == SecretStaysOut /\ WalletsInv
=============================================================================
