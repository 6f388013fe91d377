------------------------------ MODULE Material ------------------------------
(***************************************************************************)
(* What a wallet is made of: the descriptors Gerfaut reads, what makes two *)
(* of them one wallet, and the addresses they derive (src/src/input/mod.rs,*)
(* src/src/input/xpub.rs, the checks of src/src/manager/mod.rs and the     *)
(* comparison of keys of src/src/wallet/policy.rs).                        *)
(*                                                                         *)
(* A descriptor is a record: fn, its outer function; cond, what its script *)
(* asks of the keys, sorted when their order does not count; keys; lifts,  *)
(* whether its policy can be read; nests, how deep its parentheses go;     *)
(* checksum (none, right, wrong); secret, the private key written in it,   *)
(* if any. A key is a record: id, its material; net; depth; prefix;        *)
(* origin; paths, more than one for a multipath key; wild. A step of a     *)
(* path is a record n, hard. Text handed to the core is kept in pieces.    *)
(***************************************************************************)
LOCAL INSTANCE Naturals
LOCAL INSTANCE Sequences
LOCAL INSTANCE FiniteSets
LOCAL INSTANCE SequencesExt

CONSTANTS
    MAX_KEY_DEPTH, MAX_DESCRIPTOR_DEPTH,
    HARDENED_INDEX,
    IndexBound        \* bound: the indexes of addresses that are compared

Networks == <<"mainnet", "signet", "testnet4", "regtest">>
Indexes == 0..IndexBound
Keys(d) == {d.keys[i] : i \in DOMAIN d.keys}
Paths(k) == {k.paths[i] : i \in DOMAIN k.paths}
Steps(path) == {path[i] : i \in DOMAIN path}

\* reject_private_material: an extended private key by its spelling, a WIF
\* key, the words of a seed.
IsPrivate(secret) == secret # "none"

-----------------------------------------------------------------------------
(* Extended keys: the encodings of xpub.rs *)

Encodings == [
    xpub |-> [script |-> {}, multisig |-> FALSE],
    ypub |-> [script |-> {"nested"}, multisig |-> FALSE],
    zpub |-> [script |-> {"segwit"}, multisig |-> FALSE],
    Ypub |-> [script |-> {"nested"}, multisig |-> TRUE],
    Zpub |-> [script |-> {"segwit"}, multisig |-> TRUE]]
Converted(k) == k.prefix # "xpub"

\* normalize_descriptor_keys: the keys under the standard prefix, and the
\* prefixes they had; a checksum that does not hold leaves the text as is.
Standard(d) == [d EXCEPT !.keys = [i \in DOMAIN d.keys |-> [d.keys[i] EXCEPT !.prefix = "xpub"]]]
Rewritten(d) == (\E k \in Keys(d) : Converted(k)) /\ d.checksum # "wrong"
Normalized(d) == IF Rewritten(d) THEN Standard(d) ELSE d
Hints(d) == IF Rewritten(d) THEN {k.prefix : k \in {k \in Keys(d) : Converted(k)}} ELSE {}

\* check_slip132_hints: the function each prefix was exported for.
HintsAgree(hints, d) ==
    \A p \in hints : d.fn \in CASE p = "zpub" -> {"wpkh"} [] p = "ypub" -> {"sh_wpkh"}
                                [] p = "Zpub" -> {"wsh"} [] OTHER -> {"sh_wsh"}

-----------------------------------------------------------------------------
(* Descriptors *)

HasWildcard(d) == \E k \in Keys(d) : k.wild # "none"
IsMultipath(d) == \E k \in Keys(d) : Len(k.paths) > 1

HardenedDerivation(d) ==
    \E k \in Keys(d) : k.wild = "hardened" \/ \E p \in Paths(k) : \E s \in Steps(p) : s.hard
TooDeep(d) ==
    \E k \in Keys(d) : \E p \in Paths(k) :
        k.depth + Len(p) + (IF k.wild = "none" THEN 0 ELSE 1) > MAX_KEY_DEPTH

\* read_descriptor. A parser that refuses a text quotes it.
ReadsDescriptor(d) ==
    /\ d.nests <= MAX_DESCRIPTOR_DEPTH
    /\ d.secret = "none" /\ d.checksum # "wrong"
    /\ \A k \in Keys(d) : ~Converted(k)
    /\ ~HardenedDerivation(d)
    /\ ~TooDeep(d)
ParserQuotes(d) == d.nests <= MAX_DESCRIPTOR_DEPTH /\ IsPrivate(d.secret)

ScriptKindOf(d) ==
    CASE d.fn = "pkh" -> "legacy" [] d.fn = "wpkh" -> "segwit" [] d.fn = "sh_wpkh" -> "nested"
      [] d.fn = "tr" -> "taproot" [] d.fn \in {"wsh", "sh_wsh"} -> "witness_script"
      [] d.fn = "sh" -> "legacy_script" [] OTHER -> "bare"

\* descriptor_networks: of its extended keys, none when they disagree.
NetworksForKind(kinds) ==
    CASE kinds = {"main"} -> <<"mainnet">> [] kinds = {"test"} -> <<"signet", "testnet4", "regtest">>
      [] OTHER -> Networks
Kinds(d) == {k.net : k \in Keys(d)} \ {"any"}
DescriptorNetworks(d) == IF Cardinality(Kinds(d)) > 1 THEN <<>> ELSE NetworksForKind(Kinds(d))

\* into_single_descriptors: key by key, the path of each branch.
Branches(d) == LET multi == {Len(k.paths) : k \in Keys(d)} \ {1} IN
    IF Cardinality(multi) # 1 THEN <<>>
    ELSE [b \in 1..(CHOOSE n \in multi : TRUE) |->
            [d EXCEPT !.checksum = "none", !.keys = [i \in DOMAIN d.keys |->
               [d.keys[i] EXCEPT !.paths = IF Len(@) = 1 THEN @ ELSE <<@[b]>>]]]]

-----------------------------------------------------------------------------
(* Addresses *)

\* The script at an index: what is asked, of which children of the keys.
ScriptAt(d, i) ==
    [fn |-> d.fn, cond |-> d.cond,
     keys |-> {<<IF d.cond = "sorted" THEN 0 ELSE j, d.keys[j].id,
                 d.keys[j].paths[1] \o (IF d.keys[j].wild = "none" THEN <<>> ELSE <<[n |-> i, hard |-> FALSE]>>)>> :
               j \in DOMAIN d.keys}]
Spelling(network) == CASE network = "mainnet" -> "bc" [] network = "regtest" -> "bcrt" [] OTHER -> "tb"
Address(script, network) == [script |-> script, spelled |-> Spelling(network)]
FirstAddress(d, network) == IF d.fn = "bare" THEN {} ELSE {Address(ScriptAt(d, 0), network)}

\* address_of: the address of a ranged descriptor that a fixed one is, at
\* an index its keys end on.
LastSteps(d) == {p[Len(p)].n : p \in UNION {{p \in Paths(k) : p # <<>> /\ ~p[Len(p)].hard} : k \in Keys(d)}}

AddressOf(ranged, fixed) ==
    IF ~HasWildcard(ranged) \/ HasWildcard(fixed) THEN {}
    ELSE {i \in LastSteps(fixed) : ScriptAt(ranged, i) = ScriptAt(fixed, 0)}

-----------------------------------------------------------------------------
(* Pairs *)

\* policy_by_material: who may spend, whatever the paths and the order;
\* descriptor_by_material: the same script on the same keys.
PolicyByMaterial(d) == [cond |-> d.cond, keys |-> {k.id : k \in Keys(d)}]
DescriptorByMaterial(d) == [fn |-> d.fn, cond |-> d.cond, keys |-> [i \in DOMAIN d.keys |-> d.keys[i].id]]

\* pair_holds; strict for a pair read from two lines, which refuses a
\* policy it cannot read.
PairHolds(external, internal, strict) ==
    /\ external # internal
    /\ AddressOf(external, internal) = {} /\ AddressOf(internal, external) = {}
    /\ external.fn = internal.fn
    /\ CASE external.lifts /\ internal.lifts -> PolicyByMaterial(external) = PolicyByMaterial(internal)
         [] ~external.lifts /\ ~internal.lifts ->
              ~strict /\ DescriptorByMaterial(external) = DescriptorByMaterial(internal)
         [] OTHER -> FALSE

-----------------------------------------------------------------------------
(* The material of a wallet, as it reaches the engine: external, internal, *)
(* address, each a set of at most one                                      *)

Descriptors(kind) == kind.external \cup kind.internal

\* read_pair: each descriptor held to public keys, the pair to one wallet.
ReadsPair(kind) ==
    /\ \A d \in Descriptors(kind) : ReadsDescriptor(d)
    /\ \A e \in kind.external, i \in kind.internal : PairHolds(e, i, FALSE)

CheckAddress(a, network) == a.spelled = Spelling(network)

\* check_material: what a restore refuses in words, before the engine.
CheckMaterial(kind, network) ==
    /\ ReadsPair(kind)
    /\ \A d \in Descriptors(kind) : Contains(DescriptorNetworks(d), network) /\ ~IsMultipath(d)
    /\ \A a \in kind.address : CheckAddress(a, network)

\* create_engine: the pair read again, a bare script refused; then the
\* engine's own checks: public keys of the network, two first addresses.
EngineTakes(kind, network) ==
    /\ ReadsPair(kind)
    /\ \A d \in Descriptors(kind) :
         /\ d.fn # "bare" /\ ~IsMultipath(d)
         /\ Kinds(d) \subseteq {IF network = "mainnet" THEN "main" ELSE "test"}
    /\ \A e \in kind.external, i \in kind.internal : ScriptAt(e, 0) # ScriptAt(i, 0)
    /\ \A a \in kind.address : CheckAddress(a, network)

=============================================================================
