------------------------------ MODULE Preview -------------------------------
(***************************************************************************)
(* What is shown of a transaction before it is sent (broadcast.rs): its    *)
(* decoding from a PSBT or a raw transaction, what the signatures still    *)
(* missing from it will weigh (broadcast/signing.rs), and the preview      *)
(* built from that and from what the wallets and the servers said of its   *)
(* coins.                                                                  *)
(*                                                                         *)
(* A script is a record type, of: what its hash commits to. A miniscript   *)
(* is a record parses, weight; a key, a record name, weight; a taproot     *)
(* output commits to an internal key and a set of leaves, each a           *)
(* miniscript.                                                             *)
(*                                                                         *)
(* A coin spent is named by its outpoint, tx and vout; what it holds is a  *)
(* record value, script. A caution is a record kind, at (the input, 0 for  *)
(* the whole), blocking. An optional value is a set of at most one         *)
(* element. Satoshi sums do not wrap: past MAX_MONEY no amount counts.     *)
(***************************************************************************)
EXTENDS Integers, Sequences, SequencesExt, FiniteSets, FiniteSetsExt

CONSTANTS MAX_MONEY, HIGH_FEE_RATE_SAT_VB, HIGH_FEE_SHARE, DUST

-----------------------------------------------------------------------------
\* The signatures still missing.

\* Weights as miniscript counts them.
WPKH == 108
SH_WPKH == 200
KEY_PATH == 66
PLAUSIBLE_HEAVIEST == [weight |-> 4 * 1650, witness |-> FALSE]

Taken(weight, witness) == {[weight |-> weight, witness |-> witness]}

\* What a PSBT input tells of how it will be signed.
NoHints == [redeem |-> {}, witness |-> {}, leaves |-> {}, internal |-> {},
            root |-> FALSE, keys |-> {}]

\* Each script the PSBT carries is read only when the coin commits to it.
SegwitScript(hints, spent) == {s \in hints.witness : s = spent.of}
OfScript(scripts, overhead, witness) ==
  UNION {Taken(s.weight + overhead, witness) : s \in {s \in scripts : s.parses}}

\* A leaf is shown with the control block that places it in a tree.
Taproot(spent, hints) ==
  LET leaves == hints.leaves
      onlyKey == /\ ~hints.root
                 /\ hints.internal = {spent.of.internal}
                 /\ spent.of.leaves = {}
      readable == \A l \in leaves : l \in spent.of.leaves /\ l.parses
  IN  CASE leaves = {} /\ ~onlyKey -> {}
        [] leaves = {} /\ onlyKey -> Taken(KEY_PATH, TRUE)
        [] leaves # {} /\ ~readable -> {}
        [] OTHER -> Taken(Max({KEY_PATH} \cup {l.weight : l \in leaves}), TRUE)

\* What signing adds to an input, by its coin's script and the PSBT; none
\* when neither tells.
Estimated(spent, hints) ==
  CASE spent.type = "p2wpkh" -> Taken(WPKH, TRUE)
    [] spent.type = "p2pkh" ->
         UNION {Taken(k.weight, FALSE) : k \in {k \in hints.keys : k = spent.of}}
    [] spent.type = "p2tr" -> Taproot(spent, hints)
    [] spent.type = "p2wsh" -> OfScript(SegwitScript(hints, spent), 0, TRUE)
    [] spent.type = "p2sh" ->
         UNION {CASE r.type = "p2wpkh" -> Taken(SH_WPKH, TRUE)
                  [] r.type = "p2wsh" -> OfScript(SegwitScript(hints, r), 140, TRUE)
                  [] r.type = "script" -> OfScript({r.of}, 0, FALSE) :
                  r \in {r \in hints.redeem : r = spent.of}}
    [] OTHER -> {}

\* The weight once each input carries what it lacks, from the base size in
\* bytes and the size of each input's witness (one byte for none).
WeightOnceSigned(base, witnesses, missing) ==
  LET indices == DOMAIN witnesses
      added(i) == SumSet({s.weight : s \in missing[i]})
      segwit == \/ \E i \in indices : witnesses[i] > 1
                \/ \E i \in indices : \E s \in missing[i] : s.witness
  IN  4 * base
        + (IF segwit THEN 2 + MapThenSumSet(LAMBDA i : witnesses[i], indices)
           ELSE 0)
        + MapThenSumSet(added, indices)
ToVbytes(weight) == (weight + 3) \div 4

-----------------------------------------------------------------------------
\* Signatures are told by their shape: an element of a witness, or a push
\* of a script, is a record len, first (its first byte), der (the type of
\* the DER signature it is, if any) and last (the type its last byte is).
Loose(kind) == kind \in {"none", "single"}

IsControlBlock(e) == /\ e.len >= 33 /\ (e.len - 33) % 32 = 0
                     /\ e.len <= 33 + 32 * 128
                     /\ e.first \in {192, 193}
IsAnnex(e) == e.first = 80

\* Whether a signature of an input leaves outputs open. The annex, and the
\* script and control block that end a script path, are set aside first.
LooseSighashIn(pushes, witness) ==
  LET whole == IF Len(witness) >= 2 /\ IsAnnex(Last(witness))
               THEN Front(witness) ELSE witness
      stack == IF Len(whole) >= 2 /\ IsControlBlock(Last(whole))
               THEN SubSeq(whole, 1, Len(whole) - 2) ELSE whole
      ofElement(e) == IF e.der # {} THEN e.der
                      ELSE IF e.len = 65 THEN e.last ELSE {}
  IN  \/ \E i \in DOMAIN stack : \E kind \in ofElement(stack[i]) : Loose(kind)
      \/ \E i \in DOMAIN pushes : \E kind \in pushes[i].der : Loose(kind)

-----------------------------------------------------------------------------
\* Amounts.

Total(values) == FoldSeq(LAMBDA v, sum : v + sum, 0, values)

-----------------------------------------------------------------------------
\* Decoding.

\* Text is a record blank, long, wrapped (none, part, whole), inner: empty
\* text, text too long, part of an envelope and an envelope in an envelope
\* are refused. The bytes inside read as a PSBT, a transaction or neither.
Squeezed(text) == IF text.blank \/ text.long THEN {} ELSE {text}
DecodeTransaction(text) ==
  LET bare == Squeezed(text)
      opened == UNION {CASE t.wrapped = "none" -> {t.inner}
                         [] t.wrapped = "part" -> {}
                         [] t.wrapped = "whole" ->
                              {u.inner : u \in {u \in Squeezed(t.inner) :
                                                  u.wrapped = "none"}} : t \in bare}
  IN  {b \in opened : b.source \in {"psbt", "raw"}}

Repeated(inputs) ==
  \E i, j \in DOMAIN inputs : i < j /\ inputs[i].outpoint = inputs[j].outpoint

\* An input of a raw transaction is signed when it carries anything.
RawInput(input) ==
  [signed |-> input.pushes # << >> \/ input.witness # << >>,
   prevout |-> {}, proven |-> FALSE, disputed |-> {},
   loose |-> LooseSighashIn(input.pushes, input.witness),
   finalized |-> {}, hints |-> NoHints, size |-> input.size,
   bare |-> input.pushes = << >> /\ input.witness = << >>]

\* The previous transaction a PSBT input carries is the one its outpoint
\* names, and has the output spent.
Coherent(input) ==
  \A prev \in input.previous : /\ prev.tx = input.outpoint.tx
                               /\ input.outpoint.vout \in DOMAIN prev.outs

FromPrevious(input) == {prev.outs[input.outpoint.vout] : prev \in input.previous}

\* The finalizer completes an input from the signatures it carries, and
\* leaves one already final alone. All inputs final, the transaction is
\* extracted with what they carry; otherwise it is the bare skeleton.
PsbtInput(input, ready) ==
  LET known == FromPrevious(input)
      signed == input.signatures \in {"enough", "final"}
  IN  [signed |-> signed,
       prevout |-> IF known # {} THEN known ELSE input.witnessUtxo,
       proven |-> known # {},
       disputed |-> IF known # {} THEN input.witnessUtxo \ known ELSE {},
       loose |-> input.loose,
       finalized |-> IF signed THEN {input.final} ELSE {},
       hints |-> input.hints, size |-> 1,
       bare |-> ~ready]

\* A transaction decoded, or nothing when it is refused.
Decode(bytes) ==
  LET ready == \A i \in DOMAIN bytes.inputs :
                 bytes.inputs[i].signatures \in {"enough", "final"}
      inputs == [i \in DOMAIN bytes.inputs |->
                   IF bytes.source = "psbt" THEN PsbtInput(bytes.inputs[i], ready)
                   ELSE RawInput(bytes.inputs[i])]
  IN  IF \/ bytes.inputs = << >> \/ Repeated(bytes.inputs)
         \/ bytes.source = "psbt" /\ \E i \in DOMAIN bytes.inputs :
                                       ~Coherent(bytes.inputs[i])
      THEN {}
      ELSE {[source |-> bytes.source, tx |-> bytes.tx, inputs |-> inputs,
             outpoints |-> [i \in DOMAIN bytes.inputs |-> bytes.inputs[i].outpoint],
             ready |-> \A i \in DOMAIN inputs : inputs[i].signed]}

-----------------------------------------------------------------------------
\* What is learned of an input besides.

NoFacts == [prevout |-> {}, wallet |-> {}, spent |-> {}, by |-> {},
            listed |-> FALSE, contradicted |-> {}, unknown |-> FALSE,
            unchecked |-> FALSE, satisfaction |-> {}]

\* A transaction outweighs every word about the coin it pays; a wallet or
\* a server outweighs the PSBT's own word.
Spent(decoded, facts) ==
  [i \in DOMAIN decoded.inputs |->
     IF decoded.inputs[i].proven \/ facts[i].prevout = {}
     THEN decoded.inputs[i].prevout ELSE facts[i].prevout]

MutIsProven(decoded, facts, i) == facts[i].prevout # {} \/ decoded.inputs[i].proven

IsProven(decoded, facts, i) ==
  \/ facts[i].prevout # {} /\ ~facts[i].listed
  \/ decoded.inputs[i].proven

-----------------------------------------------------------------------------
\* Amounts.

Paid(tx) == Total([o \in DOMAIN tx.outs |-> tx.outs[o].value])
OutputsImpossible(tx) == Paid(tx) > MAX_MONEY
ValuesKnown(spent) == \A i \in DOMAIN spent : spent[i] # {}
Brought(spent) ==
  Total([i \in DOMAIN spent |-> (CHOOSE c \in spent[i] : TRUE).value])
InputsImpossible(spent) == ValuesKnown(spent) /\ Brought(spent) > MAX_MONEY

Amounts(tx, spent) == /\ ValuesKnown(spent)
                      /\ ~OutputsImpossible(tx) /\ ~InputsImpossible(spent)
Overspends(tx, spent) == Amounts(tx, spent) /\ Paid(tx) > Brought(spent)
Fee(tx, spent) == IF Amounts(tx, spent) /\ ~Overspends(tx, spent)
                  THEN {Brought(spent) - Paid(tx)} ELSE {}

\* What each input lacks: done when it carries its signatures, and
\* otherwise what it takes when that can be told.
Missing(decoded, facts, spent) ==
  [i \in DOMAIN decoded.inputs |->
     LET d == decoded.inputs[i]
         needs == CASE d.finalized # {} -> d.finalized
                    [] d.finalized = {} /\ facts[i].satisfaction # {} ->
                         facts[i].satisfaction
                    [] OTHER -> UNION {Estimated(c.script, d.hints) : c \in spent[i]}
     IN  [done |-> ~d.bare, needs |-> IF d.bare THEN needs ELSE {}]]

\* The size the fee rate is measured on, what it is, and the size the
\* caution about a high rate goes by.
Measured(decoded, facts, spent) ==
  LET missing == Missing(decoded, facts, spent)
      indices == DOMAIN missing
      told == \A i \in indices : missing[i].done \/ missing[i].needs # {}
      once(default) ==
        ToVbytes(WeightOnceSigned(decoded.tx.base,
          [i \in indices |-> decoded.inputs[i].size],
          [i \in indices |-> IF missing[i].done \/ missing[i].needs # {}
                             THEN missing[i].needs ELSE {default}]))
  IN  CASE decoded.ready ->
             [basis |-> "exact", size |-> decoded.tx.vsize, judged |-> decoded.tx.vsize]
        [] ~decoded.ready /\ told ->
             [basis |-> "estimated", size |-> once(PLAUSIBLE_HEAVIEST),
              judged |-> once(PLAUSIBLE_HEAVIEST)]
        [] OTHER -> [basis |-> "upper_bound", size |-> decoded.tx.vsize,
                     judged |-> once(PLAUSIBLE_HEAVIEST)]

-----------------------------------------------------------------------------
\* Cautions.

Caution(kind, at, blocking) == [kind |-> kind, at |-> at, blocking |-> blocking]
Says(cond, kind, at, blocking) ==
  IF cond THEN {Caution(kind, at, blocking)} ELSE {}

InMempool(decoded, facts) ==
  \E i \in DOMAIN facts : \E by \in facts[i].by :
    /\ ~facts[i].unknown /\ ~facts[i].unchecked
    /\ by.tx = decoded.tx.id /\ ~by.confirmed

\* A spend blocks once in a block by a transaction seen making it.
SpentBlocks(by) == by.confirmed /\ by.verified
SpentCaution(decoded, f, i) ==
  LET waiting == \E by \in f.by : by.tx = decoded.tx.id /\ ~by.confirmed
  IN  Says(f.spent = {TRUE} /\ ~waiting, "input_spent", i,
           \E by \in f.by : SpentBlocks(by))

InputCautions(decoded, facts, spent, i) ==
  LET d == decoded.inputs[i]
      f == facts[i]
  IN  Says(d.loose, "uncommitted", i, FALSE)
        \cup Says(\/ d.prevout # {} /\ d.disputed # {}
                  \/ f.prevout # {} /\ d.prevout # {} /\ f.prevout # d.prevout
                  \/ f.contradicted # {} /\ spent[i] # {},
                  "input_mismatch", i, FALSE)
        \cup (IF f.unknown \/ f.unchecked
              THEN {Caution("input_unknown", i, FALSE)}
              ELSE SpentCaution(decoded, f, i))

FeeCautions(decoded, facts, spent, measured) ==
  LET tx == decoded.tx
      vouched == \A i \in DOMAIN decoded.inputs : IsProven(decoded, facts, i)
      fee == Fee(tx, spent)
  IN  IF fee = {}
      THEN {Caution("fee_unknown", 0,
                    \/ OutputsImpossible(tx)
                    \/ ~InputsImpossible(spent) /\ Overspends(tx, spent) /\ vouched)}
      ELSE UNION {Says(f > HIGH_FEE_RATE_SAT_VB * measured.judged,
                       "high_fee_rate", 0, FALSE)
                    \cup Says(f * 100 > HIGH_FEE_SHARE * Brought(spent),
                              "high_fee_share", 0, FALSE) : f \in fee}

\* A lock binds when an input leaves it on; a height lock is met at a tip
\* of that height.
Locked(lock, tip, now) ==
  CASE lock.kind = "off" -> FALSE
    [] lock.kind = "height" -> \E t \in tip : lock.at > t
    [] lock.kind = "time" -> lock.at > now

Warnings(decoded, facts, spent, tip, now) ==
  LET tx == decoded.tx
      unsigned == \E i \in DOMAIN decoded.inputs : ~decoded.inputs[i].signed
      pooled == InMempool(decoded, facts)
      small(o) == ~tx.outs[o].data /\ tx.outs[o].value < DUST
  IN  Says(unsigned /\ ~(pooled /\ ~decoded.ready), "unsigned", 0, TRUE)
        \cup (UNION {InputCautions(decoded, facts, spent, i) :
                       i \in DOMAIN decoded.inputs})
        \cup Says(pooled, "in_mempool", 0, FALSE)
        \cup FeeCautions(decoded, facts, spent, Measured(decoded, facts, spent))
        \cup Says(Locked(tx.lock, tip, now), "locked", 0, FALSE)
        \cup Says(\E o \in DOMAIN tx.outs : small(o), "dust", 0, FALSE)
        \cup Says(\E i \in DOMAIN facts : facts[i].wallet # {},
                  "spends_watched", 0, FALSE)

\* Where it stands: a refusal no signature fixes is said first.
Readiness(decoded, facts, warnings) ==
  CASE \E w \in warnings : w.blocking /\ w.kind # "unsigned" -> "refused"
    [] OTHER -> CASE ~decoded.ready -> "unsigned"
                  [] decoded.ready /\ InMempool(decoded, facts) -> "in_mempool"
                  [] OTHER -> "ready"

BuildPreview(decoded, facts, tip, now) ==
  LET spent == Spent(decoded, facts)
      warnings == Warnings(decoded, facts, spent, tip, now)
      readiness == Readiness(decoded, facts, warnings)
      unproven(i) == ~IsProven(decoded, facts, i)
  IN  [fee |-> Fee(decoded.tx, spent),
       basis |-> Measured(decoded, facts, spent).basis,
       declared |-> \E i \in DOMAIN spent : spent[i] # {} /\ unproven(i),
       listed |-> \E i \in DOMAIN spent :
                    unproven(i) /\ facts[i].listed /\ facts[i].prevout # {},
       warnings |-> warnings, readiness |-> readiness,
       ready |-> readiness \in {"ready", "in_mempool"}]
=============================================================================
