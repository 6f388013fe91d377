------------------------------- MODULE Frames -------------------------------
(***************************************************************************)
(* QR codes read one frame at a time (src/src/input/qr.rs): the fold of a  *)
(* scan over its frames (QrScan, UrFold, BbqrFold), the text a message is  *)
(* turned into, and the scans an app holds for its screens (QrScans), into *)
(* which several threads push frames at once.                              *)
(*                                                                         *)
(* A frame is what its header and its part say, with the code it was drawn *)
(* from (owner): only equality of payloads and checksums ever reads owner. *)
(* The fountain decoder and the byte encodings are external: a part is the *)
(* set of fragments it mixes, a message comes back when the fragments are  *)
(* resolved and its checksum is the one its parts announce.                *)
(***************************************************************************)
LOCAL INSTANCE Integers
LOCAL INSTANCE Sequences
LOCAL INSTANCE FiniteSets
LOCAL INSTANCE SequencesExt
LOCAL INSTANCE Functions

CONSTANTS
    Codes,          \* what is shown to the camera: name -> its checksum, message and file
    Frames,         \* the frames of the codes and damaged ones
    Threads,        \* threads pushing frames
    MinScanFrames,  \* MIN_SCAN_FRAMES
    MaxScanFrames,  \* MAX_SCAN_FRAMES
    MaxUrParts,     \* MAX_UR_PARTS
    MaxUrMix,       \* MAX_UR_MIX
    MaxFrameLen,    \* MAX_FRAME_LEN
    MaxScanBytes,   \* MAX_SCAN_BYTES
    MaxOpenScans,   \* MAX_OPEN_SCANS
    MaxRefused,     \* MAX_REFUSED_CODES
    MaxIndex,       \* 2^31, the bound of an index of a key path
    MaxDepth,       \* 255, the deepest a key can be
    MaxScans        \* bound: scans opened in a behaviour

VARIABLES
    scans,          \* QrScans.open.scans: the numbers open, oldest first
    heldScans,      \* what each scan ever opened holds
    refusedCodes,   \* QrScans.open.refused, oldest first
    pushes          \* what each thread's push is at

frameVars == <<scans, heldScans, refusedCodes, pushes>>

-----------------------------------------------------------------------------
(* The answers of a scan *)

NoText == [form |-> "", of |-> "", wraps |-> <<>>, script |-> "", threshold |-> 0, keys |-> <<>>]
TextOf(form, of) == [NoText EXCEPT !.form = form, !.of = of]

Refusal(why) == [is |-> "refused", why |-> why, text |-> NoText, received |-> 0, total |-> 0, assumed |-> FALSE]
Partial(received, total) ==
    [Refusal("") EXCEPT !.is = "partial", !.received = received, !.total = total]
Complete(text, received, total, assumed) ==
    [Partial(received, total) EXCEPT !.is = "text", !.text = text, !.assumed = assumed]

IsRefused(answer) == answer.is = "refused"

-----------------------------------------------------------------------------
(* The text of a key, of an output and of a message. A CBOR map is a      *)
(* record whose fields are sets: empty when the key is absent.             *)

\* A field of a map, or a value when it is absent.
MapGet(field, absent) == IF field = {} THEN absent ELSE CHOOSE v \in field : TRUE

\* The steps of a key path: indices below 2^31, wildcards and pairs.
ReadsPath(path) ==
    /\ path.dangling = FALSE
    /\ \A i \in DOMAIN path.steps :
        /\ path.steps[i].flagged
        /\ \A index \in path.steps[i].indices : index \in 0..(MaxIndex - 1)
        /\ Cardinality(path.steps[i].indices) <= 2

\* hdkey_parts: the key with its origin, and its children path; a refusal
\* is the set of what is wrong with it, private material first.
KeyRefusals(map) ==
    IF map.private = {TRUE} THEN {"private"}
    ELSE IF \/ map.data /= {"point"} \/ map.chain /= {32}
            \/ map.network \notin {{}, {0}, {1}}
            \/ \E path \in map.origin \cup map.children : ~ReadsPath(path)
            \/ map.fingerprint # {} /\ map.fingerprint # {"u32"}
            \/ MapGet(map.depth, 0) > MaxDepth
         THEN {"unreadable"} ELSE {}

Children(map) == {path.steps : path \in {p \in map.children : p.steps # <<>>}}

HdkeyText(map) ==
    [key |-> map.name, network |-> MapGet(map.network, 0),
     depth |-> MapGet(map.depth, MapGet({Len(p.steps) : p \in map.origin}, 0)),
     origin |-> IF map.fingerprint = {} THEN {} ELSE {MapGet({p.steps : p \in map.origin}, <<>>)},
     children |-> Children(map)]

\* key_expression: both branches are assumed of an hdkey that names none.
BothBranches == <<[indices |-> {0, 1}, hardened |-> FALSE, flagged |-> TRUE],
                  [indices |-> {}, hardened |-> FALSE, flagged |-> TRUE]>>

KeyExpressionRefusals(key) ==
    CASE key.tag = "hdkey" -> KeyRefusals(key)
      [] key.tag = "eckey" -> IF key.private = {TRUE} \/ (key.data = {32}) THEN {"private"}
                              ELSE IF key.data \in {{33}, {65}} THEN {} ELSE {"unreadable"}
      [] OTHER -> {"unreadable"}

AssumesBranches(key) == key.tag = "hdkey" /\ Children(key) = {}

KeyExpression(key) ==
    IF key.tag = "eckey"
    THEN [key |-> key.name, network |-> 0, depth |-> 0, origin |-> {}, children |-> {}]
    ELSE [HdkeyText(key) EXCEPT !.children = IF @ = {} THEN {BothBranches} ELSE @]

\* crypto_output_to_descriptor: the tags that wrap, then a script over keys.
Wraps == {"sh", "wsh"}
OneKey == {"pk", "pkh", "wpkh", "tr"}
Multis == {"multi", "sortedmulti"}

OutputRefusals(output) ==
    LET last == output.tags[Len(output.tags)]
        Firsts == {KeyExpressionRefusals(output.keys[i]) : i \in 1..Len(output.keys)} \ {{}}
        first == SelectSeq(output.keys, LAMBDA k : KeyExpressionRefusals(k) # {})
    IN IF \/ output.tags = <<>>
          \/ \E i \in 1..(Len(output.tags) - 1) : output.tags[i] \notin Wraps
          \/ last \notin OneKey \cup Multis
          \/ last \in Multis /\ output.threshold = {}
       THEN {"unreadable"}
       ELSE IF Firsts = {} THEN {} ELSE KeyExpressionRefusals(first[1])

OutputText(output) ==
    [NoText EXCEPT !.form = "descriptor", !.wraps = Front(output.tags), !.script = Last(output.tags),
                   !.threshold = MapGet(output.threshold, 0),
                   !.keys = [i \in 1..Len(output.keys) |-> KeyExpression(output.keys[i])]]

\* UR_TYPES and ur_message_to_text.
UrTypes == {"bytes", "crypto-output", "crypto-hdkey", "crypto-psbt", "psbt"}

MessageRefusals(type, message) ==
    CASE type \notin UrTypes -> {"not_read"}
      [] type = "crypto-output" -> OutputRefusals(message)
      [] type = "crypto-hdkey" -> KeyRefusals(message.keys[1])
      [] type = "bytes" -> IF message.holds \in {"text", "backup"} THEN {} ELSE {"unreadable"}
      [] OTHER -> IF message.holds = "other" THEN {"unreadable"} ELSE {}

MessageText(type, message) ==
    CASE type = "crypto-output" -> OutputText(message)
      [] type = "crypto-hdkey" -> [TextOf("key", "") EXCEPT !.keys = <<HdkeyText(message.keys[1])>>]
      [] type = "bytes" -> TextOf(message.holds, message.name)
      [] OTHER -> TextOf("base64", message.name)

\* ur_progress: where a UR stands, its message read.
UrProgress(type, received, total, message) ==
    LET refusals == MessageRefusals(type, message)
    IN IF refusals # {} THEN Refusal(MapGet(refusals, ""))
       ELSE Complete(MessageText(type, message), received, total,
                     type = "crypto-output" /\ \E i \in DOMAIN message.keys : AssumesBranches(message.keys[i]))

-----------------------------------------------------------------------------
(* One scan: Empty, Settled, Refused, Ur, Bbqr or Over *)

NoFold == [is |-> "empty", answer |-> Refusal("no_frame"), code |-> {}, type |-> "", total |-> 0,
           enc |-> "", taken |-> {}, parts |-> <<>>]
Settled(answer) == [NoFold EXCEPT !.is = "settled", !.answer = answer]
EmptyScan == [frames |-> 0, limit |-> 0, fold |-> NoFold, bytes |-> 0]

Clamp(n, low, high) == IF n < low THEN low ELSE IF n > high THEN high ELSE n
ScanFrameLimit(total) == Clamp(3 * total, MinScanFrames, MaxScanFrames)

IsEnvelope(frame) == frame.env \in {"ur", "bbqr"}
AnnouncedParts(frame) == IF IsEnvelope(frame) /\ frame.reads /\ frame.multi THEN frame.total ELSE 0

\* ur_part: none for a frame the decoder would turn away for its numbers.
IsUrPart(frame) ==
    /\ frame.env = "ur" /\ frame.reads /\ frame.multi /\ frame.intact
    /\ frame.total \in 1..MaxUrParts
    /\ frame.seq > 0 /\ frame.count = frame.total
CodeOf(frame) == [type |-> frame.type, count |-> frame.count, sum |-> frame.sum]
Holds(code, frame) == IsUrPart(frame) /\ CodeOf(frame) = code

\* The fountain decoder: the fragments its parts resolve.
RECURSIVE Resolved(_, _)
Resolved(taken, known) ==
    LET next == known \cup UNION {p.mix : p \in {q \in taken : Cardinality(q.mix \ known) = 1}}
    IN IF next = known THEN known ELSE Resolved(taken, next)

Received(fold) == Cardinality(Resolved(fold.taken, {}))

\* Parts of another code are turned away by the decoder; one that brings
\* nothing is dropped.
Receives(fold, frame) == fold.code \in {{}, {CodeOf(frame)}}

\* UrFold::take, whatever the frame: the decoder is fed parts only.
UrFed(fold, frame) ==
    IF IsUrPart(frame) /\ Cardinality(frame.mix) <= MaxUrMix /\ Receives(fold, frame)
    THEN [fold EXCEPT !.code = {CodeOf(frame)},
                      !.taken = IF frame.mix \subseteq Resolved(@, {}) THEN @
                                ELSE @ \cup {[mix |-> frame.mix, owner |-> frame.owner]}]
    ELSE fold

IsTogether(fold) == \E code \in fold.code : Received(fold) = code.count

\* Whether the message's checksum is the one its parts announce: of the
\* fragments of several codes it is not.
ChecksumHolds(fold) ==
    \E owner \in DOMAIN Codes : /\ \A p \in fold.taken : p.owner = owner
                                /\ \A code \in fold.code : Codes[owner].sum = code.sum

\* UrFold::finish.
Finish(fold) ==
    LET code == MapGet(fold.code, {})
        owner == (CHOOSE p \in fold.taken : TRUE).owner
    IN IF ~ChecksumHolds(fold) THEN Refusal("unreadable")
       ELSE UrProgress(code.type, Received(fold), fold.total, Codes[owner].message)

\* A reading that remembers the code of a message whose checksum fails.
MutIsOfThatCode(fold, answer) == IsRefused(answer)

IsOfThatCode(fold, answer) == IsRefused(answer) /\ ChecksumHolds(fold)

\* UrFold::settle, with what finish answers.
Settle(fold, answer) ==
    IF IsOfThatCode(fold, answer)
    THEN [Settled(answer) EXCEPT !.is = "refused", !.code = fold.code]
    ELSE Settled(answer)

TakenTogether(fold) == IF IsTogether(fold) THEN Settle(fold, Finish(fold)) ELSE fold
UrTake(fold, frame) == TakenTogether(UrFed(fold, frame))

UrOpen(frame) ==
    CASE ~frame.reads -> Settled(Refusal("damaged"))
      [] ~frame.multi -> Settled(IF frame.intact
                                 THEN UrProgress(frame.type, 1, 1, Codes[frame.owner].message)
                                 ELSE Refusal("damaged"))
      [] frame.total = 0 -> Settled(Refusal("damaged"))
      [] frame.total > MaxUrParts -> Settled(Refusal("too_many_parts"))
      [] frame.type \notin UrTypes -> Settled(Refusal(IF frame.named THEN "not_read" ELSE "damaged"))
      [] OTHER -> UrTake([NoFold EXCEPT !.is = "ur", !.type = frame.type, !.total = frame.total], frame)

\* BbqrFold::decode, of parts of one code or of several.
BbqrText(fold) ==
    LET owners == Range(fold.parts)
        file == IF Cardinality(owners) = 1 THEN Codes[CHOOSE o \in owners : TRUE].file ELSE "glued"
    IN CASE file = "garbage" -> Refusal("unreadable")
         [] file = "huge" /\ fold.enc = "Z" -> Refusal("too_large")
         [] OTHER -> Complete(TextOf(CASE fold.type = "P" -> "base64" [] fold.type = "T" -> "hex" [] OTHER -> "text",
                                     IF file = "glued" THEN "glued" ELSE CHOOSE o \in owners : TRUE),
                              fold.total, fold.total, FALSE)

BbqrReceived(fold) == Cardinality({i \in DOMAIN fold.parts : fold.parts[i] # ""})

\* BbqrFold::take: parts of another header are passed over, a part that
\* differs from the one its index has refuses the scan, complete or not.
BbqrTake(fold, frame) ==
    IF \/ frame.env # "bbqr" \/ ~frame.reads
       \/ frame.total # fold.total \/ frame.enc # fold.enc \/ frame.type # fold.type
    THEN fold
    ELSE IF fold.parts[frame.seq] \notin {"", frame.owner}
         THEN Settled(Refusal("two_codes"))
         ELSE [fold EXCEPT !.parts[frame.seq] = frame.owner]

BbqrOpen(frame) ==
    CASE ~frame.reads -> Settled(Refusal("damaged"))
      [] frame.type \notin {"U", "J", "P", "T"} -> Settled(Refusal("not_read"))
      [] frame.enc \notin {"H", "2", "Z"} -> Settled(Refusal("not_read"))
      [] OTHER -> BbqrTake([NoFold EXCEPT !.is = "bbqr", !.type = frame.type, !.enc = frame.enc,
                                          !.total = frame.total,
                                          !.parts = [i \in 1..frame.total |-> ""]], frame)

First(frame) ==
    CASE frame.env = "ur" -> UrOpen(frame)
      [] frame.env = "bbqr" -> BbqrOpen(frame)
      [] OTHER -> Settled(Complete(TextOf("plain", frame.owner), 1, 1, FALSE))

\* QrScan::take.
TakeFrame(scan, frame) ==
    IF frame.env = "blank" THEN scan
    ELSE LET counted == [scan EXCEPT !.frames = @ + 1]
         IN IF scan.fold.is = "empty"
            THEN [counted EXCEPT !.limit = ScanFrameLimit(AnnouncedParts(frame)), !.fold = First(frame)]
            ELSE [counted EXCEPT !.fold =
                    CASE counted.frames > counted.limit -> [NoFold EXCEPT !.is = "over"]
                      [] @.is = "ur" -> UrTake(@, frame)
                      [] @.is = "bbqr" -> BbqrTake(@, frame)
                      [] OTHER -> @]

\* QrScan::progress.
ScanProgress(scan) ==
    IF scan.frames = 0 THEN Refusal("no_frame")
    ELSE IF scan.frames > scan.limit THEN Refusal("too_many_frames")
    ELSE CASE scan.fold.is = "ur" -> Partial(Received(scan.fold), scan.fold.total)
           [] scan.fold.is = "bbqr" ->
                IF BbqrReceived(scan.fold) = scan.fold.total THEN BbqrText(scan.fold)
                ELSE Partial(BbqrReceived(scan.fold), scan.fold.total)
           [] OTHER -> scan.fold.answer

WithProgress(scan) == [scan |-> scan, answer |-> ScanProgress(scan)]

\* HeldScan::push: the scan with the frame, and its answer.
HeldPush(scan, frame) ==
    LET weighed == [scan EXCEPT !.bytes = @ + frame.len]
    IN IF frame.len > MaxFrameLen THEN [scan |-> scan, answer |-> Refusal("damaged")]
       ELSE IF weighed.bytes > MaxScanBytes THEN [scan |-> weighed, answer |-> Refusal("too_many_frames")]
       ELSE WithProgress(TakeFrame(weighed, frame))

-----------------------------------------------------------------------------
(* The scans of an app *)

Idle == [at |-> "idle", id |-> 0, frame |-> {}, known |-> <<>>, code |-> {}, answer |-> Refusal("")]

FramesInit ==
    /\ scans = <<>> /\ heldScans = <<>> /\ refusedCodes = <<>>
    /\ pushes = [t \in Threads |-> Idle]

\* QrScans::open: the oldest scan is dropped when there are as many as may be.
OpenScan ==
    /\ Len(heldScans) < MaxScans
    /\ heldScans' = Append(heldScans, EmptyScan)
    /\ scans' = Append(IF Len(scans) >= MaxOpenScans THEN Tail(scans) ELSE scans, Len(heldScans'))
    /\ UNCHANGED <<refusedCodes, pushes>>

\* QrScans::close.
CloseScan(id) ==
    /\ id \in Range(scans)
    /\ scans' = SelectSeq(scans, LAMBDA s : s # id)
    /\ UNCHANGED <<heldScans, refusedCodes, pushes>>

\* QrScans::push, first under the lock of the scans: the scan, which a
\* close no longer takes away, and the codes refused so far; a scan that is
\* closed refuses the frame.
PushFrame(t, id, frame) ==
    /\ pushes[t].at = "idle"
    /\ id \in 1..Len(heldScans)
    /\ pushes' = [pushes EXCEPT ![t] =
                    IF id \in Range(scans)
                    THEN [Idle EXCEPT !.at = "reading", !.id = id, !.frame = {frame}, !.known = refusedCodes]
                    ELSE Idle]
    /\ UNCHANGED <<scans, heldScans, refusedCodes>>

\* Then under the lock of that scan: the refusal of a code known refused,
\* or the scan's own answer; one that ends starts again empty.
ReadFrame(t) ==
    /\ pushes[t].at = "reading"
    /\ LET id == pushes[t].id
           frame == MapGet(pushes[t].frame, {})
           known == SelectSeq(pushes[t].known, LAMBDA r :
                        heldScans[id].frames = 0 /\ frame.len <= MaxFrameLen /\ Holds(r.code, frame))
       IN \E pushed \in {IF known = <<>> THEN HeldPush(heldScans[id], frame)
                         ELSE [scan |-> heldScans[id], answer |-> known[1].answer]} :
          /\ heldScans' = [heldScans EXCEPT ![id] = IF pushed.answer.is # "partial" THEN EmptyScan ELSE pushed.scan]
          /\ pushes' = [pushes EXCEPT ![t] =
                          IF IsRefused(pushed.answer) /\ pushed.scan.fold.is = "refused"
                          THEN [Idle EXCEPT !.at = "telling", !.code = pushed.scan.fold.code, !.answer = pushed.answer]
                          ELSE Idle]
    /\ UNCHANGED <<scans, refusedCodes>>

\* Then, for a code newly refused, under the lock of the scans again.
RememberRefused(t) ==
    /\ pushes[t].at = "telling"
    /\ LET code == MapGet(pushes[t].code, {})
           others == SelectSeq(refusedCodes, LAMBDA r : r.code # code)
           room == IF Len(others) >= MaxRefused THEN Tail(others) ELSE others
       IN refusedCodes' = Append(room, [code |-> code, answer |-> pushes[t].answer])
    /\ pushes' = [pushes EXCEPT ![t] = Idle]
    /\ UNCHANGED <<scans, heldScans>>

FramesNext ==
    \/ OpenScan
    \/ \E id \in 1..MaxScans : CloseScan(id)
    \/ \E t \in Threads, id \in 1..MaxScans, frame \in Frames : PushFrame(t, id, frame)
    \/ \E t \in Threads : ReadFrame(t) \/ RememberRefused(t)

-----------------------------------------------------------------------------
(* A code remembered as refused, whose frames every new scan refuses on    *)
(* sight, is one whose own message Gerfaut does not take, with the refusal *)
(* that message gets: never the code of a good message, whatever frames of *)
(* other codes, announcing the same numbers, came between its own.         *)
RefusedRightly ==
    \A i \in DOMAIN refusedCodes :
        \E owner \in DOMAIN Codes :
            /\ Codes[owner].sum = refusedCodes[i].code.sum
            /\ MessageRefusals(refusedCodes[i].code.type, Codes[owner].message)
                    = {refusedCodes[i].answer.why}

=============================================================================
