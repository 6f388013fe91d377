-------------------------------- MODULE News --------------------------------
(***************************************************************************)
(* What a sync found worth announcing (live/news.rs), as operators on the  *)
(* part of the vault's payload that holds it.  Every function of that file *)
(* works on the payload under its caller's lock and does no I/O, so each   *)
(* one is a pure operator here, from a payload to a payload:               *)
(*                                                                         *)
(*   unclaimed  the news nobody took yet, oldest first                     *)
(*   announced  what was announced or recorded as said, oldest first       *)
(*   vanishing  the announced payments a sync no longer saw, oldest first  *)
(*   forgotten  history only: what expiry or a limit took out unsaid       *)
(*                                                                         *)
(* A transaction is a model value.  What it moves each wallet by (Net) and *)
(* the coins it spends (Spends) are facts about it, given as constants.    *)
(***************************************************************************)
EXTENDS Integers, Sequences, FiniteSets, SequencesExt

CONSTANTS
  Wallets,          \* the wallets of the vault
  Txs,              \* the transactions a server may list
  Net,              \* Net[w][t]: net effect of t on wallet w, in satoshis
  Spends,           \* Spends[t]: the outputs t spends
  UNCLAIMED_MAX,    \* unclaimed news kept, at most (500)
  ANNOUNCED_MAX,    \* announcements remembered, at most (2 000)
  UNCLAIMED_FOR,    \* how long news waits for a claim (12 h)
  DROPPED_AFTER,    \* from the first look to the second (10 min)
  VANISHING_FOR     \* how long a vanished payment waits for it (3 days)

NONE == "none"
Stages == {"Mempool", "Confirmed", "Dropped"}
BUMP_ALLOWANCE_SATS == 10000

ASSUME NewsAssumption ==
  /\ Net \in [Wallets -> [Txs -> Int]]
  /\ IsFiniteSet(Txs) /\ NONE \notin Txs
  /\ \A t \in Txs : Spends[t] # {}
  /\ UNCLAIMED_MAX \in Nat \ {0} /\ ANNOUNCED_MAX \in Nat \ {0}
  /\ UNCLAIMED_FOR \in Nat /\ DROPPED_AFTER \in Nat /\ VANISHING_FOR \in Nat
  /\ DROPPED_AFTER < VANISHING_FOR

Payload ==
  [unclaimed : Seq([wallet : Wallets, tx : Txs, stage : Stages,
                    replaces : Txs \cup {NONE}, at : Nat]),
   announced : Seq([wallet : Wallets, tx : Txs, stage : Stages,
                    replaces : Txs \cup {NONE}]),
   vanishing : Seq([wallet : Wallets, tx : Txs, told_as : Txs, missed : Nat]),
   forgotten : SUBSET (Wallets \X Txs \X Stages)]

EmptyPayload ==
  [unclaimed |-> << >>, announced |-> << >>, vanishing |-> << >>,
   forgotten |-> {}]

-----------------------------------------------------------------------------
(***************************************************************************)
(* Transactions against one another.                                       *)
(***************************************************************************)
Abs(n) == IF n < 0 THEN -n ELSE n
Signum(n) == IF n < 0 THEN -1 ELSE IF n > 0 THEN 1 ELSE 0

\* t, which spends what old spent, is a fee bump of it: it moves the wallet
\* the same way and by nearly as much.
Bumps(w, t, old) ==
  LET tenth == Abs(Net[w][old]) \div 10
      allowance == IF tenth < BUMP_ALLOWANCE_SATS THEN tenth
                                                  ELSE BUMP_ALLOWANCE_SATS
  IN  /\ Signum(Net[w][t]) = Signum(Net[w][old])
      /\ Net[w][t] >= Net[w][old] - allowance

Conflict(t, u) == t # u /\ Spends[t] \cap Spends[u] # {}

\* The elements of a list that are in a set, in their order, and the place of
\* the first of them, 0 when there is none.
Only(list, some) ==
  LET upTo[i \in 0..Len(list)] ==
        IF i = 0 THEN << >>
        ELSE IF list[i] \in some THEN Append(upTo[i - 1], list[i]) ELSE upTo[i - 1]
  IN  upTo[Len(list)]
Find(list, some) ==
  LET found == {i \in DOMAIN list : list[i] \in some}
  IN  IF found = {} THEN 0 ELSE CHOOSE i \in found : \A j \in found : i <= j
KeepLast(s, n) == IF Len(s) > n THEN SubSeq(s, Len(s) - n + 1, Len(s)) ELSE s

-----------------------------------------------------------------------------
(***************************************************************************)
(* Reading the payload.                                                    *)
(***************************************************************************)
As(list, w, t, stage) ==
  {e \in ToSet(list) : e.wallet = w /\ e.tx = t /\ e.stage = stage}

AnnouncedAs(p, w, t, stage) == As(p.announced, w, t, stage) # {}

WaitingAs(p, w, t, stage) == As(p.unclaimed, w, t, stage) # {}

PendingSaid(p, w, t) ==
  AnnouncedAs(p, w, t, "Mempool") \/ WaitingAs(p, w, t, "Mempool")

\* The txid the app was told of t's payment under, NONE when it never was.
AnnouncedUnder(p, w, t) ==
  LET i == Find(p.announced, As(p.announced, w, t, "Mempool")
                               \cup As(p.announced, w, t, "Confirmed"))
  IN  IF i = 0 THEN NONE
      ELSE IF p.announced[i].replaces = NONE THEN t
      ELSE p.announced[i].replaces

FirstOf(p, w, t) ==
  LET first == AnnouncedUnder(p, w, t) IN IF first = t THEN NONE ELSE first

MutTold(p, w, t, stage) == AnnouncedAs(p, w, t, stage)

\* A confirmation announced covers the arrival too.
Told(p, w, t, stage) ==
  \/ AnnouncedAs(p, w, t, stage)
  \/ stage = "Mempool" /\ AnnouncedAs(p, w, t, "Confirmed")

Waiting(p, w, now) ==
  Len(Only(p.unclaimed, {e \in ToSet(p.unclaimed) :
                           e.wallet = w /\ e.at + UNCLAIMED_FOR >= now}))

-----------------------------------------------------------------------------
(***************************************************************************)
(* Writing it.                                                             *)
(***************************************************************************)
Remember(p, told) ==
  [p EXCEPT !.announced = KeepLast(@ \o told, ANNOUNCED_MAX)]

\* What leaves the unclaimed news unsaid, noted for the properties.
Forget(p, kept) ==
  [p EXCEPT !.unclaimed = kept,
            !.forgotten = @ \cup {<<e.wallet, e.tx, e.stage>> :
                                    e \in ToSet(p.unclaimed) \ ToSet(kept)}]

Expire(p, now) ==
  Forget(p, Only(p.unclaimed,
                 {e \in ToSet(p.unclaimed) : e.at + UNCLAIMED_FOR >= now}))

\* The arrival of t still waiting is taken back.
UnsayArrival(p, w, t) ==
  [p EXCEPT !.unclaimed = Only(@, ToSet(@) \ As(@, w, t, "Mempool"))]

MutReplaceIntermediate(p, w, old, t) ==
  LET i == Find(p.unclaimed, As(p.unclaimed, w, old, "Mempool"))
  IN  IF i # 0 THEN [p EXCEPT !.unclaimed[i].tx = t]
      ELSE Remember(p, << [wallet |-> w, tx |-> t, stage |-> "Mempool",
                           replaces |-> old] >>)

\* t takes old's place: in the news still waiting where old's arrival is,
\* in the record of what was said otherwise.
Replace(p, w, old, t) ==
  LET i == Find(p.unclaimed, As(p.unclaimed, w, old, "Mempool"))
  IN  IF i # 0 THEN [p EXCEPT !.unclaimed[i].tx = t]
      ELSE Remember(p, << [wallet |-> w, tx |-> t, stage |-> "Mempool",
                           replaces |-> AnnouncedUnder(p, w, old)] >>)

\* One piece of news, unless it was said or waits already.  A confirmation
\* takes the place of the arrival still waiting, and what that replaced.
Push(p, w, t, stage, replaces, now) ==
  IF \/ Told(p, w, t, stage)
     \/ WaitingAs(p, w, t, stage)
     \/ stage = "Mempool" /\ WaitingAs(p, w, t, "Confirmed")
  THEN p
  ELSE LET i == Find(p.unclaimed, As(p.unclaimed, w, t, "Mempool"))
           carried == IF stage = "Confirmed" /\ i # 0 /\ replaces = NONE
                      THEN p.unclaimed[i].replaces ELSE replaces
           q == IF stage = "Confirmed" THEN UnsayArrival(p, w, t) ELSE p
           longer == [q EXCEPT !.unclaimed = Append(@,
                        [wallet |-> w, tx |-> t, stage |-> stage,
                         replaces |-> carried, at |-> now])]
       IN  Forget(longer, KeepLast(longer.unclaimed, UNCLAIMED_MAX))

\* What leaves the vanished payments unsettled, noted the same way.
ForgetVanished(p, kept) ==
  [p EXCEPT !.vanishing = kept,
            !.forgotten = @ \cup {<<e.wallet, e.told_as, "Dropped">> :
                                    e \in ToSet(p.vanishing) \ ToSet(kept)}]

\* Keeps aside a payment a sync no longer saw, unless it is already.
Vanish(p, w, old, told_as, now) ==
  IF \E e \in ToSet(p.vanishing) : e.wallet = w /\ e.tx = old THEN p
  ELSE ForgetVanished(p, KeepLast(
         Append(p.vanishing, [wallet |-> w, tx |-> old, told_as |-> told_as,
                              missed |-> now]), UNCLAIMED_MAX))

\* Pushes a Dropped for every entry of a sequence of vanished payments.
PushDropped(p, w, entries, now) ==
  LET upTo[k \in 0..Len(entries)] ==
        IF k = 0 THEN p
        ELSE Push(upTo[k - 1], w, entries[k].told_as, "Dropped", NONE, now)
  IN  upTo[Len(entries)]

-----------------------------------------------------------------------------
(***************************************************************************)
(* What one sync moved.  mv.confirmed, mv.new, mv.gone and mv.before are   *)
(* sequences of transactions, before holding what was pending and what had *)
(* vanished, in any order: the code reads them out of hash maps.  mv.mined *)
(* is the set of new transactions already in a block.                      *)
(***************************************************************************)
RecordConfirmed(p, w, mv, now) ==
  LET upTo[k \in 0..Len(mv.confirmed)] ==
        IF k = 0 THEN p
        ELSE Push(upTo[k - 1], w, mv.confirmed[k], "Confirmed",
                  FirstOf(upTo[k - 1], w, mv.confirmed[k]), now)
  IN  upTo[Len(mv.confirmed)]

\* The fee bumps of t among what was there before.
BumpedBy(w, t, before) ==
  Only(before, {o \in ToSet(before) : Conflict(t, o) /\ Bumps(w, t, o)})

\* The record is asked, the news still waiting is not.
MutRecordArrivalLoses(p, w, t, mv, now) ==
  LET bumped == BumpedBy(w, t, mv.before)
  IN  IF bumped # << >> THEN p
      ELSE Push(p, w, t, IF t \in mv.mined THEN "Confirmed" ELSE "Mempool",
                NONE, now)

\* A transaction seen for the first time.
RecordArrival(p, w, t, mv, now) ==
  LET bumped == BumpedBy(w, t, mv.before)
      said == Only(bumped, {o \in ToSet(bumped) : PendingSaid(p, w, o)})
  IN  IF t \in mv.mined
      THEN Push(p, w, t, "Confirmed",
                IF bumped = << >> THEN NONE
                ELSE AnnouncedUnder(p, w, Head(bumped)), now)
      ELSE IF said # << >> THEN Replace(p, w, Head(said), t)
      ELSE Push(p, w, t, "Mempool", NONE, now)

MutRecordGoneForgets(p, w, old, now) ==
  UnsayArrival(p, w, old)

\* A transaction that was pending and that the wallet no longer holds.
RecordGone(p, w, old, now) ==
  IF WaitingAs(p, w, old, "Mempool") THEN UnsayArrival(p, w, old)
  ELSE IF /\ AnnouncedAs(p, w, old, "Mempool")
          /\ ~ AnnouncedAs(p, w, old, "Confirmed")
          /\ Net[w][old] > 0
       THEN Vanish(p, w, old, AnnouncedUnder(p, w, old), now)
       ELSE p

\* Vanished payments that a transaction seen now replaces: paid by a fee
\* bump, there is nothing to say; cut down, they are said dropped at once.
RecordReplaced(p, w, mv, now) ==
  LET rivals(e) == {t \in ToSet(mv.new) : e.wallet = w /\ Conflict(t, e.tx)}
      apart == {e \in ToSet(p.vanishing) : rivals(e) = {}}
      cut == {e \in ToSet(p.vanishing) \ apart :
                \A t \in rivals(e) : ~ Bumps(w, t, e.tx)}
  IN  PushDropped([p EXCEPT !.vanishing = Only(@, apart)], w,
                  Only(p.vanishing, cut), now)

RecordArrivals(p, w, mv, now) ==
  LET upTo[k \in 0..Len(mv.new)] ==
        IF k = 0 THEN p ELSE RecordArrival(upTo[k - 1], w, mv.new[k], mv, now)
  IN  upTo[Len(mv.new)]

RecordDepartures(p, w, mv, now) ==
  LET upTo[k \in 0..Len(mv.gone)] ==
        IF k = 0 THEN p ELSE RecordGone(upTo[k - 1], w, mv.gone[k], now)
  IN  upTo[Len(mv.gone)]

Record(p, w, firstSync, mv, now) ==
  LET q0 == Expire(p, now)
      q1 == RecordConfirmed(q0, w, mv, now)
      q2 == RecordArrivals(q1, w, mv, now)
      q3 == RecordDepartures(q2, w, mv, now)
  IN  IF firstSync THEN q0 ELSE RecordReplaced(q3, w, mv, now)

-----------------------------------------------------------------------------
(***************************************************************************)
(* The second look at what vanished, and the claim.                        *)
(***************************************************************************)
Vanishing(p, w) ==
  {e.tx : e \in {f \in ToSet(p.vanishing) : f.wallet = w}}

\* The second look is never waited for.
MutSettleAtOnce(p, w, held, reread, now) ==
  LET mine == {e \in ToSet(p.vanishing) : e.wallet = w}
  IN  PushDropped([p EXCEPT !.vanishing = Only(@, ToSet(@) \ mine)], w,
                  Only(p.vanishing, {e \in mine : e.tx \notin held}), now)

\* held: vanished payments the wallet holds again; reread: the ones whose
\* scripts this sync read again without seeing them.
Settle(p, w, held, reread, now) ==
  LET all == ToSet(p.vanishing)
      young == {e \in all : e.missed + VANISHING_FOR >= now}
      back == {e \in all : e.wallet = w /\ e.tx \in held}
      missed == {e \in all : /\ e.wallet = w
                             /\ now >= e.missed + DROPPED_AFTER
                             /\ e.tx \in reread \ held}
      kept == ForgetVanished(p, Only(p.vanishing, young))
  IN  PushDropped([kept EXCEPT !.vanishing = Only(@, all \ (back \cup missed))],
                  w, Only(kept.vanishing, missed), now)

\* What a claim takes of the news, at most so many, and what it leaves; what
\* was said meanwhile is taken and not handed out.
Taken(p, w, max) ==
  LET upTo[k \in 0..Len(p.unclaimed)] ==
        IF k = 0 THEN [claimed |-> << >>, left |-> << >>]
        ELSE LET sofar == upTo[k - 1]
                 e == p.unclaimed[k]
             IN  IF e.wallet # w \/ Len(sofar.claimed) >= max
                 THEN [sofar EXCEPT !.left = Append(@, e)]
                 ELSE IF Told(p, w, e.tx, e.stage) THEN sofar
                 ELSE [sofar EXCEPT !.claimed = Append(@, e)]
  IN  upTo[Len(p.unclaimed)]

Spoken(e) ==
  [wallet |-> e.wallet, tx |-> e.tx, stage |-> e.stage, replaces |-> e.replaces]

\* What a claim hands out, and the payload it leaves.
Claimed(p, w, max, now) ==
  LET taken == Taken(Expire(p, now), w, max).claimed
  IN  [i \in DOMAIN taken |-> Spoken(taken[i])]

\* The claim forgets to record what it hands out.
MutClaim(p, w, max, now) ==
  LET q == Expire(p, now) IN [q EXCEPT !.unclaimed = Taken(q, w, max).left]

Claim(p, w, max, now) ==
  LET q == Expire(p, now)
  IN  Remember([q EXCEPT !.unclaimed = Taken(q, w, max).left],
               Claimed(p, w, max, now))

\* A wallet removed takes with it what the vault kept to announce about it.
Purge(p, w) ==
  LET others(list) == Only(list, {e \in ToSet(list) : e.wallet # w})
  IN  [unclaimed |-> others(p.unclaimed), announced |-> others(p.announced),
       vanishing |-> others(p.vanishing),
       forgotten |-> {f \in p.forgotten : f[1] # w}]
=============================================================================
