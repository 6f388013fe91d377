------------------------------ MODULE Policies -------------------------------
(***************************************************************************)
(* A descriptor read as a spending policy (wallet/policy.rs): the ways to  *)
(* spend, whether each is open, when it opens, which locks hold it back    *)
(* and the order a person reads them in; checked against what the chain    *)
(* accepts while blocks come, time passes and coins arrive and confirm.    *)
(*                                                                         *)
(* The policy is the one miniscript lifts and normalizes (external): a     *)
(* tree of thresholds over keys, locks and hashes.                         *)
(***************************************************************************)
EXTENDS Integers, FiniteSets, SequencesExt

CONSTANTS
  Lifted,         \* the normalized policies read
  BLOCK_SECONDS,  \* what a block takes on average (600)
  MaxTip,         \* bound on the height of the tip
  MaxWall,        \* bound on the wall clock
  MaxCoins        \* bound on the coins of the wallet

ASSUME PoliciesAssumption ==
  BLOCK_SECONDS \in Nat \ {0} /\ {MaxTip, MaxWall, MaxCoins} \subseteq Nat

VARIABLES
  policy,   \* the policy of the wallet
  chain,    \* the clock: the tip, none before the first sync, and the time
  coins,    \* the wallet's unspent outputs
  page      \* the branches as last analyzed, none once anything changed

policyVars == <<policy, chain, coins, page>>

\* height: of the confirming block, none while pending; time: that block's,
\* when known.
Coin == [height : SUBSET (0..MaxTip), time : SUBSET (0..MaxWall)]

-----------------------------------------------------------------------------
(* Conditions.  A node is named by the path to it.                         *)

IsKey(c) == c.is = "key"
IsLock(c) == c.is \in {"after", "older"}

RECURSIVE Leaves(_, _)
Leaves(c, path) ==
  IF c.is # "thresh" THEN {path}
  ELSE UNION {Leaves(c.items[i], Append(path, i)) : i \in DOMAIN c.items}

RECURSIVE NodeAt(_, _)
NodeAt(c, path) == IF path = <<>> THEN c ELSE NodeAt(c.items[Head(path)], Tail(path))

LockPaths(c) == {p \in Leaves(c, <<>>) : IsLock(NodeAt(c, p))}
HasKey(c) == \E p \in Leaves(c, <<>>) : IsKey(NodeAt(c, p))
IsMultisig(c) == c.is = "thresh" /\ \A i \in DOMAIN c.items : IsKey(c.items[i])

RECURSIVE Flatten(_)
Flatten(c) ==
  IF c.is = "thresh" /\ c.k = 1 /\ Len(c.items) > 1 /\ ~IsMultisig(c)
    THEN FlattenSeq([i \in DOMAIN c.items |-> Flatten(c.items[i])])
    ELSE <<c>>

\* The top-level alternatives, the plain keys among them together where the
\* first of them stands.
Disjuncts(c) ==
  LET all == Flatten(c)
      keys == SelectSeq(all, IsKey)
      first == SelectInSeq(all, IsKey)
      kept == SelectSeq([i \in DOMAIN all |-> i], LAMBDA i : ~IsKey(all[i]) \/ i = first)
  IN IF Len(keys) < 2 THEN all
     ELSE [n \in DOMAIN kept |->
             IF kept[n] = first THEN [is |-> "thresh", k |-> 1, items |-> keys] ELSE all[kept[n]]]

-----------------------------------------------------------------------------
(* Estimates: when a leaf can be met, as pairs in the order of ranks.      *)

Open == <<0, 0>>
In(seconds) == <<1, seconds>>
Unknown == <<2, 0>>
Waiting == <<3, 0>>
NoCoins == <<4, 0>>
Never == <<5, 0>>
Sooner(a, b) == a[1] < b[1] \/ (a[1] = b[1] /\ a[2] < b[2])

Monus(a, b) == IF a > b THEN a - b ELSE 0

AbsoluteRemaining(lock, ch) ==
  CASE lock.by = "time" -> IF ch.now >= lock.at THEN Open ELSE In(lock.at - ch.now)
    [] lock.by = "height" ->
         IF ch.tip = {} THEN Unknown
         ELSE LET tip == Max(ch.tip)
              IN IF tip >= lock.at THEN Open ELSE In((lock.at - tip) * BLOCK_SECONDS)

\* The block a coin confirmed in not counted.
MutOnCoin(lock, coin, ch) ==
  IF lock.by = "blocks" /\ coin.height # {} /\ ch.tip # {}
    THEN LET waited == Monus(Max(ch.tip), Max(coin.height))
         IN IF waited >= lock.for THEN Open ELSE In((lock.for - waited) * BLOCK_SECONDS)
    ELSE Waiting

\* A coin confirmed at the tip has waited one block by the next.
OnCoin(lock, coin, ch) ==
  CASE coin.height = {} -> Waiting
    [] coin.height # {} /\ lock.by = "blocks" ->
         IF ch.tip = {} THEN Unknown
         ELSE LET waited == Monus(Max(ch.tip), Max(coin.height)) + 1
              IN IF waited >= lock.for THEN Open ELSE In((lock.for - waited) * BLOCK_SECONDS)
    [] coin.height # {} /\ lock.by = "seconds" ->
         IF coin.time = {} THEN Waiting
         ELSE LET waited == Monus(ch.now, Max(coin.time))
              IN IF waited >= lock.for THEN Open ELSE In(lock.for - waited)

\* The k-th smallest, the last when there are fewer.
Kth(values, k) ==
  LET n == IF k > Len(values) THEN Len(values) ELSE k
      at == CHOOSE i \in DOMAIN values :
              /\ Cardinality({j \in DOMAIN values : Sooner(values[j], values[i])}) < n
              /\ Cardinality({j \in DOMAIN values : ~Sooner(values[i], values[j])}) >= n
  IN values[at]

\* A threshold is met with the k-th soonest of its items.
RECURSIVE Fold(_, _, _)
Fold(c, path, leaf) ==
  IF c.is # "thresh" THEN leaf[path]
  ELSE LET values == [i \in DOMAIN c.items |-> Fold(c.items[i], Append(path, i), leaf)]
       IN Kth(values, c.k)

\* lens: a coin, or what relative locks are taken for without one.
LeafEstimate(c, lens, ch) ==
  CASE c.is = "key" -> Open
    [] c.is = "hash" -> Never
    [] c.is = "after" -> AbsoluteRemaining(c.lock, ch)
    [] c.is = "older" -> IF lens.coin = {} THEN lens.as ELSE OnCoin(c.lock, CHOOSE x \in lens.coin : TRUE, ch)

Estimate(c, lens, ch) ==
  Fold(c, <<>>, [p \in Leaves(c, <<>>) |-> LeafEstimate(NodeAt(c, p), lens, ch)])

NoCoin(as) == [coin |-> {}, as |-> as]
OfCoin(coin) == [coin |-> {coin}, as |-> NoCoins]

\* The state of a branch.  next: the soonest of the coins still locked.
BranchState(c, cs, ch) ==
  LET worst == Estimate(c, NoCoin(NoCoins), ch)
      best == Estimate(c, NoCoin(Open), ch)
      on == [i \in DOMAIN cs |-> Estimate(c, OfCoin(cs[i]), ch)]
      in(classes) == {i \in DOMAIN cs : on[i][1] \in classes}
      locked == in({1, 2})
  IN CASE worst = Never -> [is |-> "NeedsPreimage"]
       [] worst = Open -> [is |-> "SpendableNow"]
       [] worst[1] \in {1, 2} /\ best = worst -> [is |-> "Locked", until |-> worst]
       [] worst \notin {Never, Open} /\ ~(worst[1] \in {1, 2} /\ best = worst) ->
            IF cs = <<>> THEN [is |-> "NoCoins"]
            ELSE [is |-> "PerCoin", unlocked |-> Cardinality(in({0})),
                  waiting |-> Cardinality(in({3, 4, 5})), locked |-> Cardinality(locked),
                  next |-> {on[i] : i \in {j \in locked : \A k \in locked : ~Sooner(on[k], on[j])}}]

-----------------------------------------------------------------------------
(* Which locks hold a branch back.                                         *)

RECURSIVE Shape(_)
Shape(c) ==
  IF IsKey(c) THEN "Met"
  ELSE IF c.is # "thresh" THEN "Turns"
  ELSE LET are(s) == Cardinality({i \in DOMAIN c.items : Shape(c.items[i]) = s})
       IN CASE are("Met") >= c.k -> "Met"
            [] are("Met") + are("Turns") < c.k -> "Unmet"
            [] OTHER -> "Turns"

\* At every threshold above the lock, the others must be able to make up
\* exactly one less than it asks.
RECURSIVE HoldsBack(_, _)
HoldsBack(c, path) ==
  \/ path = <<>>
  \/ /\ path # <<>>
     /\ LET others == DOMAIN c.items \ {Head(path)}
            are(s) == Cardinality({i \in others : Shape(c.items[i]) = s})
        IN are("Met") <= c.k - 1 /\ c.k - 1 <= are("Met") + are("Turns")
     /\ HoldsBack(c.items[Head(path)], Tail(path))

-----------------------------------------------------------------------------
(* Roles and the order of reading.                                         *)

Magnitude(c, ch) ==
  CASE c.is = "key" -> <<0, 0>>
    [] c.is = "hash" -> <<1, 0>>
    [] c.is = "after" /\ c.lock.by = "height" ->
         <<0, Monus(c.lock.at, IF ch.tip = {} THEN 0 ELSE Max(ch.tip)) * BLOCK_SECONDS>>
    [] c.is = "after" /\ c.lock.by = "time" -> <<0, Monus(c.lock.at, ch.now)>>
    [] c.is = "older" /\ c.lock.by = "blocks" -> <<0, c.lock.for * BLOCK_SECONDS>>
    [] c.is = "older" /\ c.lock.by = "seconds" -> <<0, c.lock.for>>

Distance(c, ch) == Fold(c, <<>>, [p \in Leaves(c, <<>>) |-> Magnitude(NodeAt(c, p), ch)])

\* The distance of a branch a lock holds back; none for the others.
Draft(c, cs, ch) ==
  [condition |-> c, state |-> BranchState(c, cs, ch), has_key |-> HasKey(c),
   distance |-> IF \E p \in LockPaths(c) : HoldsBack(c, p) THEN {Distance(c, ch)} ELSE {}]

Apart(d) == ~d.has_key \/ d.state.is = "NeedsPreimage"
DistanceOf(d) == IF d.distance = {} THEN <<0, 0>> ELSE CHOOSE x \in d.distance : TRUE

\* Roles by the rank they are read in: 0 primary, 1 recovery, 2 emergency, 3
\* other.  When every path waits the nearest is the primary.
Role(drafts, i) ==
  LET timed == {j \in DOMAIN drafts : ~Apart(drafts[j]) /\ drafts[j].distance # {}}
      primaries == {j \in DOMAIN drafts : ~Apart(drafts[j]) /\ drafts[j].distance = {}}
      nearer == {j \in timed : \/ Sooner(DistanceOf(drafts[j]), DistanceOf(drafts[i]))
                               \/ DistanceOf(drafts[j]) = DistanceOf(drafts[i]) /\ j < i}
      rank == Cardinality(nearer) + (IF primaries = {} THEN 0 ELSE 1)
  IN CASE Apart(drafts[i]) -> 3
       [] i \in primaries -> 0
       [] i \in timed -> IF rank > 3 THEN 3 ELSE rank

\* The order of reading: by role, then by distance.
Order(drafts, roles) ==
  LET before(i, j) ==
        \/ roles[i] < roles[j]
        \/ roles[i] = roles[j] /\ Sooner(DistanceOf(drafts[i]), DistanceOf(drafts[j]))
        \/ roles[i] = roles[j] /\ DistanceOf(drafts[i]) = DistanceOf(drafts[j]) /\ i < j
  IN SetToSortSeq(DOMAIN drafts, before)

-----------------------------------------------------------------------------
(* The wallet.                                                             *)

PoliciesInit ==
  /\ policy \in Lifted
  /\ chain = [tip |-> {}, now |-> 0]
  /\ coins = <<>>
  /\ page = <<>>

\* A sync sees the first tip, or a block found BLOCK_SECONDS later or sooner.
Block ==
  /\ \E tip \in 0..MaxTip : chain.tip = (IF tip = 0 THEN {} ELSE {tip - 1}) /\ chain' = [chain EXCEPT !.tip = {tip}]
  /\ UNCHANGED <<policy, coins>> /\ page' = <<>>

ClockTicks ==
  /\ chain.now < MaxWall
  /\ chain' = [chain EXCEPT !.now = @ + 1]
  /\ UNCHANGED <<policy, coins>> /\ page' = <<>>

CoinComes ==
  /\ chain.tip # {} /\ Len(coins) < MaxCoins
  /\ coins' = Append(coins, [height |-> {}, time |-> {}])
  /\ UNCHANGED <<policy, chain>> /\ page' = <<>>

Confirms ==
  /\ \E i \in DOMAIN coins, time \in {{}, {chain.now}} :
       coins[i].height = {} /\ coins' = [coins EXCEPT ![i] = [height |-> chain.tip, time |-> time]]
  /\ UNCHANGED <<policy, chain>> /\ page' = <<>>

Analyze ==
  /\ page = <<>>
  /\ \E branches \in {Disjuncts(policy)} :
     \E drafts \in {[i \in DOMAIN branches |-> Draft(branches[i], coins, chain)]} :
     \E roles \in {[i \in DOMAIN drafts |-> Role(drafts, i)]} :
     \E order \in {Order(drafts, roles)} :
       page' = [n \in DOMAIN order |-> [draft |-> drafts[order[n]], role |-> roles[order[n]]]]
  /\ UNCHANGED <<policy, chain, coins>>

PoliciesNext == Block \/ ClockTicks \/ CoinComes \/ Confirms \/ Analyze

-----------------------------------------------------------------------------
(* What the chain accepts, and what is promised.                           *)

\* met: the leaves met; a condition holds when enough of its items do.
RECURSIVE Satisfied(_, _, _)
Satisfied(c, path, met) ==
  IF c.is # "thresh" THEN path \in met
  ELSE Cardinality({i \in DOMAIN c.items : Satisfied(c.items[i], Append(path, i), met)}) >= c.k

\* A spend of the coin goes in the block after the tip: height locks count to
\* it, and a time lock is judged by the clock.
Passed(lock, coin, ch) ==
  CASE lock.by = "height" -> \E tip \in ch.tip : tip + 1 > lock.at
    [] lock.by = "time" -> ch.now >= lock.at
    [] lock.by = "blocks" -> \E tip \in ch.tip, h \in coin.height : (tip + 1) - h >= lock.for
    [] lock.by = "seconds" -> coin.height # {} /\ \E t \in coin.time : ch.now - t >= lock.for

Met(c, coin, ch) ==
  {p \in Leaves(c, <<>>) : IsKey(NodeAt(c, p)) \/ (IsLock(NodeAt(c, p)) /\ Passed(NodeAt(c, p).lock, coin, ch))}
Spendable(c, coin, ch) == Satisfied(c, <<>>, Met(c, coin, ch))

Pending == [height |-> {}, time |-> {}]
Later(ch, seconds) ==
  [tip |-> {tip + (seconds \div BLOCK_SECONDS) : tip \in ch.tip}, now |-> ch.now + seconds]

\* Every way the chain lets a coin be spent is a branch, and every branch one.
SameSpends ==
  \A coin \in Range(coins) \cup {Pending} :
    Spendable(policy, coin, chain) <=> \E n \in DOMAIN page : Spendable(page[n].draft.condition, coin, chain)

\* A branch said open is open whatever the coin; one said to need a preimage
\* opens under no lock; the coins said unlocked are the ones it can spend.
StateIsTrue(b) ==
  LET unlocked == {i \in DOMAIN coins : Spendable(b.condition, coins[i], chain)}
      locks == LockPaths(b.condition)
      keys == {p \in Leaves(b.condition, <<>>) : IsKey(NodeAt(b.condition, p))}
  IN /\ b.state.is = "SpendableNow" <=> Spendable(b.condition, Pending, chain)
     /\ b.state.is = "NeedsPreimage" <=> ~Satisfied(b.condition, <<>>, keys \cup locks)
     /\ b.state.is \in {"Locked", "NoCoins"} => unlocked = {}
     /\ b.state.is = "PerCoin" => b.state.unlocked = Cardinality(unlocked)

\* A wait that is said is the wait there is, at the pace of BLOCK_SECONDS a
\* block: nothing opens before it is over, and something does when it is.
OpensWhenSaid(b) ==
  LET said == CASE b.state.is = "Locked" -> {b.state.until}
                [] b.state.is = "PerCoin" -> b.state.next
                [] OTHER -> {}
      waiting == IF b.state.is = "Locked" THEN {Pending}
                 ELSE {coin \in Range(coins) : ~Spendable(b.condition, coin, chain)}
      opens(seconds) == \E coin \in waiting : Spendable(b.condition, coin, Later(chain, seconds))
  IN \A e \in said : e[1] = 1 => opens(e[2]) /\ \A s \in 0..(e[2] - 1) : ~opens(s)

\* A lock is said to hold a branch back exactly when some way of meeting it,
\* every key at hand, turns on that lock.
RequiredTurns(c) ==
  LET keys == {p \in Leaves(c, <<>>) : IsKey(NodeAt(c, p))}
  IN \A p \in LockPaths(c) :
       HoldsBack(c, p) <=> \E others \in SUBSET (Leaves(c, <<>>) \ (keys \cup {p})) :
                             Satisfied(c, <<>>, keys \cup others \cup {p}) /\ ~Satisfied(c, <<>>, keys \cup others)

\* No path that is open reads after one that is not, of those the keys open;
\* and when there is such a path, the first is the primary one.
OpenReadsFirst ==
  LET mine == {n \in DOMAIN page : ~Apart(page[n].draft)}
      open(n) == page[n].draft.state.is = "SpendableNow"
  IN /\ \A n, m \in mine : n < m /\ open(m) => open(n)
     /\ mine # {} => page[1].role = 0

\* The policy page says what the chain does (policy.rs: analyze).
PolicyInv ==
  page # <<>> =>
    /\ SameSpends
    /\ OpenReadsFirst
    /\ \A n \in DOMAIN page :
         LET b == page[n].draft
         IN StateIsTrue(b) /\ OpensWhenSaid(b) /\ RequiredTurns(b.condition)
=============================================================================
