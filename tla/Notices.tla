------------------------------- MODULE Notices -------------------------------
(***************************************************************************)
(* What a notification says and how many go out (live/notice.rs, and the   *)
(* calls of live.rs that ask for them): the news of one sync held wallet   *)
(* by wallet, composed into notices, and let through by two budgets on the *)
(* wall clock.                                                             *)
(*                                                                         *)
(* The core hands out the news of a payment in the order of its life; the  *)
(* host claims some, asks for their notices and posts what comes back.     *)
(***************************************************************************)
EXTENDS Integers, FiniteSets, SequencesExt

CONSTANTS
  Payments,             \* the payments: each the txid it was first said under
  WalletOf,             \* the wallet of each
  NOTICES_PER_WALLET,   \* said one by one (3)
  MAX_DROPPED_HELD,     \* payments no longer coming held (64)
  BUDGET,               \* let through in one window (20)
  BUDGET_WINDOW,        \* a minute
  MaxHeld,              \* bound on the news of one ask
  MaxClock              \* bound on the clock

ASSUME NoticesAssumption ==
  /\ DOMAIN WalletOf = Payments
  /\ {NOTICES_PER_WALLET, MAX_DROPPED_HELD, BUDGET, BUDGET_WINDOW} \subseteq Nat \ {0}
  /\ {MaxHeld, MaxClock} \subseteq Nat

VARIABLES
  budgets,    \* the two budgets of the process
  wall,       \* the wall clock
  claimed,    \* the news the host claimed and did not ask notices for yet
  life,       \* what the core last handed out of each payment
  shown,      \* history: what the last notice posted under its id said
  covered,    \* history: payments whose last news a line stands for
  lines,      \* history: what was said in the window of each budget
  rung        \* history: notices posted at each time, by kind, since the
              \* clock was last set back

noticeVars == <<budgets, wall, claimed, life, shown, covered, lines, rung>>

-----------------------------------------------------------------------------
(* News, held wallet by wallet.  What is said of a transaction is said of  *)
(* its payment: a fee bump goes under the first txid.                      *)

Stages == {"Mempool", "Confirmed", "Dropped"}
LiveTx == [payment : Payments, stage : Stages]

NoneHeld == [first |-> <<>>, more |-> 0, dropped |-> <<>>, dropped_more |-> 0]

\* One no longer coming leaves nothing to say, said before or not.
MutPush(held, tx) ==
  IF tx.stage = "Dropped"
    THEN [held EXCEPT !.first = SelectSeq(@, LAMBDA h : h.payment # tx.payment)]
    ELSE IF Len(held.first) < NOTICES_PER_WALLET
      THEN [held EXCEPT !.first = Append(@, tx)] ELSE [held EXCEPT !.more = @ + 1]

\* What comes next for a payment held as pending takes its place, and one no
\* longer coming leaves nothing to say.
Push(held, tx) ==
  LET pending == SelectInSeq(held.first, LAMBDA h : h = [tx EXCEPT !.stage = "Mempool"])
  IN CASE pending # 0 /\ tx.stage = "Mempool" -> held
       [] pending # 0 /\ tx.stage = "Confirmed" -> [held EXCEPT !.first[pending] = tx]
       [] pending # 0 /\ tx.stage = "Dropped" -> [held EXCEPT !.first = RemoveAt(@, pending)]
       [] pending = 0 /\ tx.stage = "Dropped" ->
            IF Len(held.dropped) < MAX_DROPPED_HELD
              THEN [held EXCEPT !.dropped = Append(@, tx)]
              ELSE [held EXCEPT !.dropped_more = @ + 1]
       [] pending = 0 /\ tx.stage # "Dropped" ->
            IF Len(held.first) < NOTICES_PER_WALLET
              THEN [held EXCEPT !.first = Append(@, tx)]
              ELSE [held EXCEPT !.more = @ + 1]

Held(txs) == FoldLeft(Push, NoneHeld, txs)

\* The news of the wallet that appears first in a batch, and the rest of it.
OfWallet(txs, w) == SelectSeq(txs, LAMBDA tx : WalletOf[tx.payment] = w)
NotOfWallet(txs, w) == SelectSeq(txs, LAMBDA tx : WalletOf[tx.payment] # w)

-----------------------------------------------------------------------------
(* Notices.  id: the payment a notice is about, none for a line.           *)

NoticeOf(tx, kind) == [kind |-> kind, id |-> {tx.payment}, says |-> tx.stage]
Line(kind, says) == [kind |-> kind, id |-> {}, says |-> says]
Counted(kind, more) == IF more > 0 THEN <<Line(kind, "count")>> ELSE <<>>

Compose(held) ==
     [i \in DOMAIN held.first |-> NoticeOf(held.first[i], "transaction")]
  \o Counted("transaction", held.more)
  \o [i \in DOMAIN held.dropped |-> NoticeOf(held.dropped[i], "dropped")]
  \o Counted("dropped", held.dropped_more)

-----------------------------------------------------------------------------
(* Budgets.                                                                *)

Kinds == {"transaction", "dropped"}
NewBudget == [started |-> {}, spent |-> 0]

\* The window a notice at now falls in.  A clock set back starts a new one.
Window(budget, now) ==
  IF \A started \in budget.started : now < started \/ now - started >= BUDGET_WINDOW
    THEN [started |-> {now}, spent |-> 0] ELSE budget

Allow(budget, now, count) ==
  IF count = 0 THEN budget ELSE [Window(budget, now) EXCEPT !.spent = @ + count]

\* The notices the budgets let through: the last of a kind in a window is
\* replaced by a line that says more is waiting, what comes after is silent.
OfKind(notices, k, upto) == Cardinality({j \in 1..upto : notices[j].kind = k})

WithinBudget(bs, notices, now) ==
  LET spent == [i \in DOMAIN notices |->
                  LET k == notices[i].kind IN Window(bs[k], now).spent + OfKind(notices, k, i)]
      heard == SelectSeq([i \in DOMAIN notices |-> i], LAMBDA i : spent[i] <= BUDGET)
  IN [n \in DOMAIN heard |->
        IF spent[heard[n]] < BUDGET THEN notices[heard[n]]
        ELSE Line(notices[heard[n]].kind, "more")]

-----------------------------------------------------------------------------
NoticesInit ==
  /\ budgets = [k \in Kinds |-> NewBudget]
  /\ wall = 0
  /\ claimed = <<>>
  /\ life = [p \in Payments |-> "none"]
  /\ shown = [p \in Payments |-> "none"]
  /\ covered = {}
  /\ lines = [k \in Kinds |-> {}]
  /\ rung = [k \in Kinds |-> [n \in 0..MaxClock |-> 0]]

\* The core says each stage of a payment once: pending first, no longer
\* coming only after pending, confirmed last.
Claim ==
  /\ Len(claimed) < MaxHeld
  /\ \E tx \in LiveTx :
       /\ CASE tx.stage = "Mempool" -> life[tx.payment] = "none"
            [] tx.stage = "Dropped" -> life[tx.payment] = "Mempool"
            [] tx.stage = "Confirmed" -> life[tx.payment] # "Confirmed"
       /\ claimed' = Append(claimed, tx)
       /\ life' = [life EXCEPT ![tx.payment] = tx.stage]
  /\ UNCHANGED <<budgets, wall, shown, covered, lines, rung>>

\* What was said in the window of each budget, once these went out.
Lines(bs, out) ==
  [k \in Kinds |->
     (IF bs[k].started = budgets[k].started THEN lines[k] ELSE {})
     \cup {out[i].says : i \in {j \in DOMAIN out : out[j].kind = k /\ out[j].id = {}}}]

\* The notices of one wallet's news, to post; notices_of asks for them wallet
\* by wallet, in the order each first appears.
NoticesOf ==
  LET w == WalletOf[Head(claimed).payment]
      mine == OfWallet(claimed, w)
      notices == Compose(Held(mine))
      out == WithinBudget(budgets, notices, wall)
      bs == [k \in Kinds |-> Allow(budgets[k], wall, OfKind(notices, k, Len(notices)))]
      last(p) == {i \in DOMAIN out : p \in out[i].id /\ \A j \in DOMAIN out : p \in out[j].id => j <= i}
  IN /\ claimed # <<>>
     /\ budgets' = bs
     /\ claimed' = NotOfWallet(claimed, w)
     /\ lines' = Lines(bs, out)
     /\ shown' = [p \in Payments |-> IF last(p) = {} THEN shown[p] ELSE out[CHOOSE i \in last(p) : TRUE].says]
     /\ covered' = {p \in Payments : last(p) = {} /\
                      \/ p \in covered
                      \/ lines'["dropped"] # {} /\ Contains(mine, [payment |-> p, stage |-> "Dropped"])}
     /\ rung' = [k \in Kinds |-> [rung[k] EXCEPT ![wall] = @ + OfKind(out, k, Len(out))]]
     /\ UNCHANGED <<wall, life>>

\* Drawn on the budget of the transactions: none from the last on.  Asks past
\* the first that is silent change nothing that is told apart.
TestNotice ==
  LET bs == [budgets EXCEPT !["transaction"] = Allow(@, wall, 1)]
      spent == bs["transaction"].spent
  IN /\ spent <= BUDGET + 1
     /\ budgets' = bs
     /\ lines' = [Lines(bs, <<>>) EXCEPT !["transaction"] = @ \cup (IF spent = BUDGET THEN {"taken"} ELSE {})]
     /\ rung' = [rung EXCEPT !["transaction"][wall] = IF spent < BUDGET THEN @ + 1 ELSE @]
     /\ UNCHANGED <<wall, claimed, life, shown, covered>>

\* What rang longer than a window ago no longer counts.
Recent(now) ==
  [k \in Kinds |-> [n \in 0..MaxClock |-> IF n + BUDGET_WINDOW > now THEN rung[k][n] ELSE 0]]

ClockMoves ==
  \E now \in (0..MaxClock) \cap {wall + 1, 0} :
    /\ now # wall
    /\ wall' = now
    /\ rung' = IF now > wall THEN Recent(now) ELSE [k \in Kinds |-> [n \in 0..MaxClock |-> 0]]
    /\ UNCHANGED <<budgets, claimed, life, shown, covered, lines>>

NoticesNext == Claim \/ NoticesOf \/ TestNotice \/ ClockMoves

-----------------------------------------------------------------------------
(* What is promised.                                                       *)

\* However fast a server makes a wallet look busy, less than two budgets of a
\* kind ring within any minute of a clock nobody sets back.
NoFlood == \A k \in Kinds : SumFunction(Recent(wall)[k]) < 2 * BUDGET

\* A pending notice is not left standing for a payment no longer coming: its
\* own notice took it back, or a line of that kind says more are gone.
TakenBack ==
  \A p \in Payments :
    (life[p] = "Dropped" /\ shown[p] = "Mempool" /\ claimed = <<>>) => p \in covered

\* What goes silent was announced: past its budget, a kind has said in the
\* window that more is waiting, unless a test took the place of that line.
SilenceIsSaid ==
  \A k \in Kinds : budgets[k].spent >= BUDGET => lines[k] \cap {"more", "taken"} # {}

\* The budgets cap what rings and never hide that they do, and no promise of a
\* pending notice outlives its payment (notice.rs: Held, within_budget).
NoticesInv == NoFlood /\ TakenBack /\ SilenceIsSaid
=============================================================================
