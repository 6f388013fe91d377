------------------------------ MODULE NewsFeed ------------------------------
(***************************************************************************)
(* The life of the news of live/news.rs: the syncs that record it, with    *)
(* the wallet they apply, in one save of the vault (manager/sync.rs); the  *)
(* claims that hand it out (live.rs); the removal of a wallet; saves that  *)
(* fail, restarts, and a clock that may be set back.                       *)
(*                                                                         *)
(* A sync runs under its wallet's turn (see SyncTurns): what it knew       *)
(* before and what it applies are compared in one action.  What the server *)
(* answers is any view without two conflicting transactions: servers of a  *)
(* rotation lag, forget, and disagree.                                     *)
(***************************************************************************)
EXTENDS News

CONSTANTS
  MaxNow,           \* bound: the clock stays in 0..MaxNow
  MaxRecord,        \* bound: announcements on record while syncs run
  Maxima,           \* how much a claim may ask for
  ClockBack,        \* whether the clock may be set back
  Reorgs,           \* whether a block may be taken back
  Returns,          \* whether a replaced transaction may be listed again
  Fee               \* Fee[t]: a replacement pays more than what it replaces

ASSUME FeedAssumption ==
  /\ MaxNow \in Nat
  /\ MaxRecord \in Nat /\ MaxRecord + UNCLAIMED_MAX <= ANNOUNCED_MAX
  /\ Maxima \subseteq Nat \ {0}
  /\ {ClockBack, Reorgs, Returns} \subseteq BOOLEAN
  /\ Fee \in [Txs -> Nat]

VARIABLES
  mem,              \* the state the process works on
  disk,             \* the vault as last saved
  now,              \* the wall clock
  listed,           \* what servers ever listed, when Returns is FALSE
  said              \* history: everything claims ever handed out, in order

vars == <<mem, disk, now, listed, said>>

Positions == {"absent", "pending", "confirmed"}
Views == [Txs -> Positions]

\* No two transactions that spend the same coin are held at once.
Consistent(view) ==
  \A t, u \in Txs :
    Conflict(t, u) => view[t] = "absent" \/ view[u] = "absent"

\* What a server may list after old: a block stays, and a replaced
\* transaction is listed again in a block only, unless the constants say
\* otherwise.
Follows(old, view) ==
  /\ Reorgs \/ \A t \in Txs : old[t] = "confirmed" => view[t] = "confirmed"
  /\ Returns \/ \A t \in Txs, u \in listed :
                  (Conflict(t, u) /\ old[t] = "absent" /\ view[t] = "pending")
                     => Fee[u] < Fee[t]

\* news: the payload; held: the wallet as its last sync left it; synced:
\* last_sync is set; imported: history, how a first sync found what the
\* wallet still holds; wallets: the wallets of the vault.
States ==
  [news : Payload, held : [Wallets -> Views], synced : [Wallets -> BOOLEAN],
   imported : [Wallets -> Views], wallets : SUBSET Wallets]

TypeOK ==
  /\ mem \in States
  /\ disk \in States
  /\ now \in 0..MaxNow
  /\ listed \subseteq Txs
  /\ said \in Seq([wallet : Wallets, tx : Txs, stage : Stages,
                   replaces : Txs \cup {NONE}])

Nothing == [t \in Txs |-> "absent"]

InitialState ==
  [news |-> EmptyPayload, held |-> [w \in Wallets |-> Nothing],
   synced |-> [w \in Wallets |-> FALSE],
   imported |-> [w \in Wallets |-> Nothing], wallets |-> Wallets]

Init ==
  /\ mem = InitialState
  /\ disk = InitialState
  /\ now = 0
  /\ listed = {}
  /\ said = << >>

-----------------------------------------------------------------------------
\* What the sync moved, the lists of the code in any order.
Moves(w, view) ==
  LET old == mem.held[w]
      new == {t \in Txs : old[t] = "absent" /\ view[t] # "absent"}
      pending == {t \in Txs : old[t] = "pending"}
  IN  [new : SetToSeqs(new),
       mined : {{t \in new : view[t] = "confirmed"}},
       confirmed : SetToSeqs({t \in pending : view[t] = "confirmed"}),
       before : SetToSeqs(pending \cup Vanishing(mem.news, w)),
       gone : SetToSeqs({t \in pending : view[t] = "absent"})]

\* How what a first sync imported stands after one more.
ImportedAfter(w, view) ==
  [t \in Txs |->
     IF ~ mem.synced[w] THEN view[t]
     ELSE IF mem.imported[w][t] = "absent" THEN "absent"
     ELSE IF view[t] = "confirmed" /\ mem.imported[w][t] = "pending"
     THEN "absent"
     ELSE view[t]]

SyncedState(w, view, reread, mv) ==
  LET held == {t \in Vanishing(mem.news, w) : view[t] # "absent"}
      recorded == Record(mem.news, w, ~ mem.synced[w], mv, now)
  IN  [mem EXCEPT
         !.news = Settle(recorded, w, held, reread, now),
         !.held[w] = view,
         !.synced[w] = TRUE,
         !.imported[w] = ImportedAfter(w, view)]

\* A sync of w applies what it read and saves the vault.  It may have read
\* some scripts only, so of the vanished payments it does not see it read
\* again any subset, reread.  A save that fails leaves what was applied in
\* memory: a later one writes it.
Sync(w) ==
  /\ w \in mem.wallets
  /\ \E view \in {v \in Views : Consistent(v) /\ Follows(mem.held[w], v)} :
       /\ \E reread \in SUBSET {t \in Vanishing(mem.news, w) :
                                  view[t] = "absent"},
             mv \in Moves(w, view) :
            mem' = SyncedState(w, view, reread, mv)
       /\ listed' = IF Returns THEN listed
                    ELSE listed \cup {t \in Txs : view[t] # "absent"}
  /\ Len(mem'.news.announced) <= MaxRecord
  /\ disk' \in {disk, mem'}
  /\ UNCHANGED <<now, said>>

\* A claim is a commit: saved and handed out, or neither.
ClaimNews(w, max) ==
  /\ Waiting(mem.news, w, now) > 0
  /\ mem' = [mem EXCEPT !.news = Claim(mem.news, w, max, now)]
  /\ disk' = mem'
  /\ said' = said \o Claimed(mem.news, w, max, now)
  /\ UNCHANGED <<now, listed>>

RemoveWallet(w) ==
  /\ w \in mem.wallets
  /\ mem' = [mem EXCEPT !.wallets = @ \ {w},
                        !.news = Purge(@, w),
                        !.held[w] = Nothing,
                        !.synced[w] = FALSE,
                        !.imported[w] = Nothing]
  /\ disk' = mem'
  /\ UNCHANGED <<now, listed, said>>

Restart ==
  /\ mem' = disk
  /\ UNCHANGED <<disk, now, listed, said>>

Tick ==
  /\ now' \in {n \in 0..MaxNow : IF ClockBack THEN n # now ELSE n = now + 1}
  /\ UNCHANGED <<mem, disk, listed, said>>

Next ==
  \/ \E w \in Wallets :
       \/ Sync(w)
       \/ \E max \in Maxima : ClaimNews(w, max)
       \/ RemoveWallet(w)
  \/ Restart
  \/ Tick

Spec == Init /\ [][Next]_vars

-----------------------------------------------------------------------------
(***************************************************************************)
(* Properties.                                                             *)
(***************************************************************************)

SaidBefore(i, w, t, stage) ==
  \E j \in 1..(i - 1) :
    said[j].wallet = w /\ said[j].tx = t /\ said[j].stage = stage

\* Nothing is handed out twice for one wallet at one stage, whichever
\* syncs, claims, failing saves and restarts come between (news::told,
\* news::claim, and the one save that carries a sync and its news).
SaidOnce ==
  \A i \in DOMAIN said :
    ~ SaidBefore(i, said[i].wallet, said[i].tx, said[i].stage)

\* Nobody is told a transaction is pending after being told it confirmed
\* (news::told).
NoArrivalAfterConfirmation ==
  \A i \in DOMAIN said :
    said[i].stage = "Mempool" =>
      ~ SaidBefore(i, said[i].wallet, said[i].tx, "Confirmed")

\* A payment is said dropped only to take back an arrival that was said,
\* under the very txid it was said under, and only an incoming one.
DroppedTakesBack ==
  \A i \in DOMAIN said :
    said[i].stage = "Dropped" =>
      /\ SaidBefore(i, said[i].wallet, said[i].tx, "Mempool")
      /\ Net[said[i].wallet][said[i].tx] > 0

\* The txid a notice says it replaces is one the app was told of: never an
\* intermediate fee bump that was recorded and not said.
ReplacesWasSaid ==
  \A i \in DOMAIN said :
    said[i].replaces # NONE =>
      \E stage \in {"Mempool", "Confirmed"} :
        SaidBefore(i, said[i].wallet, said[i].replaces, stage)

Known(p, w, t, stage) ==
  \/ Told(p, w, t, stage)
  \/ WaitingAs(p, w, t, stage)
  \/ <<w, t, stage>> \in p.forgotten

\* What the wallet holds is never swallowed: it was said, or waits to be, or
\* was forgotten by age or by the limit, or came with the import.
NothingSwallowed ==
  \A w \in mem.wallets, t \in Txs :
    LET p == mem.news
    IN  /\ mem.held[w][t] = "pending" =>
             \/ \E stage \in {"Mempool", "Confirmed"} : Known(p, w, t, stage)
             \/ mem.imported[w][t] # "absent"
        /\ mem.held[w][t] = "confirmed" =>
             \/ Known(p, w, t, "Confirmed")
             \/ mem.imported[w][t] = "confirmed"

\* Nothing is kept of a wallet that was removed, in memory or in the vault:
\* no news, no record and no payment to settle (remove_wallet).
NothingOfRemoved ==
  \A state \in {mem, disk} :
    LET p == state.news
    IN  \A e \in ToSet(p.unclaimed) \cup ToSet(p.announced)
                \cup ToSet(p.vanishing) : e.wallet \in state.wallets

\* A payment that only stopped being listed is not said dropped by the sync
\* that first missed it: an earlier sync had, DROPPED_AFTER before or more.
\* Only a transaction that takes its coins makes it dropped at once.
SecondLook ==
  [][\A w \in Wallets, f \in Txs :
       /\ mem' # disk
       /\ ~ WaitingAs(mem.news, w, f, "Dropped")
       /\ WaitingAs(mem'.news, w, f, "Dropped")
       => \/ \E e \in ToSet(mem.news.vanishing) :
               /\ e.wallet = w /\ e.told_as = f
               /\ now >= e.missed + DROPPED_AFTER
          \/ \E t \in Txs : /\ mem.held[w][t] = "absent"
                            /\ mem'.held[w][t] # "absent"
                            /\ Conflict(t, f)]_vars

\* A pending notice never stands for nothing: as long as an incoming
\* payment was said to be coming, a transaction of it is still held, or its
\* confirmation takes the notice's place, or it is said dropped, or a second
\* look at it is due, or age took what there was to say.
PendingNoticeSettles ==
  \A i \in DOMAIN said :
    LET w == said[i].wallet
        f == said[i].tx
        p == mem.news
        records == {e \in ToSet(p.announced) \cup
                          {Spoken(u) : u \in ToSet(p.unclaimed)} :
                      e.wallet = w /\ (e.tx = f \/ e.replaces = f)}
    IN  (said[i].stage = "Mempool" /\ w \in mem.wallets /\ Net[w][f] > 0) =>
          \/ \E e \in records : \/ e.stage \in {"Confirmed", "Dropped"}
                                \/ mem.held[w][e.tx] # "absent"
          \/ \E e \in ToSet(p.vanishing) : e.wallet = w /\ e.told_as = f
          \/ \E t \in Txs, stage \in {"Confirmed", "Dropped"} :
               (t = f \/ Conflict(t, f)) /\ <<w, t, stage>> \in p.forgotten

\* Together, with their types: what is said names what was said, and nothing
\* outlives its wallet.
NewsInv == TypeOK /\ DroppedTakesBack /\ ReplacesWasSaid /\ NothingOfRemoved
=============================================================================
