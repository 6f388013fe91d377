------------------------------ MODULE Watched -------------------------------
(***************************************************************************)
(* What a watch follows (watch/mod.rs): the list of scripts built from the *)
(* wallets handed over, in the order the transports cover it, and how much *)
(* of each wallet a server hears of it.                                    *)
(*                                                                         *)
(* A wallet handed over is a record: id, scripts (a sequence of records    *)
(* script, watchable, lookahead, status), pinned, coins (holds_coins),     *)
(* pending (has_pending), unlisted (scripts its list stopped short of).    *)
(***************************************************************************)
EXTENDS Integers, Sequences, FiniteSets, SequencesExt, FiniteSetsExt

\* A list with no script the watch takes leaves it nothing to follow.
NoScripts(list) ==
  \A i \in DOMAIN list :
    \A r \in DOMAIN list[i].scripts : ~list[i].scripts[r].watchable

\* The wallets in the order their scripts are taken at one rank: the
\* pinned ones apart; of the others, those that hold coins first.
Positions(list, chosen) ==
  SelectSeq([i \in DOMAIN list |-> i], LAMBDA i : i \in chosen)
Pinned(list) == Positions(list, {i \in DOMAIN list : list[i].pinned})
Others(list) ==
  Positions(list, {i \in DOMAIN list : ~list[i].pinned /\ list[i].coins})
    \o Positions(list, {i \in DOMAIN list : ~list[i].pinned /\ ~list[i].coins})

\* The scripts of a group of wallets, rank by rank, up to what a watch
\* takes of one wallet.
ByRank(list, group, perWallet) ==
  LET longest ==
        Max({0} \cup {Min({Len(list[group[k]].scripts), perWallet}) :
                        k \in DOMAIN group})
      rank(r) == SelectSeq([k \in DOMAIN group |-> <<group[k], r>>],
                           LAMBDA slot : r <= Len(list[slot[1]].scripts))
  IN  FlattenSeq([r \in 1..longest |-> rank(r)])

\* A script listed is taken: for one more owner when an entry has it, as
\* a new entry when the list has room.
Take(list, total, entries, slot) ==
  LET owner == slot[1]
      listed == list[owner].scripts[slot[2]]
      at == {k \in DOMAIN entries : entries[k].script = listed.script}
      joined(e) ==
        [e EXCEPT !.lookahead = @ /\ listed.lookahead,
                  !.held = IF owner \in DOMAIN @ THEN @
                           ELSE [o \in DOMAIN @ \cup {owner} |->
                                   IF o = owner THEN listed.status ELSE @[o]]]
  IN  CASE ~listed.watchable -> entries
        [] listed.watchable /\ at # {} ->
             [k \in DOMAIN entries |->
                IF k \in at THEN joined(entries[k]) ELSE entries[k]]
        [] listed.watchable /\ at = {} /\ Len(entries) >= total -> entries
        [] OTHER ->
             Append(entries, [script |-> listed.script,
                              lookahead |-> listed.lookahead,
                              held |-> [o \in {owner} |-> listed.status]])

\* Scripts worth watching of a wallet, listed or not; twice counts once.
Worth(wallet) ==
  Cardinality({wallet.scripts[r].script : r \in DOMAIN wallet.scripts})
    + wallet.unlisted

\* Watched::new.  An entry's owners are the domain of held: positions in
\* the list, each with the status that wallet holds for the script.
NewWatched(list, limits) ==
  LET slots == ByRank(list, Pinned(list), limits.perWallet)
                 \o ByRank(list, Others(list), limits.perWallet)
  IN  [wallets |-> [i \in DOMAIN list |->
                      [id |-> list[i].id, pending |-> list[i].pending,
                       worth |-> Worth(list[i])]],
       entries |-> FoldLeft(LAMBDA entries, slot :
                              Take(list, limits.total, entries, slot),
                            << >>, slots)]

-----------------------------------------------------------------------------
(***************************************************************************)
(* What a server refused of the list.                                      *)
(***************************************************************************)
NOLIMIT == -1

\* The limit learned, how long it has been kept (new; an hour, long enough
\* for one of none at all; a day, long enough for any: the clock set back is
\* long enough), whether it comes from a cut for cost, the scripts turned
\* down, and those a limit that ran out had left out.
NoRefusals ==
  [limit |-> NOLIMIT, kept |-> "new", cut |-> FALSE, scripts |-> {},
   leftOut |-> {}]

Learn(refusals, limit) ==
  [refusals EXCEPT !.limit = limit, !.kept = "new", !.cut = FALSE]
LearnCut(refusals, limit) == [Learn(refusals, limit) EXCEPT !.cut = TRUE]

\* A limit is asked again once it was kept long enough, an hour when the
\* server took none, and never when it came from a cut for cost.
RanOut(refusals) ==
  /\ refusals.limit # NOLIMIT /\ ~refusals.cut
  /\ refusals.kept = "day" \/ (refusals.limit = 0 /\ refusals.kept = "hour")

\* The entries not turned down; the head a server is asked for; the rest.
Wanted(watched, refusals) ==
  SelectSeq(watched.entries, LAMBDA e : e.script \notin refusals.scripts)

Heard(watched, refusals) ==
  LET wanted == Wanted(watched, refusals)
  IN  IF refusals.limit = NOLIMIT THEN wanted
      ELSE SubSeq(wanted, 1, Min({refusals.limit, Len(wanted)}))

PastLimit(watched, refusals) ==
  LET wanted == Wanted(watched, refusals)
  IN  IF refusals.limit = NOLIMIT THEN << >>
      ELSE SubSeq(wanted, refusals.limit + 1, Len(wanted))

CountOf(entries, owner) ==
  Cardinality({k \in DOMAIN entries : owner \in DOMAIN entries[k].held})

\* How much of each wallet is heard; refused: what the server refused.
Coverage(watched, refusals) ==
  [i \in DOMAIN watched.wallets |->
     LET heard == CountOf(Heard(watched, refusals), i)
     IN  [id |-> watched.wallets[i].id, heard |-> heard,
          leftOut |-> Max({0, watched.wallets[i].worth - heard}),
          refused |-> CountOf(watched.entries, i) - heard]]

Capped(watched, refusals) ==
  {c.id : c \in {x \in ToSet(Coverage(watched, refusals)) : x.leftOut > 0}}

ScriptsOf(entries) == {e.script : e \in ToSet(entries)}
=============================================================================
