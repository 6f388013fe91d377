------------------------------- MODULE Prices --------------------------------
(***************************************************************************)
(* The fiat price and its chart (price.rs, manager/price.rs), by the       *)
(* currency and the source of the preferences (prefs.rs).                  *)
(*                                                                         *)
(* A chart from mempool.space is drawn from its whole series, which a      *)
(* cache keeps an hour per currency, closed by the price now: two requests *)
(* with others' steps between, on a clock that may be set back.            *)
(***************************************************************************)
EXTENDS Integers, FiniteSets, SequencesExt

CONSTANTS
  Viewers,              \* the tasks that may ask for a chart
  Currencies,           \* the currencies on offer
  Every,                \* the ones every source quotes
  Cutoffs,              \* the seconds each range covers; none for Max
  Series,               \* what a source may answer: sequences of points
  MAX_POINTS,           \* points of a chart (480)
  MEMPOOL_SERIES_SECS,  \* how long a series is kept (an hour)
  MaxTime               \* bound on the clock

Sources == {"coingecko", "mempool"}
Ranges == DOMAIN Cutoffs
Points == [t : Int, rate : Int]

ASSUME PricesAssumption ==
  /\ Every \subseteq Currencies /\ Every # {}
  /\ "Max" \in Ranges /\ \A r \in Ranges : Cutoffs[r] \subseteq Nat
  /\ Series \subseteq Seq(Points)
  /\ MAX_POINTS \in Nat \ {0, 1} /\ MEMPOOL_SERIES_SECS \in Nat \ {0} /\ MaxTime \in Nat

VARIABLES
  preferences,   \* the currency and the source, as the vault holds them
  cache,         \* the series kept of each currency: none, or one
  viewer,        \* where each task is
  secs,          \* the clock
  sinceBack,     \* history: clock readings since it was last set back
  chart          \* history: the chart this step handed out: none, or one

priceVars == <<preferences, cache, viewer, secs, sinceBack, chart>>

-----------------------------------------------------------------------------
(* Preferences: a currency wins, and its source follows.                   *)

SupportsCurrency(source, currency) == source = "coingecko" \/ currency \in Every
Supports(source, range) == source = "mempool" \/ range # "Max"

Quotable(p) ==
  IF SupportsCurrency(p.source, p.currency) THEN p ELSE [p EXCEPT !.source = "coingecko"]

Pairs == [currency : Currencies, source : Sources]

-----------------------------------------------------------------------------
(* Charts.                                                                 *)

\* One point a time, the first of those the source gives, oldest first, the
\* implausible ones left out.
Plausible(raw) ==
  LET good == {i \in DOMAIN raw : raw[i].rate > 0}
      kept == {i \in good : \A j \in good : raw[j].t = raw[i].t => i <= j}
      order == SetToSortSeq(kept, LAMBDA i, j : raw[i].t < raw[j].t)
  IN [n \in DOMAIN order |-> raw[order[n]]]

Within(points, range, now) ==
  SelectSeq(points, LAMBDA p : \A cutoff \in Cutoffs[range] : p.t >= now - cutoff)

\* The newest points left out.
MutThinSeries(points, max) ==
  IF Len(points) <= max THEN points ELSE SubSeq(points, 1, max)

\* At most max points, both ends kept.
ThinSeries(points, max) ==
  IF Len(points) <= max \/ max < 2 THEN points
  ELSE LET last == Len(points) - 1
       IN [i \in 1..(max - 1) |-> points[((i - 1) * last) \div (max - 1) + 1]]
          \o <<points[last + 1]>>

Drawn(raw, range, now) == ThinSeries(Within(Plausible(raw), range, now), MAX_POINTS)

\* The price now as the last point; one that did not come leaves the series.
ClosedBy(series, quote) == series \o quote

-----------------------------------------------------------------------------
Away == [step |-> "away", pair |-> [currency |-> CHOOSE c \in Every : TRUE, source |-> "mempool"],
         range |-> "Max", now |-> 0, asked |-> 0, back |-> 0, series |-> <<>>]

\* A vault may have stored any pair, or none, and is read as one that exists.
PricesInit ==
  /\ preferences \in {Quotable(p) : p \in Pairs}
  /\ cache = [c \in Currencies |-> {}]
  /\ viewer = [v \in Viewers |-> Away]
  /\ secs = 0
  /\ sinceBack = 0
  /\ chart = {}

SetPreferences ==
  /\ \E currency \in Currencies, source \in Sources :
       preferences' \in {Quotable([preferences EXCEPT !.currency = currency]),
                         Quotable([preferences EXCEPT !.source = source]),
                         Quotable([currency |-> currency, source |-> source])}
  /\ UNCHANGED <<cache, viewer, secs, sinceBack>> /\ chart' = {}

At(v, step) == viewer[v].step = step

Fresh(held, now) == {s \in held : now - s.at < MEMPOOL_SERIES_SECS}

\* What the source cannot serve is refused before anything is sent, and a
\* route that cannot be had ends the call.  The series of mempool.space the
\* cache holds is used as it is.
FetchPriceHistory(v) ==
  /\ At(v, "away")
  /\ \E range \in Ranges :
       LET me == [Away EXCEPT !.pair = preferences, !.range = range, !.now = secs]
           held == IF preferences.source = "mempool" THEN Fresh(cache[preferences.currency], secs) ELSE {}
       IN /\ Supports(preferences.source, range)
          /\ SupportsCurrency(preferences.source, preferences.currency)
          /\ viewer' = [viewer EXCEPT ![v] =
               IF held = {} THEN [me EXCEPT !.step = "asking", !.asked = secs, !.back = sinceBack]
               ELSE LET s == CHOOSE s \in held : TRUE
                    IN [me EXCEPT !.step = "closing", !.asked = s.at, !.back = s.back, !.series = s.series]]
  /\ UNCHANGED <<preferences, cache, secs, sinceBack>> /\ chart' = {}

\* Kept under the time read before it was asked.
Answered(v) ==
  LET me == viewer[v]
  IN /\ At(v, "asking")
     /\ \/ viewer' = [viewer EXCEPT ![v] = Away] /\ UNCHANGED cache
        \/ \E series \in Series :
             /\ viewer' = [viewer EXCEPT ![v].step = "closing", ![v].series = series]
             /\ cache' = IF me.pair.source = "coingecko" THEN cache
                         ELSE [cache EXCEPT ![me.pair.currency] =
                                 {[at |-> me.now, back |-> me.back, series |-> series]}]
     /\ UNCHANGED <<preferences, secs, sinceBack>> /\ chart' = {}

\* The quote that closes a series of mempool.space may fail; under two points
\* there is no chart.
Draw(v) ==
  LET me == viewer[v]
  IN /\ At(v, "closing")
     /\ \E quote \in {<<>>} \cup (IF me.pair.source = "mempool" THEN {<<[t |-> secs, rate |-> 1]>>} ELSE {}) :
          LET raw == ClosedBy(me.series, quote)
              points == Drawn(raw, me.range, secs)
          IN chart' = IF Len(points) < 2 THEN {}
                      ELSE {[points |-> points, raw |-> raw, pair |-> me.pair, range |-> me.range,
                             at |-> secs, read |-> me.now, asked |-> me.asked,
                             moved |-> me.back # sinceBack]}
     /\ viewer' = [viewer EXCEPT ![v] = Away]
     /\ UNCHANGED <<preferences, cache, secs, sinceBack>>

ClockSteps ==
  \/ /\ secs < MaxTime
     /\ secs' = secs + 1
     /\ UNCHANGED <<preferences, cache, viewer, sinceBack>> /\ chart' = {}
  \/ /\ secs > 0 /\ sinceBack = 0
     /\ secs' = secs - 1
     /\ sinceBack' = sinceBack + 1
     /\ UNCHANGED <<preferences, cache, viewer>> /\ chart' = {}

PricesNext ==
  \/ SetPreferences \/ ClockSteps
  \/ \E v \in Viewers : FetchPriceHistory(v) \/ Answered(v) \/ Draw(v)

-----------------------------------------------------------------------------
\* No pair of preferences names a currency its source does not quote, however
\* they are changed and whatever the vault stored, so no chart is refused.
QuotedPair == SupportsCurrency(preferences.source, preferences.currency)

\* What a chart may leave out and what it may not: it goes forward in time and
\* fits a screen, and no plausible point of its range lies before its first or
\* after its last, the price now among them.
WholeChart(c) ==
  LET shown == {c.points[i].t : i \in DOMAIN c.points}
      oldest == {c.at - cutoff : cutoff \in Cutoffs[c.range]}
      there == {c.raw[i].t : i \in {j \in DOMAIN c.raw : c.raw[j].rate > 0}}
      mine == {t \in there : \A o \in oldest : t >= o}
  IN /\ Len(c.points) \in 2..MAX_POINTS
     /\ \A i, j \in DOMAIN c.points : i < j => c.points[i].t < c.points[j].t
     /\ shown \subseteq mine
     /\ \A t \in mine : c.points[1].t <= t /\ t <= c.points[Len(c.points)].t

\* A series is an hour old at most when a chart is drawn from it, whoever asked
\* for it, unless the clock was set back since.
YoungSeries(c) == c.moved \/ c.read - c.asked < MEMPOOL_SERIES_SECS

\* What a chart shows is what the source has of its range, and recent.
ChartInv == QuotedPair /\ \A c \in chart : WholeChart(c) /\ YoungSeries(c)
=============================================================================
