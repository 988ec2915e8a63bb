------------------------------- MODULE FxRates -------------------------------
(***************************************************************************)
(* Exchange rates: the fx_rate table, its synchronisation with the public  *)
(* feed (tidemill/fx_sync.py) and the conversions that read it             *)
(* (tidemill/fx.py, _FxCache and _to_base of tidemill/state.py).           *)
(*                                                                         *)
(* A table is a function from currency and day to a rate or NoRate.        *)
(***************************************************************************)
EXTENDS Integers, FiniteSets, FiniteSetsExt

CONSTANTS
  Base,        \* BASE_CURRENCY
  Currencies,  \* the others that occur, in upper case
  Seeds,       \* TIDEMILL_FX_CURRENCIES or its default
  Days,        \* the days of the model, a subset of Nat
  Quote,       \* the feed: its rate per currency and day, NoRate on the days
               \* without trading
  Unit,        \* rates are multiples of 1/Unit
  Lookback,    \* DEFAULT_LOOKBACK_DAYS
  NoRate,      \* no row, no quote
  Null         \* a missing currency, no --since

ASSUME RatesAssumption ==
  /\ IsFiniteSet(Days) /\ Days \subseteq Nat
  /\ \A from, to \in Days : from..to \subseteq Days
  /\ Quote \in [Currencies -> [Days -> Nat \union {NoRate}]]
  /\ NoRate \notin Nat
  /\ Unit \in Nat \ {0}
  /\ Lookback \in Nat

EmptyRates == [c \in Currencies |-> [d \in Days |-> NoRate]]

-----------------------------------------------------------------------------
(* Conversion *)

Stored(rates, c) == {d \in Days : rates[c][d] # NoRate}

\* The row of the last day on or before d.
RateOn(rates, c, d) ==
  LET known == {x \in Stored(rates, c) : x <= d}
  IN  IF known = {} THEN NoRate ELSE rates[c][Max(known)]

\* FxRateMissingError: zero amounts and the base currency need no rate.
RateMissing(rates, amount, c, d) ==
  /\ amount # 0
  /\ c \notin {Base, Null}
  /\ RateOn(rates, c, d) = NoRate

\* int() truncates towards zero.
ToBase(rates, amount, c, d) ==
  IF amount = 0 \/ c \in {Base, Null} THEN amount
  ELSE LET r == RateOn(rates, c, d)
       IN  IF amount >= 0 THEN (amount * r) \div Unit
                          ELSE -((-amount * r) \div Unit)

-----------------------------------------------------------------------------
(* Synchronisation *)

\* detect_currencies: those of subscription, invoice and payment rows.
Targets(detected) == (detected \union Seeds) \ {Base}

LastSynced(rates, c) ==
  IF Stored(rates, c) = {} THEN NoRate ELSE Max(Stored(rates, c))

\* Mutant of SyncStart: the days since the last stored one are not fetched.
SyncStartToday(rates, c, since, until) ==
  IF since # Null THEN since
  ELSE IF LastSynced(rates, c) = NoRate THEN until - Lookback ELSE until

\* The day given to --since; else the day after the last stored one, or the
\* lookback for a new currency.
SyncStart(rates, c, since, until) ==
  LET last == LastSynced(rates, c)
  IN  IF since # Null THEN since
      ELSE IF last = NoRate THEN until - Lookback ELSE last + 1

\* The currencies of one request share their start: one bucket each.
Buckets(rates, detected, since, until) ==
  {SyncStart(rates, c, since, until) : c \in Targets(detected) \intersect Currencies}

\* sync_fx_rates on day until, since Null unless tidemill fx-sync was given a
\* day: the buckets in failed are skipped, whatever the feed has published by
\* now (up to day upTo) is written for the others.
Sync(rates, detected, since, until, upTo, failed) ==
  [c \in Currencies |->
     LET start == SyncStart(rates, c, since, until)
     IN  IF c \notin Targets(detected) \/ start > until \/ start \in failed
         THEN rates[c]
         ELSE [d \in Days |->
                 IF d \in start..upTo /\ Quote[c][d] # NoRate
                 THEN Quote[c][d] ELSE rates[c][d]]]

=============================================================================
