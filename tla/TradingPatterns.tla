---------------------------- MODULE TradingPatterns ----------------------------
(* The pattern recognisers of the trading platform (analytics/platform/         *)
(* patterns.py) on a price history that grows by one bar at a time.  Prices are *)
(* integers and averages exact fractions, where the code has floats.  Periods   *)
(* are parameters, as in the code; bands are one deviation or range wide.       *)
EXTENDS Integers, Sequences, SequencesExt, FiniteSetsExt

CONSTANTS Bars,     \* what a day may look like: [high, low, close, volume]
          MaxBars,  \* bound: length of the history
          Short, Long,                  \* moving averages
          Period,                       \* RSI, Bollinger, Keltner's two averages
          Tenkan, Kijun, SpanB, Shift,  \* Ichimoku
          Fast, Slow, Signal,           \* MACD
          Trend                         \* on-balance volume

VARIABLE data  \* the bars, oldest first

Init == data = <<>>
Next == Len(data) < MaxBars /\ \E bar \in Bars : data' = Append(data, bar)
Spec == Init /\ [][Next]_data

(* fractions, in lowest terms -------------------------------------------------------*)

Gcd[a, b \in Nat] == IF b = 0 THEN a ELSE Gcd[b, a % b]
Abs(n) == IF n < 0 THEN -n ELSE n
Frac(n, d) == LET g == Gcd[Abs(n), d] IN <<n \div g, d \div g>>
Plus(p, q) == Frac(p[1] * q[2] + q[1] * p[2], p[2] * q[2])
Times(n, p) == Frac(n * p[1], p[2])
Over(p, n) == Frac(p[1], p[2] * n)
Below(p, q) == p[1] * q[2] < q[1] * p[2]

(* slices and averages ---------------------------------------------------------------*)

\* s[-n:] and s[-n:-m] of Python, which clip at the start of the list.
Tail_(s, n) == SubSeq(s, IF n < Len(s) THEN Len(s) - n + 1 ELSE 1, Len(s))
Between(s, n, m) == LET to == SubSeq(s, 1, Len(s) - m) IN Tail_(to, n - m)
Field(bars, f) == [n \in DOMAIN bars |-> bars[n][f]]
Fracs(s) == [n \in DOMAIN s |-> <<s[n], 1>>]
SumOf(s) == FoldLeft(LAMBDA a, b : Plus(a, b), <<0, 1>>, s)
Mean(s) == Over(SumOf(s), Len(s))
Highest(s) == Max(ToSet(s))
Lowest(s) == Min(ToSet(s))

\* The averages that start from a mean of period values and go on from there,
\* a new value weighing 2/(period+1) (EMA) or 1/period (Wilder's): all of them.
Smoothed(s, period, weight, parts) ==
  FoldLeft(LAMBDA a, v : Append(a, Over(Plus(Times(parts - weight, Last(a)), Times(weight, v)), parts)),
           <<Mean(SubSeq(s, 1, period))>>, SubSeq(s, period + 1, Len(s)))
Emas(s, period) == Smoothed(s, period, 2, period + 1)
Wilders(s, period) == Smoothed(s, period, 1, period)

\* A plausible bug: a cross upwards is seen without the look at the step before.
CrossUpAgain(now1, now2, before1, before2, up, down, none) ==
  CASE Below(now2, now1) -> up
    [] Below(now1, now2) /\ ~Below(before1, before2) -> down
    [] OTHER -> none

\* The sign of a comparison now, if it is new since the step before.
Cross(now1, now2, before1, before2, up, down, none) ==
  CASE Below(now2, now1) /\ ~Below(before2, before1) -> up
    [] Below(now1, now2) /\ ~Below(before1, before2) -> down
    [] OTHER -> none

(* the recognisers --------------------------------------------------------------------*)

Crossover(bars) ==
  LET c == Fracs(Field(bars, "close")) IN
  IF Len(c) < Long + 1 THEN "HOLD"
  ELSE Cross(Mean(Tail_(c, Short)), Mean(Tail_(c, Long)),
             Mean(Between(c, Short + 1, 1)), Mean(Between(c, Long + 1, 1)), "BUY", "SELL", "HOLD")

\* Gains and losses are averaged in lists of their own: the first Period gains,
\* then the later ones.  RSI above 70 is a gain more than 7/3 of the loss.
Rsi(bars) ==
  LET c == Field(bars, "close")
      changes == [n \in 1..(Len(c) - 1) |-> c[n + 1] - c[n]]
      Missing(s) == IF Len(s) < Period THEN Period - Len(s) ELSE 0
      Average(s) == Last(Wilders(Fracs(s) \o [n \in 1..Missing(s) |-> <<0, 1>>], Period))
      gain == Average(SelectSeq(changes, LAMBDA d : d > 0))
      falls == SelectSeq(changes, LAMBDA d : d < 0)
      loss == Average([n \in DOMAIN falls |-> -falls[n]]) IN
  CASE Len(c) < Period + 1 -> "NEUTRAL"
    [] Len(c) >= Period + 1 /\ (loss[1] = 0 \/ Below(Times(7, loss), Times(3, gain))) -> "OVERBOUGHT"
    [] Len(c) >= Period + 1 /\ loss[1] # 0 /\ Below(Times(7, gain), Times(3, loss)) -> "OVERSOLD"
    [] OTHER -> "NEUTRAL"

Middle(bars) == <<Highest(Field(bars, "high")) + Lowest(Field(bars, "low")), 2>>

Ichimoku(bars) ==
  LET before == Front(bars)
      shifted == Between(bars, Kijun + Shift, Shift)
      spanA == Over(Plus(Middle(Tail_(shifted, Tenkan)), Middle(shifted)), 2)
      spanB == Middle(Between(bars, SpanB + Shift, Shift))
      price == <<Last(bars).close, 1>> IN
  IF Len(bars) < SpanB + Shift THEN <<"NOT_ENOUGH_DATA", "UNKNOWN">>
  ELSE <<Cross(Middle(Tail_(bars, Tenkan)), Middle(Tail_(bars, Kijun)),
               Middle(Tail_(before, Tenkan)), Middle(Tail_(before, Kijun)),
               "BULLISH", "BEARISH", "NEUTRAL"),
         CASE Below(spanA, price) /\ Below(spanB, price) -> "ABOVE"
           [] Below(price, spanA) /\ Below(price, spanB) -> "BELOW"
           [] OTHER -> "IN_CLOUD">>

\* A day's range, a gap from the close before it included.
TrueRange(bar, close) == Max({bar.high - bar.low, Abs(bar.high - close), Abs(bar.low - close)})

Keltner(bars) ==
  LET ranges == [n \in 1..(Len(bars) - 1) |-> TrueRange(bars[n + 1], bars[n].close)]
      middle == Last(Emas(Fracs(Field(bars, "close")), Period))
      atr == Last(Wilders(Fracs(ranges), Period))
      price == <<Last(bars).close, 1>> IN
  CASE Len(bars) < Period + 1 -> "IN"
    [] Len(bars) >= Period + 1 /\ Below(Plus(middle, atr), price) -> "ABOVE"
    [] Len(bars) >= Period + 1 /\ Below(price, Plus(middle, Times(-1, atr))) -> "BELOW"
    [] OTHER -> "IN"

\* The deviation is a root: the squares are compared, with the sign apart.
Bollinger(bars) ==
  LET c == Tail_(Field(bars, "close"), Period)
      off == Period * Last(c) - SumOf(Fracs(c))[1]     \* Period times the price's distance
      squares == SumOf(Fracs([n \in DOMAIN c |-> (Period * c[n] - SumOf(Fracs(c))[1]) ^ 2]))[1] IN
  CASE Len(bars) < Period -> "NOT_ENOUGH_DATA"
    [] Len(bars) >= Period /\ Period * off ^ 2 > squares -> IF off > 0 THEN "ABOVE" ELSE "BELOW"
    [] OTHER -> "IN"

\* The fast averages are cut to the length of the slow ones; the signal line is
\* the average of their differences, and the previous values must exist.
Macd(bars) ==
  LET c == Fracs(Field(bars, "close"))
      slow == Emas(c, Slow)
      fast == SubSeq(Emas(c, Fast), Slow - Fast + 1, Len(c) - Fast + 1)
      line == [n \in DOMAIN slow |-> Plus(fast[n], Times(-1, slow[n]))]
      signal == Emas(line, Signal)
      Prev(s) == s[Len(s) - 1] IN
  IF Len(c) < Slow + Signal THEN "NOT_ENOUGH_DATA"
  ELSE Cross(Last(line), Last(signal), Prev(line), Prev(signal), "BULLISH", "BEARISH", "NEUTRAL")

\* The running volume, and its last value against its mean; a short history is
\* compared with the value before.
Obv(bars) ==
  LET Sign(n) == CASE bars[n].close > bars[n - 1].close -> 1
                   [] bars[n].close < bars[n - 1].close -> -1 [] OTHER -> 0
      obv == FoldLeft(LAMBDA s, n : Append(s, Last(s) + Sign(n) * bars[n].volume), <<0>>,
                      [n \in 1..(Len(bars) - 1) |-> n + 1])
      mean == IF Len(obv) < Trend THEN <<obv[Len(obv) - 1], 1>> ELSE Mean(Fracs(Tail_(obv, Trend)))
      last == <<Last(obv), 1>> IN
  CASE Len(bars) < 2 -> "NEUTRAL"
    [] Len(bars) >= 2 /\ Below(mean, last) -> "UPTREND"
    [] Len(bars) >= 2 /\ Below(last, mean) -> "DOWNTREND"
    [] OTHER -> "NEUTRAL"

\* get_pattern_signals: all of them on one history.
Signals(bars) ==
  [crossover |-> Crossover(bars), rsi |-> Rsi(bars), cross |-> Ichimoku(bars)[1],
   cloud |-> Ichimoku(bars)[2], keltner |-> Keltner(bars), bollinger |-> Bollinger(bars),
   macd |-> Macd(bars), obv |-> Obv(bars)]

(* the property ---------------------------------------------------------------------*)

\* The history turned upside down, and the signal each signal turns into.
Top == Max({bar.high : bar \in Bars}) + Min({bar.low : bar \in Bars})
Mirror(bars) == [n \in DOMAIN bars |-> [high |-> Top - bars[n].low, low |-> Top - bars[n].high,
                                        close |-> Top - bars[n].close, volume |-> bars[n].volume]]
Opposites == {<<"BUY", "SELL">>, <<"OVERBOUGHT", "OVERSOLD">>, <<"ABOVE", "BELOW">>,
              <<"BULLISH", "BEARISH">>, <<"UPTREND", "DOWNTREND">>}
Opposite(s) == IF \E p \in Opposites : s \in {p[1], p[2]}
               THEN LET p == CHOOSE q \in Opposites : s \in {q[1], q[2]} IN
                    IF s = p[1] THEN p[2] ELSE p[1]
               ELSE s

\* Buying and selling are treated alike: on the mirrored history every recogniser
\* gives the opposite signal.  A market that never moved is the exception, which
\* RSI calls overbought either way.
Moved == \E n \in 2..Len(data) : data[n].close # data[n - 1].close
SignalsMirror ==
  LET s == Signals(data)
      m == Signals(Mirror(data)) IN
  \A k \in DOMAIN s : (k # "rsi" \/ Moved) => m[k] = Opposite(s[k])
================================================================================
