----------------------------- MODULE TradingEngine -----------------------------
(* One run of the trading engine (analytics/platform/trading_engine.py) and the *)
(* chart it draws (charting.py).  The connector, the model and the market are   *)
(* placeholders in the code; here each of their calls may also raise, as run's   *)
(* except clause expects.  The history the engine charts is chosen bar by bar.  *)
EXTENDS Integers, Sequences, SequencesExt, FiniteSetsExt

CONSTANTS Bars,     \* what a day may look like: [open, high, low, close, volume]
          MaxBars,  \* bound: days charted
          Height,   \* rows of the price chart
          VolumeHeight

VARIABLES history,     \* the bars of the chart
          step,        \* what run does next
          connection,  \* the connector's _connection is set
          model,       \* the model is loaded
          signal,      \* the signal received, or "none"
          trades       \* orders executed

vars == <<history, step, connection, model, signal, trades>>

Init ==
  /\ history = <<>> /\ step = "idle"
  /\ connection = FALSE /\ model = FALSE /\ signal = "none" /\ trades = <<>>

AddBar ==
  /\ step = "idle" /\ Len(history) < MaxBars
  /\ \E bar \in Bars : history' = Append(history, bar)
  /\ UNCHANGED <<step, connection, model, signal, trades>>

(* the chart -----------------------------------------------------------------------*)

Values(f) == {history[n][f] : n \in DOMAIN history}
MinPrice == Min(Values("low"))
MaxPrice == Max(Values("high"))
Range_ == IF MaxPrice = MinPrice THEN 1 ELSE MaxPrice - MinPrice

\* The row of a price num/den: truncated, and never outside for a price in range.
Row(num, den) == ((num - MinPrice * den) * (Height - 1)) \div (Range_ * den)
PriceRow(price) == Row(price, 1)

\* What a candle puts in row y of its column.
Candle(bar, y) ==
  LET body == {PriceRow(bar.open), PriceRow(bar.close)} IN
  CASE y \notin PriceRow(bar.low)..PriceRow(bar.high) -> "blank"
    [] y \in PriceRow(bar.low)..PriceRow(bar.high) /\ y \in Min(body)..Max(body) ->
         IF bar.close >= bar.open THEN "rising" ELSE "falling"
    [] OTHER -> "wick"

\* calculate_trend_line: slope num/den by least squares, and where it is at x.
Sum_(f(_)) == FoldLeft(LAMBDA a, n : a + f(n), 0, [n \in DOMAIN history |-> n])
TrendDen == Len(history) * Sum_(LAMBDA n : (n - 1) ^ 2) - Sum_(LAMBDA n : n - 1) ^ 2
TrendNum == Len(history) * Sum_(LAMBDA n : (n - 1) * history[n].close)
            - Sum_(LAMBDA n : n - 1) * Sum_(LAMBDA n : history[n].close)
TrendAt(x) ==
  IF Len(history) < 2 THEN <<history[1].close, 1>>
  ELSE <<Sum_(LAMBDA n : history[n].close) * TrendDen
           + TrendNum * (Len(history) * x - Sum_(LAMBDA n : n - 1)), Len(history) * TrendDen>>

\* A plausible bug: the row of the trend rounded up where prices are rounded down.
OnTrendAbove(x, y) ==
  LET p == TrendAt(x) IN
  /\ MinPrice * p[2] <= p[1] /\ p[1] <= MaxPrice * p[2]
  /\ y = Row(p[1] + p[2], p[2])

\* The trend overlays a candle where it is between the lowest and highest price.
OnTrend(x, y) ==
  LET p == TrendAt(x) IN
  /\ MinPrice * p[2] <= p[1] /\ p[1] <= MaxPrice * p[2]
  /\ y = Row(p[1], p[2])

Chart == [x \in DOMAIN history |-> [y \in 0..(Height - 1) |->
            IF OnTrend(x - 1, y) THEN "trend" ELSE Candle(history[x], y)]]

\* The bars of the volume chart.
VolumeRows(x) ==
  LET top == Max(Values("volume")) IN
  IF top = 0 THEN 0 ELSE (history[x].volume * VolumeHeight) \div top

(* run -----------------------------------------------------------------------------*)

\* One call of run, which may raise, and the step after it.
Call(from, to) ==
  /\ step = from
  /\ \/ step' = to
     \/ step' = "disconnect"

Run ==
  /\ step = "idle" /\ history # <<>> /\ step' = "connect"
  /\ UNCHANGED <<history, connection, model, signal, trades>>

Connect ==
  /\ Call("connect", "load")
  /\ connection' = (step' = "load")
  /\ UNCHANGED <<history, model, signal, trades>>

LoadModel ==
  /\ Call("load", "fetch")
  /\ model' = (step' = "fetch")
  /\ UNCHANGED <<history, connection, signal, trades>>

\* Without a connection fetch_market_data raises.
FetchMarketData ==
  /\ step = "fetch"
  /\ IF connection THEN step' \in {"chart", "disconnect"} ELSE step' = "disconnect"
  /\ UNCHANGED <<history, connection, model, signal, trades>>

DrawChart ==
  /\ step = "chart" /\ step' = "signal"
  /\ UNCHANGED <<history, connection, model, signal, trades>>

GetSignal ==
  /\ Call("signal", "trade")
  /\ IF step' = "trade" THEN model /\ signal' \in {"BUY", "SELL", "HOLD"} ELSE UNCHANGED signal
  /\ UNCHANGED <<history, connection, model, trades>>

ExecuteTrade ==
  /\ step = "trade" /\ step' = "disconnect"
  /\ trades' = IF signal = "HOLD" THEN trades ELSE Append(trades, signal)
  /\ UNCHANGED <<history, connection, model, signal>>

\* The finally clause, after the last call or the first that raised.
Disconnect ==
  /\ step = "disconnect" /\ step' = "idle"
  /\ connection' = FALSE /\ signal' = "none" /\ trades' = <<>>
  /\ UNCHANGED <<history, model>>

Next == \/ AddBar \/ Run \/ Connect \/ LoadModel \/ FetchMarketData \/ DrawChart \/ GetSignal
        \/ ExecuteTrade \/ Disconnect

Spec == Init /\ [][Next]_vars

\* The chart tells the truth about the order of prices: every candle is drawn
\* from the row of its low to that of its high and nothing else is, but for the
\* trend, a higher price is never drawn lower, and the extremes are in the bottom
\* and top rows.  The trend is in one row of a column at most.
ChartKeepsOrder ==
  history # <<>> =>
    /\ \A x \in DOMAIN history :
         /\ {y \in 0..(Height - 1) : Chart[x][y] = "trend"}
              \subseteq {Row(TrendAt(x - 1)[1], TrendAt(x - 1)[2])}
         /\ \A y \in 0..(Height - 1) :
              Chart[x][y] \notin {"blank", "trend"} =>
                y \in PriceRow(history[x].low)..PriceRow(history[x].high)
         /\ VolumeRows(x) \in 0..VolumeHeight
    /\ \A a, b \in DOMAIN history :
         history[a].close <= history[b].close => PriceRow(history[a].close) <= PriceRow(history[b].close)
    /\ PriceRow(MinPrice) = 0
    /\ MaxPrice # MinPrice => PriceRow(MaxPrice) = Height - 1
================================================================================
