------------------------------ MODULE DataTools ------------------------------
(***************************************************************************)
(* The data tools of the analysts (tradingagents/dataflows): what a call   *)
(* made on a day `today` for a day `asked` shows the model, as the set of  *)
(* days on which what it shows had become known.  The vendors hold         *)
(* everything that was ever published, so a tool that shows nothing later  *)
(* than `asked` does so by its own filter.                                 *)
(***************************************************************************)
EXTENDS Naturals, FiniteSets, FiniteSetsExt

CONSTANT MaxStale   \* MAX_OHLCV_STALE_DAYS

ASSUME StaleAssumption == MaxStale \in Nat

\* The tools each analyst may call.
ToolsOf ==
  [market       |-> {"stock_data", "indicators", "snapshot"},
   news         |-> {"news", "global_news", "insiders", "macro", "odds"},
   fundamentals |-> {"profile", "statements"},
   social       |-> {}]

PriceTools == {"stock_data", "indicators", "snapshot"}

\* OPTIONAL_CATEGORIES.
Optional == {"macro", "odds"}

-----------------------------------------------------------------------------
(* Prices, by the day of the bar                                           *)

\* load_ohlcv: a frame, cached or downloaded, that ends at `newest`, cut at the
\* day asked for.
Series(newest, asked) == {d \in 0..newest : d <= asked}

\* _assert_ohlcv_not_stale: bars that end too long before the day asked for are
\* no data.
TooOld(bars, asked) == bars # {} /\ Max(bars) + MaxStale < asked

\* get_YFin_data_online asks for one day more, the vendor's end being exclusive.
History(newest, asked) == {d \in 0..newest : d < asked + 1}

\* The values of an indicator, day by day back from the day asked for.
Indicator(newest, asked) == {d \in 0..asked : d \in Series(newest, asked)}

\* The verified snapshot cuts the series once more.
Snapshot(newest, asked) == {d \in Series(newest, asked) : d <= asked}

BarsOf(call) ==
  IF call.tool = "stock_data" THEN History(call.newest, call.asked)
  ELSE Series(call.newest, call.asked)

-----------------------------------------------------------------------------
(* News and posts, by the day of publication                               *)

\* What was published up to today, with a readable date or without.
Items(today) == [day : 0..today, dated : BOOLEAN]

\* The half-open window of date_window: an item without a date is kept only when
\* the window reaches the present.
InWindow(item, start, end, today) ==
  IF item.dated THEN item.day \in start..end ELSE end >= today

\* Company news, global news, StockTwits messages and Reddit posts each apply the
\* window to what the vendor sent.  Its end bounds a leak; its start is left open.
CompanyNews(asked, today) == {i.day : i \in {j \in Items(today) : InWindow(j, 0, asked, today)}}
GlobalNews(asked, today)  == {i.day : i \in {j \in Items(today) : InWindow(j, 0, asked, today)}}
Messages(date, today)     == {i.day : i \in {j \in Items(today) : InWindow(j, 0, date, today)}}

\* A subreddit whose fetch failed shows nothing and is reported as unavailable.
RedditPosts(date, today, fetched) ==
  {i.day : i \in {j \in Items(today) : fetched /\ InWindow(j, 0, date, today)}}

-----------------------------------------------------------------------------
(* Companies and the economy, by the day a value became known              *)

\* A statement is dated by the end of its fiscal period, and filed later.
Statements(today) == {s \in [period : 0..today, day : 0..today] : s.period <= s.day}

\* filter_financials_by_date looks at the period.
Reports(asked, today) == {s.day : s \in {r \in Statements(today) : r.period <= asked}}

\* A company profile has no history and is withheld from a past day.
Withheld(asked, today) == asked < today
Profile(asked, today)  == IF Withheld(asked, today) THEN {} ELSE 0..today

\* A macro series is asked for in the vintage of the day asked for, or of FRED's
\* own day when that is still the day before.
Macro(asked, fredToday) == 0..Min({asked, fredToday})

\* resolve_instrument_identity: name, sector and industry as the vendor showed them
\* on the day the process first asked, whatever the trade date; nothing if that failed.
Identities(today) == {{}} \cup {0..resolved : resolved \in 0..today}

\* Insider filings and market odds are shown as they are now.
Insiders(today) == 0..today
Odds(today)     == 0..today

-----------------------------------------------------------------------------
(* The same from Alpha Vantage                                             *)

\* The vendor sends the whole series, which is cut to the range asked for.
Trimmed(asked, today) == {d \in 0..today : d <= asked}

\* The rows of an indicator's series within the look-back.
AlphaIndicator(asked, today) == {d \in 0..today : d <= asked}

\* The vendor is asked for articles up to the first minute of the last day.
AlphaNews(asked, today) == {d \in 0..today : d < asked}

AlphaProfile(asked, today) == IF Withheld(asked, today) THEN {} ELSE 0..today

\* _filter_reports_by_date looks at the period as well.
AlphaReports(asked, today) == {s.day : s \in {r \in Statements(today) : r.period <= asked}}

-----------------------------------------------------------------------------
(* A call                                                                  *)

\* The vendors of a tool that has more than one.
Vendors == {"yfinance", "alpha_vantage"}

\* The model may ask for any day, after the trade date too; a day after today is as
\* good as any other such day.
Calls(key, today) ==
  [tool : ToolsOf[key], vendor : Vendors, asked : 0..(today + 1), newest : 0..today]

\* When what a call that returns data shows became known.
YFinance(call, today) ==
  CASE call.tool = "stock_data"  -> History(call.newest, call.asked)
    [] call.tool = "indicators"  -> Indicator(call.newest, call.asked)
    [] call.tool = "news"        -> CompanyNews(call.asked, today)
    [] call.tool = "global_news" -> GlobalNews(call.asked, today)
    [] call.tool = "insiders"    -> Insiders(today)
    [] call.tool = "profile"     -> Profile(call.asked, today)
    [] call.tool = "statements"  -> Reports(call.asked, today)

AlphaVantage(call, today) ==
  CASE call.tool = "stock_data"  -> Trimmed(call.asked, today)
    [] call.tool = "indicators"  -> AlphaIndicator(call.asked, today)
    [] call.tool \in {"news", "global_news"} -> AlphaNews(call.asked, today)
    [] call.tool = "insiders"    -> Insiders(today)
    [] call.tool = "profile"     -> AlphaProfile(call.asked, today)
    [] call.tool = "statements"  -> AlphaReports(call.asked, today)

Shows(call, today) ==
  CASE call.tool = "snapshot" -> Snapshot(call.newest, call.asked)
    [] call.tool = "macro"    -> Macro(call.asked, today)
    [] call.tool = "odds"     -> Odds(today)
    [] OTHER -> IF call.vendor = "yfinance" THEN YFinance(call, today)
                ELSE AlphaVantage(call, today)

\* The results of one vendor that the router tells apart.
VendorOutcomes == {"data", "rate_limited", "not_configured", "no_data", "error"}

\* A price tool of yfinance returns data only for bars that are not too old.
Possible(call, outcomes) ==
  LET guarded == call.tool \in PriceTools /\ (call.tool = "snapshot" \/ call.vendor = "yfinance")
  IN  guarded /\ TooOld(BarsOf(call), call.asked) =>
        \A i \in DOMAIN outcomes : outcomes[i] # "data"

\* route_to_vendor, given what each vendor of the chain would answer: the first
\* data wins, a clean "no data" outranks errors, an optional category degrades to
\* a sentinel where an error was seen, anything else raises.
Routed(outcomes, optional) ==
  LET seen == {outcomes[i] : i \in DOMAIN outcomes}
  IN  IF "data" \in seen THEN "data"
      ELSE IF "no_data" \in seen THEN "no_data"
      ELSE IF optional /\ seen \cap {"error", "not_configured"} # {} THEN "unavailable"
      ELSE "raise"

\* The snapshot bypasses the router, so that "no data" raises too; get_indicators
\* turns a ValueError, which "not configured" is, into its result.
Result(tool, outcomes) ==
  LET seen   == {outcomes[i] : i \in DOMAIN outcomes}
      routed == Routed(outcomes, tool \in Optional)
  IN  IF tool = "snapshot" THEN IF outcomes[1] = "data" THEN "data" ELSE "raise"
      ELSE IF routed = "raise" /\ tool = "indicators" /\ "error" \notin seen
              /\ "not_configured" \in seen
           THEN "unavailable"
      ELSE routed
=============================================================================
