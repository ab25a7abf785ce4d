------------------------------- MODULE Usage -------------------------------
(***************************************************************************)
(* The usage report, from the durable log to the chart: the stores'         *)
(* aggregation (store.rs, sqlite_store.rs, postgres_store.rs), the window   *)
(* the API resolves (crates/api/src/dto.rs), the window the command line    *)
(* asks for (crates/cli/src/usage.rs) and the series the dashboard draws    *)
(* (crates/dashboard/src/charts.rs). Every comparison of times in it, and   *)
(* in retention, is a comparison of RFC-3339 strings, so an instant here is *)
(* a day, a second and nanoseconds, and its spelling the characters that   *)
(* decide how it sorts.                                                     *)
(***************************************************************************)
EXTENDS Naturals, Sequences, FiniteSets, FiniteSetsExt, SequencesExt, Filter

CONSTANTS
    Times,         \* the instants things happen at, ascending
    Usages,        \* [workspace, kind, cost, turns]: what an event may report
    Queries,       \* raw GET /api/usage queries
    SinceArgs,     \* what --since may say
    MaxUsageDays,  \* MAX_USAGE_WINDOW_DAYS
    MaxUsageEvents,
    RetentionDays

DefaultUsageDays == 7

Micro == 1000               \* nanoseconds in a microsecond, and so on
Milli == 1000 * Micro
NanosPerSecond == 1000 * Milli
Instant == [day : Nat, sec : Nat, ns : 0..(NanosPerSecond - 1)]

ASSUME UsageAssumption ==
    /\ MaxUsageDays \in Nat /\ MaxUsageDays >= DefaultUsageDays
    /\ MaxUsageEvents \in Nat /\ RetentionDays \in Nat
    /\ Times \in Seq(Instant) /\ Times # <<>>
    /\ \A i, j \in DOMAIN Times : i < j => Times[i].day <= Times[j].day
    /\ \A q \in Queries : {q.since.at, q.until.at} \subseteq Instant /\ q.days \in Nat
    /\ \A arg \in SinceArgs : arg.at \in Instant /\ arg.n \in Nat

VARIABLES
    clock,     \* index of the current instant
    ledger     \* the events the log holds: [at, workspace, kind, cost, turns]

usageVars == <<clock, ledger>>

UsageInit == clock = 1 /\ ledger = <<>>

Earlier(t, u) ==
    \/ t.day < u.day
    \/ t.day = u.day /\ (t.sec < u.sec \/ (t.sec = u.sec /\ t.ns < u.ns))
DaysBefore(t, n) == [t EXCEPT !.day = IF n > @ THEN 0 ELSE @ - n]

-----------------------------------------------------------------------------
(* Spelling. The date and the time of day have a fixed width and sort as
   numbers; what follows them is compared character by character. *)

Place == <<100 * Milli, 10 * Milli, Milli, 100 * Micro, 10 * Micro, Micro, 100, 10, 1>>
Digit(ns, i) == 48 + ((ns \div Place[i]) % 10)

(* to_rfc3339 writes no fraction, three digits, six or nine. *)
Fraction(ns) ==
    LET width == IF ns % Milli = 0 THEN 3 ELSE IF ns % Micro = 0 THEN 6 ELSE 9
    IN  IF ns = 0 THEN <<>> ELSE <<46>> \o [i \in 1..width |-> Digit(ns, i)]

(* Mutant: the zone is written Z (90) rather than +00:00 (43). *)
SpelledZ(t) == [day |-> t.day, sec |-> t.sec, tail |-> Fraction(t.ns) \o <<90>>]

(* Times are in UTC and within the years of four digits. (A bound near the   *)
(* end of 9999 with an offset that takes it beyond is written with a plus    *)
(* before the year, and sorts before all others.)                            *)
Spelled(t) == [day |-> t.day, sec |-> t.sec, tail |-> Fraction(t.ns) \o <<43>>]

TailLess(s, t) ==
    \E i \in 1..Len(t) :
        /\ \A j \in 1..i - 1 : j <= Len(s) /\ s[j] = t[j]
        /\ i > Len(s) \/ s[i] < t[i]

(* ts < bound, as the stores compare them. *)
SortsBefore(a, b) ==
    \/ a.day < b.day
    \/ a.day = b.day /\ (a.sec < b.sec \/ (a.sec = b.sec /\ TailLess(a.tail, b.tail)))

Stamped(e) == Spelled(e.at)

-----------------------------------------------------------------------------
(* What happens to the log. *)
Elapse ==
    /\ clock < Len(Times)
    /\ clock' = clock + 1
    /\ UNCHANGED ledger

(* An event is stamped with the clock and appended. *)
Record(u) ==
    /\ Len(ledger) < MaxUsageEvents
    /\ ledger' = Append(ledger, [at |-> Times[clock], workspace |-> u.workspace,
                                 kind |-> u.kind, cost |-> u.cost, turns |-> u.turns])
    /\ UNCHANGED clock

(* prune_store_older_than *)
Cutoff == Spelled(DaysBefore(Times[clock], RetentionDays))

Prune ==
    /\ \E i \in DOMAIN ledger : SortsBefore(Stamped(ledger[i]), Cutoff)
    /\ ledger' = Kept(ledger, {e \in Range(ledger) : ~SortsBefore(Stamped(e), Cutoff)})
    /\ UNCHANGED clock

UsageNext == Elapse \/ Prune \/ \E u \in Usages : Record(u)

-----------------------------------------------------------------------------
(* The stores' aggregation, over [since, until). *)
Terminal == {"done", "failed", "killed", "crashed"}
Counted == Terminal \cup {"agent_finished", "agent_timed_out"}
Measures == {"cost", "turns"} \cup Terminal \cup {"timed_out"}

InWindow(e, since, until) ==
    ~SortsBefore(Stamped(e), since) /\ SortsBefore(Stamped(e), until)

NoUsage == [m \in Measures |-> 0]

(* The body of aggregate_usage's loop, for an event that opens a row. *)
Added(row, e) ==
    CASE e.kind = "agent_finished" -> [row EXCEPT !["cost"] = @ + e.cost, !["turns"] = @ + e.turns]
      [] e.kind = "agent_timed_out" -> [row EXCEPT !["timed_out"] = @ + 1]
      [] OTHER -> [row EXCEPT ![e.kind] = @ + 1]

(* aggregate_usage: the fold the JSON-lines store uses. Rows are keyed by
   workspace and day. *)
AggregateUsage(since, until) ==
    LET put(e, cells) ==
            LET key == <<e.workspace, e.at.day>>
                row == IF key \in DOMAIN cells THEN cells[key] ELSE NoUsage
            IN  IF e.kind \notin Counted THEN cells
                ELSE [k \in DOMAIN cells \cup {key} |->
                        IF k = key THEN Added(row, e) ELSE cells[k]]
    IN  FoldRight(put, SelectSeq(ledger, LAMBDA e : InWindow(e, since, until)), <<>>)

(* The sqlite query: WHERE, GROUP BY, and a SUM(CASE ...) per column. *)
SqlUsage(since, until) ==
    LET hits == {i \in DOMAIN ledger :
                    InWindow(ledger[i], since, until) /\ ledger[i].kind \in Counted}
        keys == {<<ledger[i].workspace, ledger[i].at.day>> : i \in hits}
        column(m, e) ==
            CASE m = "cost" -> IF e.kind = "agent_finished" THEN e.cost ELSE 0
              [] m = "turns" -> IF e.kind = "agent_finished" THEN e.turns ELSE 0
              [] m = "timed_out" -> IF e.kind = "agent_timed_out" THEN 1 ELSE 0
              [] OTHER -> IF e.kind = m THEN 1 ELSE 0
    IN  [k \in keys |-> [m \in Measures |->
            MapThenSumSet(LAMBDA i : column(m, ledger[i]),
                {i \in hits : <<ledger[i].workspace, ledger[i].at.day>> = k})]]

-----------------------------------------------------------------------------
(* The window. A raw bound is absent, not a timestamp, or an instant. *)
Refuse == [ok |-> FALSE]
Window(since, until) == [ok |-> TRUE, since |-> since, until |-> until]

(* parse_bound, then to_rfc3339; `days` counts back from the resolved end and
   is at least 1. *)
UsageWindow(q) ==
    LET until == IF q.until.form = "absent" THEN Times[clock] ELSE q.until.at
        back == IF q.days = 0 THEN 1 ELSE q.days
    IN  IF "junk" \in {q.since.form, q.until.form} THEN Refuse
        ELSE IF q.since.form = "at" THEN Window(Spelled(q.since.at), Spelled(until))
        ELSE IF back > MaxUsageDays THEN Refuse
        ELSE Window(Spelled(DaysBefore(until, back)), Spelled(until))

(* usage_report: a group per workspace, its totals, its days in order. *)
UsageReport(cells) ==
    LET days(w) == {k[2] : k \in {x \in DOMAIN cells : x[1] = w}}
    IN  [w \in {k[1] : k \in DOMAIN cells} |->
            [totals |-> [m \in Measures |->
                            MapThenSumSet(LAMBDA d : cells[<<w, d>>][m], days(w))],
             series |-> SetToSortSeq({[day |-> d, row |-> cells[<<w, d>>]] : d \in days(w)},
                                     LAMBDA a, b : a.day < b.day)]]

GetUsage(q) == LET w == UsageWindow(q) IN UsageReport(SqlUsage(w.since, w.until))

-----------------------------------------------------------------------------
(* The command line. --since is absent, a count of days or weeks, an hour
   count, a date, a timestamp, or something else. *)
Absent == [form |-> "absent", at |-> Times[1]]
Bound(t) == [form |-> "at", at |-> t]
Asks(since, days) == [ok |-> TRUE, since |-> since, until |-> Absent, days |-> days]
(* day_count *)
DayCount(arg) ==
    LET days == IF arg.unit = "w" THEN 7 * arg.n ELSE arg.n
    IN  IF arg.unit \notin {"d", "w"} \/ days = 0 \/ days > MaxUsageDays THEN Refuse
        ELSE Asks(Absent, days)

(* stamp: whole seconds, +00:00. *)
Stamp(t) == Spelled([t EXCEPT !.ns = 0])

(* usage_path *)
UsagePath(arg) ==
    CASE arg.form = "absent" -> Asks(Absent, DefaultUsageDays)
      [] arg.form = "count" -> DayCount(arg)
      [] arg.form = "date" -> Asks(Bound([arg.at EXCEPT !.sec = 0, !.ns = 0]), 0)
      [] arg.form = "timestamp" -> Asks(Bound([arg.at EXCEPT !.ns = 0]), 0)
      [] OTHER -> Refuse

(* The queries --since can make it send. *)
Sent == {q \in {UsagePath(arg) : arg \in SinceArgs} : q.ok}

(* The TOTAL row, and --workspace, which narrows what is summed. *)
RowTotal(report, names) ==
    [m \in Measures |-> MapThenSumSet(LAMBDA w : report[w].totals[m],
                                      names \cap DOMAIN report)]

-----------------------------------------------------------------------------
(* The dashboard's charts. *)

(* fleet_series: the workspaces' series summed by day. *)
FleetSeries(report, m) ==
    LET buckets == UNION {{<<w, b>> : b \in Range(report[w].series)} : w \in DOMAIN report}
        days == {p[2].day : p \in buckets}
        at(d) == MapThenSumSet(LAMBDA p : p[2].row[m], {p \in buckets : p[2].day = d})
    IN  SetToSortSeq({[day |-> d, value |-> at(d)] : d \in days}, LAMBDA a, b : a.day < b.day)

Peak(points) == Max({0} \cup {p.value : p \in Range(points)})

(* nice_max, on whole numbers: 1, 2, 5 or 10 times the power of ten below. *)
NiceMax(raw) ==
    LET pow == Max({10^n : n \in {k \in 0..4 : 10^k <= raw}})
    IN  IF raw = 0 THEN 1
        ELSE pow * Min({s \in {1, 2, 5, 10} : raw <= s * pow})

(* bars: a pixel at least, the box at most. *)
BarHeight(value, height, max) ==
    LET scaled == IF value > max THEN height ELSE (value * height) \div max
    IN  IF scaled = 0 THEN 1 ELSE scaled

-----------------------------------------------------------------------------
TrueSum(m, S) ==
    MapThenSumSet(LAMBDA i : IF m \in {"cost", "turns"}
                             THEN IF ledger[i].kind = "agent_finished" THEN ledger[i][m] ELSE 0
                             ELSE IF m = "timed_out" THEN IF ledger[i].kind = "agent_timed_out"
                                                          THEN 1 ELSE 0
                             ELSE IF ledger[i].kind = m THEN 1 ELSE 0, S)

(* Of an empty log every report is empty. *)
Asking == IF ledger = <<>> THEN {} ELSE Queries

(* The window a query asks for. *)
EndOf(q) == IF q.until.form = "absent" THEN Times[clock] ELSE q.until.at
StartOf(q) == IF q.since.form = "at" THEN q.since.at
              ELSE DaysBefore(EndOf(q), IF q.days = 0 THEN 1 ELSE q.days)
Within(e, q) == ~Earlier(e.at, StartOf(q)) /\ Earlier(e.at, EndOf(q))

(* The string comparisons of usage_window and the stores select exactly the  *)
(* events of that time, at any fraction of a second.                        *)
WindowSelects ==
    \A q \in Queries : UsageWindow(q).ok =>
        \A i \in DOMAIN ledger :
            InWindow(ledger[i], UsageWindow(q).since, UsageWindow(q).until)
                <=> Within(ledger[i], q)

(* What a report adds up to is what happened in the window it echoes.        *)
WindowExact ==
    \A q \in Asking : UsageWindow(q).ok =>
        LET report == GetUsage(q)
        IN  \A m \in Measures :
                RowTotal(report, DOMAIN report)[m] =
                    TrueSum(m, {i \in DOMAIN ledger : Within(ledger[i], q)})

(* The fold over the log and the query in the database give the same rows    *)
(* (the conformance battery's claim about every backend).                    *)
BackendsAgree ==
    \A q \in Asking : UsageWindow(q).ok =>
        LET w == UsageWindow(q)
        IN  AggregateUsage(w.since, w.until) = SqlUsage(w.since, w.until)

(* The command line never sends what the server refuses: its limits and the  *)
(* server's are the same, weeks included.                                   *)
CliAccepted == \A q \in Sent : UsageWindow(q).ok

(* The bound the command line sends sorts against the log's own stamps as    *)
(* the instant it names, without the server's help.                         *)
CliBoundSorts ==
    \A i \in DOMAIN ledger : \A q \in Sent :
        q.since.form = "at" =>
            (SortsBefore(Stamped(ledger[i]), Stamp(q.since.at))
                = Earlier(ledger[i].at, q.since.at))

(* Retention removes nothing younger than its age.                           *)
PruneKeepsYoung ==
    [][\A i \in DOMAIN ledger :
          ~Earlier(ledger[i].at, DaysBefore(Times[clock], RetentionDays))
              => ledger[i] \in Range(ledger')]_usageVars

(* A chart adds up to the report it draws, and no bar leaves its box.        *)
ChartsTellAll ==
    \A q \in Asking : UsageWindow(q).ok =>
        LET report == GetUsage(q) IN
        \A m \in Measures :
            LET points == FleetSeries(report, m) IN
            /\ FoldRight(LAMBDA p, n : p.value + n, points, 0)
                 = RowTotal(report, DOMAIN report)[m]
            /\ \A p \in Range(points) :
                 /\ p.value <= NiceMax(Peak(points))
                 /\ BarHeight(p.value, 40, NiceMax(Peak(points))) \in 1..40

(* From the log to the screen no figure is lost, doubled or put outside its  *)
(* window: the stores, the API, the command line and the charts agree with   *)
(* the events, and retention leaves the young ones alone.                    *)
UsageTold ==
    /\ [](WindowSelects /\ WindowExact /\ BackendsAgree /\ CliAccepted /\ CliBoundSorts
          /\ ChartsTellAll)
    /\ PruneKeepsYoung

=============================================================================
