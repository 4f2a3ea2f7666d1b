------------------------------ MODULE Reports ------------------------------
(***************************************************************************)
(* Reading the records (api/ledger_routes.py, api/ledger_schemas.py,       *)
(* api/audit_routes.py, SqlLedgerRepository, SqlAuditRepository): a client *)
(* walks the ledger page by page, walks the audit log by time, or draws    *)
(* up spend reports, while requests and changes go on being recorded.      *)
(***************************************************************************)
EXTENDS Ledger, Sequences, FiniteSetsExt

CONSTANTS
    Queries,     \* LedgerQuery: the filters a client may send
    Limits,      \* page sizes
    Accounting,  \* what a report is asked for: queries that adjoin, their union, a grouping
    Size,        \* per interval, the length of a bucket
    MaxBuckets   \* MAX_BUCKETS

VARIABLES
    walk,    \* a walk of GET /admin/requests
    review,  \* a walk of GET /admin/audit
    report   \* GET /admin/spend twice, then GET /admin/spend/timeseries

readVars == <<walk, review, report>>

GroupBy == {"team", "model", "provider", "key"}

Filters == {"team", "provider", "model", "key", "outcome"}

\* Two ranges that adjoin and the range of both, with the same filters.
Adjoining(q) ==
    /\ q[1].start = q[3].start /\ q[1].end = q[2].start /\ q[2].end = q[3].end
    /\ \A i \in 1 .. 3 :
          /\ q[i].start \in Nat /\ q[i].end \in Nat
          /\ \A f \in Filters : q[i][f] = q[3][f]

ASSUME ReportsAssumption ==
    /\ Limits \subseteq Nat \ {0}
    /\ \A i \in DOMAIN Size : Size[i] \in Nat \ {0}
    /\ MaxBuckets \in [DOMAIN Size -> Nat]
    /\ None \notin [at : Nat, id : Nat]
    /\ \A a \in Accounting : Adjoining(a.queries) /\ a.interval \in DOMAIN Size

-----------------------------------------------------------------------------
(* LedgerQuery and SqlLedgerRepository. *)

\* A query whose start is not before its end is answered with 422.
StartBeforeEnd(q) == q.start = None \/ q.end = None \/ q.start < q.end

\* Mutant of Filtered: the end is inclusive.
FilteredThrough(rows, q) ==
    {r \in rows :
        /\ q.start = None \/ r.at >= q.start
        /\ q.end = None \/ r.at <= q.end
        /\ \A f \in Filters : q[f] = None \/ r[f] = q[f]}

Filtered(rows, q) ==
    {r \in rows :
        /\ q.start = None \/ r.at >= q.start
        /\ q.end = None \/ r.at < q.end
        /\ \A f \in Filters : q[f] = None \/ r[f] = q[f]}

Newer(a, b) == a.at > b.at \/ (a.at = b.at /\ a.id > b.id)

\* The first `limit` of the rows, newest first.
Newest(rows, limit) == {r \in rows : Cardinality({s \in rows : Newer(s, r)}) < limit}

Last(page) == CHOOSE r \in page : \A s \in page : s = r \/ Newer(s, r)

\* Mutant of Page: the cursor's time alone decides.
PageByTime(q, limit, after) ==
    Newest({r \in Filtered(ledger, q) : after = None \/ r.at < after.at}, limit)

\* `page`: the rows after a cursor.
Page(q, limit, after) ==
    Newest({r \in Filtered(ledger, q) : after = None \/ Newer(after, r)}, limit)

\* encode_cursor keeps the time and the id of a row; decode_cursor gives them back.
Cursor(row) == [at |-> row.at, id |-> row.id]

\* RequestPage.of, of limit + 1 entries.
Shown(entries, limit) == Newest(entries, limit)
NextCursor(entries, limit) ==
    IF Cardinality(entries) > limit THEN Cursor(Last(Shown(entries, limit))) ELSE None

-----------------------------------------------------------------------------
(* _metrics: the sums over a group of rows, a cost that is NULL left out. *)
MetricFields == {"requests", "input", "output", "cache_read", "cache_write", "cost", "unpriced",
                 "errors"}

MetricOf(row) ==
    [requests |-> 1, input |-> row.usage.input, output |-> row.usage.output,
     cache_read |-> row.usage.cache_read,
     cache_write |-> row.usage.cache_write + row.usage.cache_write_1h,
     cost |-> IF row.cost = None THEN 0 ELSE row.cost,
     unpriced |-> IF row.cost = None THEN 1 ELSE 0,
     errors |-> IF row.outcome # "success" THEN 1 ELSE 0]

Summed(measure) ==
    [f \in MetricFields |-> SumFunction([x \in DOMAIN measure |-> measure[x][f]])]

Metrics(rows) == Summed([r \in rows |-> MetricOf(r)])

\* _bucket: the UTC start of the hour or day of a row.
Bucket(row, interval) == row.at - (row.at % Size[interval])

\* `spend`, and the total Metrics.total puts over its groups.
Spend(group_by, q) ==
    LET rows == Filtered(ledger, q)
    IN  {[group |-> g, metrics |-> Metrics({r \in rows : r[group_by] = g})] :
            g \in {r[group_by] : r \in rows}}

Total(groups) == Summed([g \in groups |-> g.metrics])

\* `timeseries`, in groups or not (None).
Timeseries(interval, group_by, q) ==
    LET key(r) == <<Bucket(r, interval), IF group_by = None THEN None ELSE r[group_by]>>
        rows == Filtered(ledger, q)
    IN  {[bucket |-> k[1], group |-> k[2], metrics |-> Metrics({r \in rows : key(r) = k})] :
            k \in {key(r) : r \in rows}}

\* TimeseriesQuery, or 422.
Bounded(q, interval) == q.end - q.start <= MaxBuckets[interval] * Size[interval]

-----------------------------------------------------------------------------
(* The client, who does one of these things: reading changes nothing. *)
ReadInit ==
    /\ walk = [pc |-> "idle"] /\ review = [pc |-> "idle"] /\ report = [pc |-> "idle"]

Unread == walk.pc = "idle" /\ review.pc = "idle" /\ report.pc = "idle"

\* GET /admin/requests without a cursor, then with each next_cursor until there is none.
\* `base` remembers what there was to see at first.
StartWalk ==
    /\ Unread
    /\ \E q \in Queries, limit \in Limits :
        walk' = IF StartBeforeEnd(q)
                THEN [pc |-> "walking", query |-> q, limit |-> limit, cursor |-> None,
                      pages |-> <<>>, base |-> Filtered(ledger, q)]
                ELSE [pc |-> "refused"]
    /\ UNCHANGED <<review, report>>

requests ==
    /\ walk.pc = "walking"
    /\ LET entries == Page(walk.query, walk.limit + 1, walk.cursor)
           cursor == NextCursor(entries, walk.limit)
       IN  walk' = [walk EXCEPT !.pages = Append(@, Shown(entries, walk.limit)),
                                !.cursor = cursor,
                                !.pc = IF cursor = None THEN "walked" ELSE "walking"]
    /\ UNCHANGED <<review, report>>

Asked(events, before, action) ==
    {e \in events : (before = None \/ e.at < before) /\ (action = None \/ e.action = action)}

\* Mutant of Recent: the oldest first.
RecentOldest(limit, before, action) ==
    LET events == Asked(audit_log, before, action)
    IN  {e \in events : Cardinality({d \in events : Newer(e, d)}) < limit}

\* `recent`: the newest events before a time.
Recent(limit, before, action) == Newest(Asked(audit_log, before, action), limit)

\* "Page with `before` = the `created_at` of the last event you received", until a page is
\* not full.
StartReview ==
    /\ Unread
    /\ \E limit \in Limits, action \in {None, "key.created"} :
        review' = [pc |-> "reviewing", limit |-> limit, action |-> action, before |-> None,
                   pages |-> <<>>, base |-> Asked(audit_log, None, action)]
    /\ UNCHANGED <<walk, report>>

list_audit_events ==
    /\ review.pc = "reviewing"
    /\ LET page == Recent(review.limit, review.before, review.action)
           full == Cardinality(page) = review.limit
       IN  review' = [review EXCEPT !.pages = Append(@, page),
                                    !.before = IF full THEN Last(page).at ELSE @,
                                    !.pc = IF full THEN "reviewing" ELSE "reviewed"]
    /\ UNCHANGED <<walk, report>>

\* Two spend reports of adjoining ranges, then the time series of both; a range that is empty
\* or too long is answered with 422.
StartReport ==
    /\ Unread
    /\ \E asked \in Accounting :
        report' = [pc |-> "spend", asked |-> asked, sums |-> <<>>, points |-> {},
                   base |-> Cardinality(ledger), quiet |-> FALSE]
    /\ UNCHANGED <<walk, review>>

spend ==
    /\ report.pc = "spend"
    /\ LET query == report.asked.queries[Len(report.sums) + 1]
       IN  report' = IF StartBeforeEnd(query)
                     THEN [report EXCEPT
                             !.sums = Append(@, Total(Spend(report.asked.group_by, query))),
                             !.pc = IF report.sums = <<>> THEN "spend" ELSE "timeseries"]
                     ELSE [pc |-> "refused"]
    /\ UNCHANGED <<walk, review>>

spend_timeseries ==
    /\ report.pc = "timeseries"
    /\ LET query == report.asked.queries[3]
           interval == report.asked.interval
           points == Timeseries(interval, report.asked.split, query)
       IN  report' = IF StartBeforeEnd(query) /\ Bounded(query, interval)
                     THEN [report EXCEPT !.pc = "reported", !.sums = Append(@, Total(points)),
                                         !.points = {p.bucket : p \in points},
                                         !.quiet = Cardinality(ledger) = report.base]
                     ELSE [pc |-> "refused"]
    /\ UNCHANGED <<walk, review>>

Read ==
    \/ StartWalk \/ requests
    \/ StartReview \/ list_audit_events
    \/ StartReport \/ spend \/ spend_timeseries

ReadTypeOK ==
    /\ walk.pc \in {"idle", "walking", "walked", "refused"}
    /\ review.pc \in {"idle", "reviewing", "reviewed"}
    /\ report.pc \in {"idle", "spend", "timeseries", "reported", "refused"}
    /\ walk.pc = "walking" => (walk.cursor = None <=> walk.pages = <<>>)

-----------------------------------------------------------------------------
\* "Ledger entries, newest first" (README.md:136): no row is shown twice or out of order,
\* whatever is committed between two pages and however old it is, and a walk that ended has
\* shown every row that was there when it began.
WalkWhole ==
    /\ walk.pc \in {"walking", "walked"} =>
          \A i, j \in DOMAIN walk.pages : i < j =>
             \A a \in walk.pages[i], b \in walk.pages[j] : Newer(a, b)
    /\ walk.pc = "walked" => walk.base \subseteq UNION {walk.pages[i] : i \in DOMAIN walk.pages}

\* A review of the audit log shows no event twice; of the events there were at its start it
\* misses only those stamped at the instant of the last event of a page (audit_routes.py:49).
ReviewMissesOnlyTies ==
    /\ review.pc \in {"reviewing", "reviewed"} =>
          \A i, j \in DOMAIN review.pages : i < j =>
             \A a \in review.pages[i], b \in review.pages[j] : a.at > b.at
    /\ review.pc = "reviewed" =>
          \A e \in review.base \ UNION {review.pages[i] : i \in DOMAIN review.pages} :
             \E i \in DOMAIN review.pages :
                review.pages[i] # {} /\ Last(review.pages[i]).at = e.at

\* The totals of two reports over adjoining ranges add up to those of the time series over
\* both, exactly if nothing was committed meanwhile and to no more otherwise; and a series has
\* at most one bucket more than its bound.
ReportsAddUp ==
    report.pc = "reported" =>
        /\ \A f \in MetricFields :
              LET parts == report.sums[1][f] + report.sums[2][f]
              IN  /\ parts <= report.sums[3][f]
                  /\ report.quiet => parts = report.sums[3][f]
        /\ Cardinality(report.points) <= MaxBuckets[report.asked.interval] + 1
=============================================================================
