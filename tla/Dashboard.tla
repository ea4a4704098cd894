----------------------------- MODULE Dashboard -----------------------------
(***************************************************************************)
(* The dashboard's figures (analytics.service.ts), computed from the       *)
(* reviews and outlets as they are at one moment, and the list of reviews  *)
(* they lead to (findAll in review.service.ts).  Each figure has a query   *)
(* of its own, which filters deleted reviews, outlets and complaint states *)
(* by itself; the properties say how the figures must fit together.        *)
(*                                                                         *)
(* The unit of time stands for a millisecond and for a quarter of an hour: *)
(* windows end one unit before the next begins, and Indian time is 22      *)
(* units (five and a half hours) ahead of UTC.  Ratings are in tenths.     *)
(***************************************************************************)
EXTENDS Integers, Sequences, FiniteSets, SequencesExt, FiniteSetsExt

CONSTANTS
  Outlet,        \* the outlets
  Hidden,        \* outlets of a type in HIDDEN_OUTLET_TYPE_IDS
  Rating,        \* the overall ratings given
  Instants,      \* the moments at which something happens
  ReviewLimit,   \* bound: reviews stored
  ShutLimit      \* bound: outlets deleted

Hour == 4
Day == 24 * Hour
India == 22

Status == {"pending", "resolved", "dismissed"}

\* resolvedAt 0: not resolved.
ReviewDoc == [at : Instants, outlet : Outlet, rating : Rating, complaint : BOOLEAN,
              status : Status, resolvedAt : Instants \cup {0}, deleted : BOOLEAN]

VARIABLES
  now,        \* the moment
  posted,     \* the stored reviews
  shut        \* the soft-deleted outlets

vars == <<now, posted, shut>>

TypeOK ==
  /\ now \in Instants
  /\ posted \in Seq(ReviewDoc) /\ Len(posted) <= ReviewLimit
  /\ shut \subseteq Outlet

Init == now = Min(Instants) /\ posted = <<>> /\ shut = {}

Post(o, rating, complaint) ==
  /\ Len(posted) < ReviewLimit
  /\ posted' = Append(posted, [at |-> now, outlet |-> o, rating |-> rating,
                               complaint |-> complaint, status |-> "pending",
                               resolvedAt |-> 0, deleted |-> FALSE])
  /\ UNCHANGED <<now, shut>>

\* resolveComplaint does not ask for a complaint.  A status is set once here;
\* Reviews.tla has the repeated ones.
Resolve(n, status) ==
  /\ n \in DOMAIN posted /\ ~posted[n].deleted /\ posted[n].resolvedAt = 0
  /\ posted' = [posted EXCEPT ![n].status = status, ![n].resolvedAt = now]
  /\ UNCHANGED <<now, shut>>

Delete(n) ==
  /\ n \in DOMAIN posted /\ ~posted[n].deleted
  /\ posted' = [posted EXCEPT ![n].deleted = TRUE]
  /\ UNCHANGED <<now, shut>>

Shut(o) ==
  /\ o \notin shut /\ Cardinality(shut) < ShutLimit
  /\ shut' = shut \cup {o} /\ UNCHANGED <<now, posted>>

TimePasses(t) == t > now /\ now' = t /\ UNCHANGED <<posted, shut>>

----------------------------------------------------------------------------
(* Filters.                                                                *)

Always == [from |-> 0, to |-> Max(Instants)]

In(t, range) == t \in range.from..range.to

Live == {n \in DOMAIN posted : ~posted[n].deleted}

\* buildUnresolvedComplaintStatusMatch names the statuses that are not open,
\* the list's buildOpenComplaintMatch the one that is.
Unresolved(status) == status \notin {"resolved", "dismissed"}

\* buildOpenComplaintReviewMatch and buildOpenCriticalReviewMatch: 'extra' is
\* the bound of the rating, 51 when there is none.
OpenComplaints(range, extra) ==
  {n \in Live : /\ posted[n].complaint /\ Unresolved(posted[n].status)
                /\ In(posted[n].at, range) /\ posted[n].rating < extra}

OpenCritical(range) == OpenComplaints(range, 20)

CriticalAt(o, range) == Cardinality({n \in OpenCritical(range) : posted[n].outlet = o})

\* Outlets the dashboard shows.
Shown == Outlet \ (shut \cup Hidden)

OfShown(set) == {n \in set : posted[n].outlet \in Shown}

\* findAll of reviews, for the list behind the figures.
ListOf(severity) ==
  {n \in OfShown(Live) :
     /\ posted[n].complaint /\ posted[n].status = "pending"
     /\ severity = "critical" => posted[n].rating < 20
     /\ severity = "concern" => posted[n].rating >= 20 /\ posted[n].rating < 35}

----------------------------------------------------------------------------
(* The figures.                                                            *)

DayStart(t) == t - (t % Day)

\* resolveAnalyticsRange for a preset of 1, 7 or 30 days.
RangeOf(days) == [from |-> DayStart(now - (days - 1) * Day), to |-> now]

\* getIncidentsOverview.
TotalOpenIncidents(range) == Cardinality(OfShown(OpenComplaints(range, 51)))

CriticalIssues(range) == Cardinality(OfShown(OpenCritical(range)))

ResolvedToday ==
  Cardinality({n \in OfShown(Live) :
     /\ posted[n].complaint /\ posted[n].status = "resolved"
     /\ In(posted[n].resolvedAt, [from |-> DayStart(now), to |-> DayStart(now) + Day - 1])})

\* getOutletFeedbackSummary, for an outlet that is not deleted.
TotalFeedbacks(o, range) ==
  Cardinality({n \in OpenComplaints(range, 51) : posted[n].outlet = o})

NegativeFeedbacks(o, range) ==
  Cardinality({n \in OpenComplaints(range, 25) : posted[n].outlet = o})

ResolvedFeedbacks(o, range) ==
  Cardinality({n \in Live : /\ posted[n].outlet = o /\ posted[n].complaint
                            /\ posted[n].status = "resolved"
                            /\ In(posted[n].resolvedAt, range)})

\* Averages as a pair <<sum, count>>, and rounded to a tenth.
Avg(set) == <<FoldSet(LAMBDA n, sum : posted[n].rating + sum, 0, set), Cardinality(set)>>

Tenths(avg) == IF avg[2] = 0 THEN 0 ELSE (2 * avg[1] + avg[2]) \div (2 * avg[2])

\* The same by the database's $round, which sends halves to the even tenth.
EvenTenths(avg) ==
  IF /\ avg[2] # 0 /\ (2 * avg[1] + avg[2]) % (2 * avg[2]) = 0
     /\ Tenths(avg) % 2 = 1
    THEN Tenths(avg) - 1
    ELSE Tenths(avg)

\* getGlobalCsat: deleted outlets count too.
GlobalCsat(range) == Tenths(Avg({n \in Live : In(posted[n].at, range)}))

\* getFranchiseAnalytics: the outlets with reviews as the aggregation found
\* them, the others with zero, best first.  (CHOOSE: equals in some order.)
AvgOf(o, range) == Avg({n \in Live : posted[n].outlet = o /\ In(posted[n].at, range)})

CsatOf(o, range) == EvenTenths(AvgOf(o, range))

AllOutlets(range) == Shown

FranchiseRanking(range) ==
  CHOOSE ranking \in SetToSeqs(AllOutlets(range)) :
    \A i, j \in DOMAIN ranking :
      i < j => CsatOf(ranking[i], range) >= CsatOf(ranking[j], range)

\* getTrendlineConfig: the two windows of a period and the number of buckets.
TrendWindows(days) ==
  LET current == RangeOf(days) IN
  IF days = 1
    THEN [current |-> current, buckets |-> 6,
          previous |-> [from |-> current.from - Day, to |-> now - Day]]
    ELSE [current |-> current, buckets |-> IF days = 7 THEN 7 ELSE 6,
          previous |-> [from |-> DayStart(current.from - 1 - (days - 1) * Day),
                        to |-> current.from - 1]]

\* aggregateTrendlineWindow: the bucket of a moment.  Without the $min the
\* last moment of the window has a bucket of its own, and is dropped.
LastDropped(t, window, buckets) ==
  ((t - window.from) * buckets) \div Max({buckets, window.to - window.from})

BucketOf(t, window, buckets) ==
  Min({buckets - 1, ((t - window.from) * buckets) \div Max({buckets, window.to - window.from})})

Bucket(window, buckets, i) ==
  {n \in Live : In(posted[n].at, window) /\ BucketOf(posted[n].at, window, buckets) = i}

TrendTotal(window, buckets) ==
  MapThenSumSet(LAMBDA i : Cardinality(Bucket(window, buckets, i)), 0..buckets - 1)

\* getPeakIncidentTime: incidents by windows of three hours, Indian time, of
\* all outlets.
WindowOf(t) == (((t + India) \div Hour) % 24) \div 3

IncidentsIn(w, range) == {n \in OpenComplaints(range, 25) : WindowOf(posted[n].at) = w}

Better(a, b) == a > b

\* The reduce over the windows found.
PeakWindow(range) ==
  FoldSet(LAMBDA w, best : IF best = -1 \/ Better(Cardinality(IncidentsIn(w, range)),
                                                  Cardinality(IncidentsIn(best, range)))
                             THEN w ELSE best,
          -1, {w \in 0..7 : IncidentsIn(w, range) # {}})

\* getCriticalFocusArea: an outlet with the most open critical reviews, of all
\* outlets.
FocusArea(range) ==
  FoldSet(LAMBDA o, best : IF best = {} \/ \E b \in best : Better(CriticalAt(o, range), CriticalAt(b, range))
                             THEN {o} ELSE best,
          {}, {o \in Outlet : CriticalAt(o, range) > 0})

\* getMostImprovedOutlet: the range, and one of the same length before it;
\* the current average decides between equals.
Improvement(o, range) ==
  LET length == range.to - range.from
      before == [from |-> range.from - 1 - length, to |-> range.from - 1]
      cur == AvgOf(o, range)
      old == AvgOf(o, before)
      d == IF old[2] = 0 THEN 1 ELSE old[2] IN
  Tenths(<<cur[1] * d - old[1] * cur[2], cur[2] * d>>)

Improved(o, p, range) ==
  \/ Better(Improvement(o, range), Improvement(p, range))
  \/ Improvement(o, range) = Improvement(p, range) /\ Tenths(AvgOf(o, range)) > Tenths(AvgOf(p, range))

MostImproved(range) ==
  FoldSet(LAMBDA o, best : IF best = {} \/ \E b \in best : Improved(o, b, range) THEN {o} ELSE best,
          {}, {posted[n].outlet : n \in {m \in Live : In(posted[m].at, range)}})

QuickInsights(range) ==
  [peak |-> PeakWindow(range), improved |-> MostImproved(range), focus |-> FocusArea(range)]

Next ==
  \/ \E o \in Outlet, r \in Rating, c \in BOOLEAN : Post(o, r, c)
  \/ \E n \in 1..ReviewLimit : Delete(n) \/ \E s \in {"resolved", "dismissed"} : Resolve(n, s)
  \/ \E o \in Outlet : Shut(o)
  \/ \E t \in Instants : TimePasses(t)

Spec == Init /\ [][Next]_vars

----------------------------------------------------------------------------
(* Properties.                                                             *)

Periods == {1, 7, 30}

\* The figure and the list it leads to show the same reviews: the open
\* incidents are as many as the open complaints on the list, the critical
\* ones as many as the list's severity 'critical', although the two services
\* write the statuses and the outlets down separately.
OverviewMatchesList ==
  /\ TotalOpenIncidents(Always) = Cardinality(ListOf("any"))
  /\ CriticalIssues(Always) = Cardinality(ListOf("critical"))
  /\ ListOf("critical") \cap ListOf("concern") = {}

\* The feedback of the outlets shown, taken together.
OpenOfShown(range) == MapThenSumSet(LAMBDA o : TotalFeedbacks(o, range), Shown)

ResolvedOfShown(range) == MapThenSumSet(LAMBDA o : ResolvedFeedbacks(o, range), Shown)

\* The open incidents are those of the outlets shown, taken together; of an
\* outlet's, the negative ones are a part, and the critical ones a part of
\* these; none is resolved as well.
FeedbackAddsUp ==
  \A days \in Periods :
    LET range == RangeOf(days) IN
    /\ TotalOpenIncidents(range) = OpenOfShown(range)
    /\ \A o \in Shown :
         /\ CriticalAt(o, range) <= NegativeFeedbacks(o, range)
         /\ NegativeFeedbacks(o, range) <= TotalFeedbacks(o, range)
         /\ TotalFeedbacks(o, range) + ResolvedFeedbacks(o, range)
              <= Cardinality({n \in Live : posted[n].outlet = o})
    /\ ResolvedToday <= ResolvedOfShown(Always)

\* Every outlet shown has exactly one place in the ranking, whether it has
\* reviews or not, and none is placed above a better one.  The global score,
\* which counts deleted and hidden outlets too, is neither below the worst
\* outlet nor, but for the two ways of rounding a half, above the best.
RankingWhole ==
  \A days \in Periods :
    LET ranking == FranchiseRanking(RangeOf(days)) IN
    /\ Range(ranking) = Shown /\ IsInjective(ranking)
    /\ \A i, j \in DOMAIN ranking :
         i < j => CsatOf(ranking[i], RangeOf(days)) >= CsatOf(ranking[j], RangeOf(days))
    /\ LET scores == {CsatOf(posted[n].outlet, RangeOf(days)) :
                        n \in {m \in Live : In(posted[m].at, RangeOf(days))}} IN
       scores # {} => GlobalCsat(RangeOf(days)) \in Min(scores)..Max(scores) + 1

\* A review of the two windows is in exactly one bucket of one of them, the
\* ones at the very ends included, and the windows leave no moment out (but
\* for 'daily', which compares a part of today with the same part of
\* yesterday).
TrendAddsUp ==
  \A days \in Periods :
    LET w == TrendWindows(days)
        counted == TrendTotal(w.current, w.buckets) + TrendTotal(w.previous, w.buckets) IN
    counted = Cardinality({n \in Live :
                 /\ posted[n].at >= w.previous.from
                 /\ days = 1 => In(posted[n].at, w.current) \/ In(posted[n].at, w.previous)})

\* The insights are what they say: the peak window has the most incidents of
\* the range, the focus area the most critical ones, and no outlet outdid the
\* most improved one.
InsightsAreExtreme ==
  \A days \in Periods :
    LET range == RangeOf(days)
        found == QuickInsights(range) IN
    /\ \A w \in 0..7 : IncidentsIn(w, range) # {} =>
         Cardinality(IncidentsIn(w, range)) <= Cardinality(IncidentsIn(found.peak, range))
    /\ \A o \in Outlet : CriticalAt(o, range) > 0 =>
         \E b \in found.focus : CriticalAt(o, range) <= CriticalAt(b, range)
    /\ \A b \in found.improved, n \in Live :
         In(posted[n].at, range) =>
           Improvement(posted[n].outlet, range) <= Improvement(b, range)

============================================================================
