---------------------------- MODULE PlaybackAnalytics ----------------------------
(***************************************************************************)
(* The append-only events of the players' beacons and the rollups made of      *)
(* them. Events have no foreign key: those of a purged video stay until they    *)
(* are pruned, and only what joins the videos leaves them out. Every rollup     *)
(* is a set of rows grouped and summed, as its SQL says.                       *)
(***************************************************************************)
EXTENDS Integers, FiniteSetsExt, Functions

CONSTANTS
  Watched,       (* videos                                                  *)
  Sessions,      (* one per page load                                       *)
  VisitorOf,     (* the browser a session is of, or the session itself when *)
                 (* its storage is blocked                                  *)
  Countries, NoCountry,   (* NoCountry: not resolved, stored as NULL         *)
  Beacons,       (* what a player may report: an event type and a position   *)
  NoPosition,
  DurationOf,    (* of each video, 0 when unknown                            *)
  SizePerSecond, (* of each video, what a second of it takes, in parts of a  *)
  ByteParts,     (* byte: ByteParts of them make one                         *)
  TopLimit, CountryLimit, (* rows a ranking stops after                      *)
  Buckets,       (* heatmapBuckets                                           *)
  MinSamples,    (* heatmapMinSamples                                        *)
  RetentionDays, TrendDays,
  MaxEvents, LastDay   (* bounds                                             *)

ASSUME AnalyticsAssumption ==
  /\ IsFiniteSet(Watched)
  /\ Beacons \subseteq [type : STRING, position : Int \cup {NoPosition}]
  /\ DurationOf \in [Watched -> Nat] /\ SizePerSecond \in [Watched -> Nat]
  /\ NoCountry \notin Countries
  /\ {TopLimit, CountryLimit, RetentionDays, TrendDays, MaxEvents, LastDay} \subseteq Nat
  /\ {ByteParts, Buckets, MinSamples} \subseteq Nat \ {0}

VARIABLES
  events,    (* playback_events; copy tells equal rows apart                *)
  videoRows, (* the videos that have a row                                  *)
  date

analyticsVars == <<events, videoRows, date>>

Always == -1

(* eventScope without its video.                                             *)
LibraryScope(videos, since) == {e \in events : e.day >= since}

(* eventScope: the library's rows, of one video or of all, since a day or of    *)
(* all time.                                                                  *)
EventScope(videos, since) == {e \in events : e.video \in videos /\ e.day >= since}

Starts(rows) == Cardinality({e \in rows : e.type = "start"})
DistinctViewers(rows) == Cardinality({VisitorOf[e.session] : e \in rows})

Positioned(rows) == {e \in rows : e.position # NoPosition}
HighWater(rows) == Max({e.position : e \in rows})

Smaller(a, b) == IF a < b THEN a ELSE b
Larger(a, b) == IF a < b THEN b ELSE a

(* watchAndBandwidth: per session and video, the furthest position; the join    *)
(* leaves out purged videos, and a video of unknown length counts no bytes. A    *)
(* position before the start is watch time all the same but counts no bytes;    *)
(* of the bytes of all, what is not a whole one is cut off.                     *)
WatchAndBandwidth(videos, since) ==
  LET rows == {e \in Positioned(EventScope(videos, since)) : e.video \in videoRows}
      groups == {<<e.session, e.video>> : e \in rows}
      MP == [g \in groups |-> HighWater({e \in rows : <<e.session, e.video>> = g})]
      est == [g \in groups |->
                SizePerSecond[g[2]] * Smaller(Larger(MP[g], 0), DurationOf[g[2]])]
  IN [watch |-> SumFunction(MP), plays |-> Cardinality(groups),
      bytes |-> SumFunction(est) \div ByteParts]

(* Rows go by their starts, then by their viewers; equals in any order.         *)
GoesBefore(a, b) == a.starts > b.starts \/ (a.starts = b.starts /\ a.sessions > b.sessions)

(* What a ranking of a table may hold that stops after some rows.              *)
FirstRows(table, limit) ==
  LET n == Smaller(limit, Cardinality(DOMAIN table))
  IN {Restrict(table, S) : S \in {S \in kSubset(n, DOMAIN table) :
        \A k \in S, j \in DOMAIN table \ S : ~GoesBefore(table[j], table[k])}}

(* countryBreakdown: no join, and its watch time is per session and country.    *)
CountryBreakdown(videos, since) ==
  LET OfCountry(c) == {e \in EventScope(videos, since) : e.country = c}
      WatchedFrom(c) ==
        LET rows == Positioned(OfCountry(c))
        IN SumFunction([s \in {e.session : e \in rows} |->
                         HighWater({e \in rows : e.session = s})])
      byCC == [c \in {e.country : e \in EventScope(videos, since)} \ {NoCountry} |->
                [starts |-> Starts(OfCountry(c)), sessions |-> DistinctViewers(OfCountry(c)),
                 watch |-> WatchedFrom(c)]]
  IN FirstRows(byCC, CountryLimit)

(* GetVideoAnalytics and GetLibraryAnalytics, for one video and for all.       *)
Analytics(videos, since) ==
  [sessions |-> DistinctViewers(EventScope(videos, since)),
   starts |-> Starts(EventScope(videos, since)),
   byCountry |-> CountryBreakdown(videos, since),
   played |-> WatchAndBandwidth(videos, since)]

TopVideos(since) ==
  LET byVideo == [v \in {e.video : e \in EventScope(Watched, since)} |->
                    [starts |-> Starts(EventScope({v}, since)),
                     sessions |-> DistinctViewers(EventScope({v}, since))]]
  IN FirstRows(byVideo, TopLimit)

(* The trend of a window without bound goes back TrendDays.                    *)
Daily(since) ==
  LET rows == EventScope(Watched, IF since = Always THEN date - TrendDays ELSE since)
  IN [d \in {e.day : e \in rows} |-> Starts({e \in rows : e.day = d})]

(* handleHeatmap and GetHeatmap, before the counts are divided by the largest;  *)
(* a position before the start is no sample.                                   *)
Samples(v) == {e \in Positioned(EventScope({v}, Always)) : e.position >= 0}

Heatmap(v) ==
  LET rows == Samples(v)
      BucketOf(e) == Smaller(Buckets - 1, (e.position * Buckets) \div DurationOf[v])
  IN IF v \notin videoRows \/ DurationOf[v] = 0 \/ Cardinality(rows) < MinSamples THEN {}
     ELSE {[b \in 0..Buckets - 1 |-> Cardinality({e \in rows : BucketOf(e) = b})]}

---------------------------------------------------------------------------
SameRow(e, row) == [e EXCEPT !.copy = row.copy] = row

(* handleBeacon: the row is inserted for whatever video the player names.       *)
InsertPlaybackEvent ==
  /\ Cardinality(events) < MaxEvents
  /\ \E v \in Watched, s \in Sessions, c \in Countries \cup {NoCountry}, b \in Beacons :
       LET row == [video |-> v, session |-> s, country |-> c, day |-> date,
                   type |-> b.type, position |-> b.position, copy |-> 0]
           before == Cardinality({e \in events : SameRow(e, row)})
       IN events' = events \cup {[row EXCEPT !.copy = before]}
  /\ UNCHANGED <<videoRows, date>>

PurgeVideo ==
  /\ \E v \in videoRows : videoRows' = videoRows \ {v}
  /\ UNCHANGED <<events, date>>

PrunePlaybackEvents ==
  /\ events' = {e \in events : e.day >= date - RetentionDays}
  /\ UNCHANGED <<videoRows, date>>

NextDate ==
  /\ date < LastDay /\ date' = date + 1
  /\ UNCHANGED <<events, videoRows>>

AnalyticsInit == events = {} /\ videoRows = Watched /\ date = 0

AnalyticsNext == InsertPlaybackEvent \/ PurgeVideo \/ PrunePlaybackEvents \/ NextDate

AnalyticsSpec == AnalyticsInit /\ [][AnalyticsNext]_analyticsVars

---------------------------------------------------------------------------
(* Properties.                                                               *)

Windows == {Always} \cup {e.day : e \in events}

StartsListed(table) == SumFunction([k \in DOMAIN table |-> table[k].starts])

(* The rollups agree with one another, in every window and whatever was purged: *)
(* the library's starts and watch time are the sums of its videos', its bytes    *)
(* too but for less than one byte a video, its viewers no more than theirs       *)
(* together; the trend adds up to the starts, and so does the ranking unless it   *)
(* is full of videos that were started; no country claims more starts, viewers    *)
(* or, of a video that is still there and was never played from before its        *)
(* start, watch time than there is; no session counts for more bytes than the     *)
(* video has (analytics.go).                                                   *)
RollupsAgree ==
  \A since \in Windows :
    LET all == Analytics(Watched, since)
        daily == Daily(since)
        of == [v \in Watched |-> Analytics({v}, since)]
        apart == SumFunction([v \in Watched |-> of[v].played.bytes])
    IN /\ all.starts = SumFunction([v \in Watched |-> of[v].starts])
       /\ all.played.watch = SumFunction([v \in Watched |-> of[v].played.watch])
       /\ apart <= all.played.bytes /\ all.played.bytes <= apart + Cardinality(Watched)
       /\ all.sessions <= SumFunction([v \in Watched |-> of[v].sessions])
       /\ since # Always => all.starts = SumFunction(daily)
       /\ \A top \in TopVideos(since) :
            /\ \A v \in DOMAIN top : top[v].starts = of[v].starts
            /\ StartsListed(top) <= all.starts
            /\ StartsListed(top) < all.starts =>
                 Cardinality(DOMAIN top) = TopLimit /\ \A v \in DOMAIN top : top[v].starts > 0
       /\ \A v \in Watched :
            LET mine == Analytics({v}, since)
            IN /\ mine.played.bytes * ByteParts
                    <= mine.played.plays * (SizePerSecond[v] * DurationOf[v])
               /\ \A countries \in mine.byCountry :
                    /\ StartsListed(countries) <= mine.starts
                    /\ \A c \in DOMAIN countries :
                         /\ countries[c].sessions <= mine.sessions
                         /\ v \in videoRows
                              /\ (\A e \in Positioned(EventScope({v}, since)) : e.position >= 0)
                              => countries[c].watch <= mine.played.watch

(* A heatmap, once there are samples enough, holds every one of them.          *)
HeatmapHoldsAll ==
  \A v \in Watched : \A h \in Heatmap(v) :
    /\ \E b \in DOMAIN h : h[b] > 0
    /\ SumFunction(h) = Cardinality(Samples(v))

AnalyticsAddUp == RollupsAgree /\ HeatmapHoldsAll
=============================================================================
