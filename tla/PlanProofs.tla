------------------------------ MODULE PlanProofs ------------------------------
(***************************************************************************)
(* Proofs about what the pipeline plans and computes for a video, for any      *)
(* source, edit, settings, playlists, caption track and proposed chapters.    *)
(***************************************************************************)
EXTENDS EncodePlan, MasterPlaylist, Transcript, DataLemmas

-----------------------------------------------------------------------------
(* The numbers of a finite set in order. *)

Lower(S, r) == {m \in S : m < r}

LEMMA LowerGrows ==
  ASSUME NEW S \in SUBSET Nat, IsFiniteSet(S), NEW r \in S
  PROVE  /\ Cardinality(Lower(S, r)) \in 0..(Cardinality(S) - 1)
         /\ \A s \in S : r < s => Cardinality(Lower(S, r)) < Cardinality(Lower(S, s))
<1>1. IsFiniteSet(Lower(S, r)) /\ Cardinality(Lower(S, r)) \in Nat
  BY FS_Subset, FS_CardinalityType DEF Lower
<1>2. /\ IsFiniteSet(Lower(S, r) \cup {r})
      /\ Cardinality(Lower(S, r) \cup {r}) = Cardinality(Lower(S, r)) + 1
  <2>1. r \notin Lower(S, r)
    BY DEF Lower
  <2> QED BY <1>1, <2>1, FS_AddElement
<1>3. ASSUME NEW T \in SUBSET S, Lower(S, r) \cup {r} \subseteq T
      PROVE  Cardinality(Lower(S, r)) < Cardinality(T) /\ Cardinality(T) \in Nat
  <2>1. IsFiniteSet(T)
    BY FS_Subset
  <2>2. Cardinality(Lower(S, r) \cup {r}) <= Cardinality(T)
    BY <1>3, <2>1, FS_Subset
  <2> QED BY <1>1, <1>2, <2>1, <2>2, FS_CardinalityType
<1>4. Lower(S, r) \cup {r} \subseteq S
  BY DEF Lower
<1>5. Cardinality(Lower(S, r)) < Cardinality(S) /\ Cardinality(S) \in Nat
  BY <1>3, <1>4
<1>6. ASSUME NEW s \in S, r < s
      PROVE  Cardinality(Lower(S, r)) < Cardinality(Lower(S, s))
  <2>1. Lower(S, s) \in SUBSET S /\ Lower(S, r) \cup {r} \subseteq Lower(S, s)
    <3>1. ASSUME NEW m \in S, m < r PROVE m < s
      <4>1. m \in Nat /\ r \in Nat /\ s \in Nat
        OBVIOUS
      <4> QED BY <1>6, <3>1, <4>1
    <3> QED BY <1>6, <3>1 DEF Lower
  <2> QED BY <1>3, <2>1
<1> QED BY <1>1, <1>5, <1>6

LEMMA NthExists ==
  ASSUME NEW S \in SUBSET Nat, IsFiniteSet(S), NEW i \in 1..Cardinality(S)
  PROVE  \E r \in S : Cardinality(Lower(S, r)) = i - 1
<1> DEFINE T == 0..(Cardinality(S) - 1)
           f == [r \in S |-> Cardinality(Lower(S, r))]
<1>1. Cardinality(S) \in Nat
  BY FS_CardinalityType
<1>2. IsFiniteSet(T) /\ Cardinality(T) = Cardinality(S)
  <2>1. 0 \in Int /\ Cardinality(S) - 1 \in Int /\ 0 <= Cardinality(S) - 1
    BY <1>1
  <2> QED BY <1>1, <2>1, FS_Interval
<1>3. f \in [S -> T]
  BY LowerGrows
<1>4. ASSUME NEW r \in S, NEW s \in S, f[r] = f[s] PROVE r = s
  <2>1. r \in Nat /\ s \in Nat
    OBVIOUS
  <2>2. f[r] \in Nat /\ f[s] \in Nat
    BY <1>1, <1>3
  <2>3. r < s => f[r] < f[s]
    BY LowerGrows
  <2>4. s < r => f[s] < f[r]
    BY LowerGrows
  <2> QED BY <1>4, <2>1, <2>2, <2>3, <2>4
<1>5. f \in Injection(S, T)
  <2> HIDE DEF f, T
  <2> QED BY <1>3, <1>4 DEF Injection, IsInjective
<1>6. f \in Surjection(S, T)
  <2> HIDE DEF f, T
  <2> QED BY <1>2, <1>5, FS_Injection
<1>7. \A t \in T : \E r \in S : f[r] = t
  <2> HIDE DEF f, T
  <2> QED BY <1>6 DEF Surjection
<1>8. i - 1 \in T
  BY <1>1
<1> QED BY <1>7, <1>8

LEMMA AscendingSorts ==
  ASSUME NEW S \in SUBSET Nat, IsFiniteSet(S)
  PROVE  /\ Cardinality(S) \in Nat
         /\ Ascending(S) \in [1..Cardinality(S) -> S]
         /\ Ascending(S) \in Seq(S) /\ Len(Ascending(S)) = Cardinality(S)
         /\ \A i, j \in 1..Cardinality(S) : i < j => Ascending(S)[i] < Ascending(S)[j]
         /\ \A r \in S : \E i \in 1..Cardinality(S) : Ascending(S)[i] = r
<1> DEFINE n == Cardinality(S)
           a == Ascending(S)
           low == [r \in S |-> Cardinality(Lower(S, r))]
<1>1. n \in Nat
  BY FS_CardinalityType
<1>2. \A i \in 1..n : a[i] = Nth(S, i)
  BY DEF Ascending
<1>3. \A i \in 1..n : a[i] \in S /\ low[a[i]] = i - 1
  <2> TAKE i \in 1..n
  <2>1. \E r \in S : Cardinality(Lower(S, r)) = i - 1
    BY NthExists
  <2>2. Nth(S, i) \in S /\ Cardinality(Lower(S, Nth(S, i))) = i - 1
    BY <2>1 DEF Nth, Lower
  <2> QED BY <1>2, <2>2
<1>4. a \in [1..n -> S]
  BY <1>3 DEF Ascending
<1> HIDE DEF a, n
<1>5. a \in Seq(S) /\ Len(a) = n
  BY <1>1, <1>4
<1>6. /\ low \in [S -> 0..(n - 1)]
      /\ \A r \in S : \A s \in S : r < s => low[r] < low[s]
  BY LowerGrows DEF n
<1> HIDE DEF low
<1>7. ASSUME NEW i \in 1..n, NEW j \in 1..n, i < j PROVE a[i] < a[j]
  <2>1. a[i] \in S /\ a[j] \in S /\ low[a[i]] = i - 1 /\ low[a[j]] = j - 1
    BY <1>3
  <2>2. a[j] < a[i] => low[a[j]] < low[a[i]]
    BY <1>6, <2>1
  <2>3. a[j] = a[i] => low[a[j]] = low[a[i]]
    OBVIOUS
  <2>4. i - 1 < j - 1 /\ ~(j - 1 < i - 1) /\ j - 1 # i - 1
    BY <1>1, <1>7
  <2>5. a[i] \in Nat /\ a[j] \in Nat
    BY <2>1
  <2> QED BY <2>1, <2>2, <2>3, <2>4, <2>5
<1>8. ASSUME NEW r \in S PROVE \E i \in 1..n : a[i] = r
  <2>1. low[r] \in 0..(n - 1)
    BY <1>6
  <2>2. PICK i \in 1..n : i = low[r] + 1
    BY <1>1, <2>1
  <2>3. a[i] \in S /\ low[a[i]] = low[r]
    BY <1>3, <2>1, <2>2
  <2>4. ~(a[i] < r) /\ ~(r < a[i])
    <3>1. a[i] < r => low[a[i]] < low[r]
      BY <1>6, <2>3
    <3>2. r < a[i] => low[r] < low[a[i]]
      BY <1>6, <2>3
    <3>3. ~(low[r] < low[r])
      BY <1>1, <2>1
    <3> QED BY <2>3, <3>1, <3>2, <3>3
  <2>5. a[i] \in Nat /\ r \in Nat
    BY <2>3
  <2> QED BY <2>4, <2>5
<1> QED BY <1>1, <1>4, <1>5, <1>7, <1>8 DEF a, n

-----------------------------------------------------------------------------
(* What a video and its builds are, once planned: nothing but functions of     *)
(* what was asked.                                                            *)

EditKept == IF IsIdentity(asked.edit) THEN NoEdit ELSE Normalize(asked.edit)
Input == Prepared(Source(asked), EditKept)
SecondsKept == DurationSeconds(Input.file, Input.edit)
FrameKept == EditedDimensions(asked.width, asked.height, EditKept)

H264Plan == BuildHLS(asked, Input.file, Input.edit, SecondsKept, FALSE)
MP4Plan == BuildMP4Fallback(asked, Input.file, Input.edit)
CodecPlan == BuildCodec(asked, Input.file, Input.edit)
EncryptedPlan == BuildHLS(asked, Source(asked), NoEdit, asked.halves \div 2, TRUE)

RowRecords == [there : BOOLEAN, edit : {NoEdit, EditKept}, seconds : {0, SecondsKept},
               frame : {<<0, 0>>, FrameKept}]

EncodeInv ==
  /\ asked \in Asked
  /\ row \in RowRecords /\ DOMAIN built = Builds
  /\ row.there => Validate(asked.edit) /\ row.edit = EditKept
  /\ built["h264"].there =>
       /\ row.there /\ row.seconds = SecondsKept /\ row.frame = FrameKept
       /\ built["h264"] = H264Plan
  /\ built["mp4"].there => built["h264"].there /\ built["mp4"] = MP4Plan
  /\ built["codec"].there => built["h264"].there /\ built["codec"] = CodecPlan
  /\ built["encrypted"].there => built["h264"].there /\ built["encrypted"] = EncryptedPlan

LEMMA EncodeInitInv == EncodeInit => EncodeInv
<1> SUFFICES ASSUME EncodeInit PROVE EncodeInv
  OBVIOUS
<1>1. row \in RowRecords /\ ~row.there
  BY DEF EncodeInit, EncodeStart, RowRecords
<1>2. DOMAIN built = Builds /\ \A b \in Builds : ~built[b].there
  BY DEF EncodeInit, EncodeStart, NoPlan
<1>3. {"h264", "mp4", "codec", "encrypted"} \subseteq Builds
  BY DEF Builds
<1> QED BY <1>1, <1>2, <1>3 DEF EncodeInv, EncodeInit

LEMMA EncodeStepInv ==
  ASSUME EncodeInv, [EncodeNext]_encodeVars
  PROVE  EncodeInv'
<1>1. asked' = asked
  BY DEF EncodeNext, Create, Transcode, Backfill, Encrypted, encodeVars
<1>2. /\ EditKept' = EditKept /\ SecondsKept' = SecondsKept /\ FrameKept' = FrameKept
      /\ H264Plan' = H264Plan /\ MP4Plan' = MP4Plan /\ CodecPlan' = CodecPlan
      /\ EncryptedPlan' = EncryptedPlan /\ Input' = Input
  BY <1>1 DEF EditKept, Input, SecondsKept, FrameKept, H264Plan, MP4Plan, CodecPlan,
       EncryptedPlan
<1>3. RowRecords' = RowRecords
  BY <1>2 DEF RowRecords
<1>4. {"h264", "mp4", "codec", "encrypted"} = Builds
  BY DEF Builds
<1>5. CASE Create
  <2>1. /\ Validate(asked.edit) /\ built' = built /\ ~row.there
        /\ row' = [row EXCEPT !.there = TRUE, !.edit = EditKept]
    BY <1>5 DEF Create, EditKept
  <2>2. row' \in RowRecords /\ row'.there /\ row'.edit = EditKept
    BY <2>1 DEF EncodeInv, RowRecords
  <2>3. \A b \in Builds : ~built'[b].there
    BY <2>1, <1>4 DEF EncodeInv
  <2> QED BY <1>1, <1>2, <1>3, <1>4, <2>1, <2>2, <2>3 DEF EncodeInv
<1>6. CASE Transcode
  <2>1. row.there /\ row.edit = EditKept /\ Validate(asked.edit)
    BY <1>6 DEF Transcode, EncodeInv
  <2>2. /\ built' = [built EXCEPT !["h264"] = H264Plan, !["mp4"] = MP4Plan]
        /\ row' = [row EXCEPT !.seconds = SecondsKept, !.frame = FrameKept]
    BY <1>6, <2>1 DEF Transcode, H264Plan, MP4Plan, SecondsKept, FrameKept, Input
  <2>3. row' \in RowRecords /\ row'.there /\ row'.edit = EditKept
        /\ row'.seconds = SecondsKept /\ row'.frame = FrameKept
    BY <2>1, <2>2 DEF EncodeInv, RowRecords
  <2>4. /\ DOMAIN built' = Builds /\ built'["h264"] = H264Plan /\ built'["mp4"] = MP4Plan
        /\ built'["codec"] = built["codec"] /\ built'["encrypted"] = built["encrypted"]
    BY <2>2, <1>4 DEF EncodeInv
  <2>5. H264Plan.there
    BY DEF H264Plan, BuildHLS, BuildArgs
  <2> QED BY <1>1, <1>2, <1>3, <2>1, <2>3, <2>4, <2>5 DEF EncodeInv
<1>7. CASE Backfill
  <2>1. built["h264"].there /\ row' = row /\ row.edit = EditKept
    BY <1>7 DEF Backfill, EncodeInv
  <2>2. built' = [built EXCEPT !["codec"] = CodecPlan]
    BY <1>7, <2>1 DEF Backfill, CodecPlan, Input
  <2>3. /\ DOMAIN built' = Builds /\ built'["h264"] = built["h264"]
        /\ built'["mp4"] = built["mp4"]
        /\ built'["codec"] = CodecPlan /\ built'["encrypted"] = built["encrypted"]
    BY <2>2, <1>4 DEF EncodeInv
  <2> QED BY <1>1, <1>2, <1>3, <2>1, <2>3 DEF EncodeInv
<1>8. CASE Encrypted
  <2>1. built["h264"].there /\ row' = row
    BY <1>8 DEF Encrypted
  <2>2. built' = [built EXCEPT !["encrypted"] = EncryptedPlan]
    BY <1>8 DEF Encrypted, EncryptedPlan
  <2>3. /\ DOMAIN built' = Builds /\ built'["h264"] = built["h264"]
        /\ built'["mp4"] = built["mp4"]
        /\ built'["codec"] = built["codec"] /\ built'["encrypted"] = EncryptedPlan
    BY <2>2, <1>4 DEF EncodeInv
  <2> QED BY <1>1, <1>2, <1>3, <2>1, <2>3 DEF EncodeInv
<1>9. CASE UNCHANGED encodeVars
  BY <1>1, <1>2, <1>3, <1>9 DEF EncodeInv, encodeVars
<1> QED BY <1>5, <1>6, <1>7, <1>8, <1>9 DEF EncodeNext

LEMMA EncodeInvariant == EncodeSpec => []EncodeInv
  BY EncodeInitInv, EncodeStepInv, PTL DEF EncodeSpec

-----------------------------------------------------------------------------
(* What the assumption on the requests says of one of them. *)

LEMMA AskedTypes ==
  ASSUME asked \in Asked
  PROVE  /\ asked.width \in Nat \ {0} /\ asked.height \in Nat \ {0}
         /\ asked.halves \in Nat \ {0} /\ asked.tracks \in Nat
         /\ asked.rungs \subseteq Nat /\ asked.multi \in BOOLEAN
         /\ asked.edit \in [segments : Seq([start : Int, end : Int]), rotate : Nat,
                            crop : [x : Int, y : Int, w : Int, h : Int], flip : STRING]
  BY AskedAssumption

-----------------------------------------------------------------------------
(* The ladder. *)

LEMMA IntervalFinite == ASSUME NEW b \in Nat PROVE IsFiniteSet(0..b)
  BY FS_Interval

LEMMA RungsBounded ==
  /\ \A r \in AllRungs : r \in Nat /\ 240 <= r /\ r <= 2160
  /\ AllRungs \in SUBSET Nat
  /\ IsFiniteSet(AllRungs) /\ 240 \in AllRungs
<1>1. (\A r \in AllRungs : r \in Nat /\ 240 <= r /\ r <= 2160) /\ 240 \in AllRungs
  BY DEF AllRungs
<1> DEFINE b == 2160
<1>2. b \in Nat /\ \A r \in AllRungs : r \in Nat /\ r <= b
  BY <1>1
<1>3. IsFiniteSet(AllRungs)
  <2> HIDE DEF b
  <2>1. AllRungs \in SUBSET (0..b)
    BY <1>2
  <2>2. IsFiniteSet(0..b)
    BY <1>2, IntervalFinite
  <2> QED BY <2>1, <2>2, FS_Subset
<1> QED BY <1>1, <1>3

LEMMA SettingsKeepRungs ==
  ASSUME NEW rungs
  PROVE  Settings(rungs) \in SUBSET AllRungs /\ Settings(rungs) # {}
  BY DEF Settings, DefaultRungs, AllRungs

LEMMA LeastRung == Min(AllRungs) = 240
<1>1. Min(AllRungs) \in AllRungs /\ \A r \in AllRungs : Min(AllRungs) <= r
  BY RungsBounded, MinMember
<1> DEFINE m == Min(AllRungs)
<1> HIDE DEF m
<1>2. m \in Nat /\ 240 <= m
  <2>1. m \in AllRungs
    BY <1>1 DEF m
  <2> QED BY <2>1, RungsBounded
<1>3. m <= 240
  BY <1>1, RungsBounded DEF m
<1>4. m = 240
  BY <1>2, <1>3
<1> QED BY <1>4 DEF m

(* A set of rungs has a greatest one. *)
LEMMA RungsHaveMax ==
  ASSUME NEW S \in SUBSET AllRungs, S # {}
  PROVE  Max(S) \in S /\ Max(S) \in Nat /\ \A r \in S : r \in Nat /\ r <= Max(S)
<1> DEFINE b == 2160
<1>1. \A r \in S : r \in Nat /\ r <= b
  BY RungsBounded
<1>2. b \in Nat
  OBVIOUS
<1> HIDE DEF b
<1>3. S \in SUBSET (0..b)
  BY <1>1, <1>2
<1>4. Max(S) \in S /\ \A r \in S : Max(S) >= r
  BY <1>2, <1>3, MaxMember
<1>5. \A r \in S : r <= Max(S)
  <2> TAKE r \in S
  <2>1. r \in Nat /\ Max(S) \in Nat /\ Max(S) >= r
    BY <1>1, <1>4
  <2> QED BY <2>1
<1> QED BY <1>1, <1>4, <1>5

LEMMA SelectedRungs ==
  ASSUME NEW h \in Nat, NEW e \in SUBSET AllRungs, e # {}
  PROVE  /\ SelectRungs(h, e) \in SUBSET AllRungs /\ SelectRungs(h, e) # {}
         /\ \A r \in SelectRungs(h, e) : r <= h \/ r = 240
         /\ e \cap 0..h # {} => SelectRungs(h, e) = e \cap 0..h
         /\ Max(SelectRungs(h, e)) <= Max(e) \/ SelectRungs(h, e) = {240}
<1>1. e \cap Fitting(h) = e \cap 0..h /\ Fitting(h) \in SUBSET AllRungs
      /\ \A r \in Fitting(h) : r <= h
  <2>1. \A r \in AllRungs : r \in Nat
    BY RungsBounded
  <2>2. \A r \in AllRungs : r \in 0..h <=> r <= h
    BY <2>1
  <2>3. e \cap Fitting(h) = e \cap 0..h
    BY <2>2 DEF Fitting
  <2> QED BY <2>3 DEF Fitting
<1>2. Max(e) \in e /\ Max(e) \in Nat /\ \A r \in e : r \in Nat /\ r <= Max(e)
  BY RungsHaveMax
<1>3. CASE e \cap Fitting(h) # {}
  <2>1. SelectRungs(h, e) = e \cap Fitting(h)
    BY <1>3 DEF SelectRungs
  <2>2. Max(e \cap Fitting(h)) \in e
    <3>1. e \cap Fitting(h) \in SUBSET AllRungs
      BY <1>1
    <3> QED BY <1>3, <3>1, RungsHaveMax
  <2> QED BY <1>1, <1>2, <1>3, <2>1, <2>2
<1>4. CASE e \cap Fitting(h) = {} /\ Fitting(h) # {}
  <2>1. SelectRungs(h, e) = {Max(Fitting(h))}
    BY <1>4 DEF SelectRungs
  <2>2. Max(Fitting(h)) \in Fitting(h) /\ Max(Fitting(h)) \in Nat
    BY <1>1, <1>4, RungsHaveMax
  <2>3. Max({Max(Fitting(h))}) = Max(Fitting(h))
    <3> HIDE DEF Fitting
    <3>1. {Max(Fitting(h))} \in SUBSET AllRungs
      BY <1>1, <2>2
    <3> QED BY <3>1, RungsHaveMax
  <2>4. Max(e) > h
    <3>1. Max(e) \notin Fitting(h) /\ Max(e) \in AllRungs
      BY <1>2, <1>4
    <3> QED BY <1>2, <3>1 DEF Fitting
  <2>5. Max(Fitting(h)) <= h
    BY <1>1, <2>2
  <2> QED BY <1>1, <1>2, <1>4, <2>1, <2>2, <2>3, <2>4, <2>5
<1>5. CASE e \cap Fitting(h) = {} /\ Fitting(h) = {}
  <2>1. SelectRungs(h, e) = {240}
    BY <1>5, LeastRung DEF SelectRungs
  <2> QED BY <1>1, <1>5, <2>1, RungsBounded
<1> QED BY <1>3, <1>4, <1>5

LEMMA FallbackRung ==
  ASSUME NEW h \in Nat, NEW e \in SUBSET AllRungs, e # {}
  PROVE  /\ MP4FallbackRung(h, e) \in AllRungs /\ MP4FallbackRung(h, e) <= 1080
         /\ MP4FallbackRung(h, e) <= h \/ MP4FallbackRung(h, e) = 240
<1> DEFINE S == SelectRungs(h, e)
           low == {r \in S : r <= 1080}
<1>1. S \in SUBSET AllRungs /\ S # {} /\ \A r \in S : r <= h \/ r = 240
  BY SelectedRungs
<1>2. CASE low # {}
  <2>1. low \in SUBSET AllRungs
    BY <1>1
  <2>2. Max(low) \in low
    BY <1>2, <2>1, RungsHaveMax
  <2>3. MP4FallbackRung(h, e) = Max(low)
    BY <1>2 DEF MP4FallbackRung
  <2> QED BY <1>1, <2>1, <2>2, <2>3
<1>3. CASE low = {}
  <2>1. PICK r \in S : r \in Nat /\ ~(r <= 1080)
    <3>1. PICK r \in S : r \notin low
      BY <1>1, <1>3
    <3>2. r \in Nat
      <4>1. r \in AllRungs
        BY <1>1
      <4> QED BY <4>1, RungsBounded
    <3> QED BY <3>1, <3>2
  <2>2. r <= h
    BY <1>1, <2>1
  <2>3. 1080 <= h
    BY <2>1, <2>2
  <2>4. MP4FallbackRung(h, e) = 1080
    BY <1>3 DEF MP4FallbackRung
  <2> QED BY <2>3, <2>4 DEF AllRungs
<1> QED BY <1>2, <1>3

(* The playlists of n outputs: a rendition each, then the audio tracks. *)
LEMMA StreamsPaired ==
  ASSUME NEW n \in Nat, NEW am \in [hasAudio : BOOLEAN, group : Nat]
  PROVE  /\ Len(VarStreamMap(n, am)) = n + am.group
         /\ DOMAIN VarStreamMap(n, am) = 1..(n + am.group)
         /\ \A j \in 1..n : /\ VarStreamMap(n, am)[j].v = j
                            /\ VarStreamMap(n, am)[j].a =
                                 IF am.group = 0 /\ am.hasAudio THEN j ELSE 0
         /\ \A j \in (n + 1)..(n + am.group) : /\ VarStreamMap(n, am)[j].v = 0
                                             /\ VarStreamMap(n, am)[j].a = j - n
<1> DEFINE P == [v : Nat, default : BOOLEAN, a : Nat]
           s == [i \in 1..n |-> [v |-> i, default |-> FALSE,
                               a |-> IF am.group = 0 /\ am.hasAudio THEN i ELSE 0]]
           g == am.group
           t == [k \in 1..g |-> [v |-> 0, a |-> k, default |-> k = 1]]
<1>1. g \in Nat
  OBVIOUS
<1>2. s \in [1..n -> P]
  OBVIOUS
<1>3. s \in Seq(P) /\ Len(s) = n
  <2> HIDE DEF s, P
  <2> QED BY <1>2
<1>4. t \in [1..g -> P]
  BY <1>1
<1>5. t \in Seq(P) /\ Len(t) = g
  <2> HIDE DEF t, P
  <2> QED BY <1>1, <1>4
<1>6. VarStreamMap(n, am) = s \o t
  BY DEF VarStreamMap
<1>7. /\ Len(s \o t) = n + g /\ DOMAIN (s \o t) = 1..(n + g)
      /\ \A j \in 1..(n + g) : (s \o t)[j] = IF j <= n THEN s[j] ELSE t[j - n]
  <2> HIDE DEF s, t, P, g
  <2> QED BY <1>1, <1>3, <1>5, ConcatProperties
<1>8. \A j \in 1..n : /\ (s \o t)[j].v = j
                     /\ (s \o t)[j].a = IF am.group = 0 /\ am.hasAudio THEN j ELSE 0
  <2> TAKE j \in 1..n
  <2>1. j \in 1..(n + g) /\ j <= n
    BY <1>1
  <2>2. (s \o t)[j] = s[j]
    BY <1>7, <2>1
  <2> QED BY <2>2
<1>9. \A j \in (n + 1)..(n + g) : (s \o t)[j].v = 0 /\ (s \o t)[j].a = j - n
  <2> TAKE j \in (n + 1)..(n + g)
  <2>1. j \in 1..(n + g) /\ ~(j <= n) /\ j - n \in 1..g
    BY <1>1
  <2>2. (s \o t)[j] = t[j - n]
    BY <1>7, <2>1
  <2> QED BY <2>1, <2>2
<1> QED BY <1>6, <1>7, <1>8, <1>9

(* What BuildArgs plans of the ladder: the enabled rungs that fit, and a       *)
(* playlist for each of its outputs.                                         *)
LadderPlanned(p) ==
  LET usable == Settings(asked.rungs) \cap 0..asked.height
  IN /\ p.rungs # {} /\ p.rungs \in SUBSET AllRungs
     /\ \A r \in p.rungs : r <= asked.height \/ r = 240
     /\ usable # {} => p.rungs = usable
     /\ p.dirs = Len(p.streams)
     /\ \A i \in DOMAIN p.video : Once([j \in DOMAIN p.streams |-> p.streams[j].v], i)
     /\ \A i \in DOMAIN p.audio : Once([j \in DOMAIN p.streams |-> p.streams[j].a], i)
     /\ \A s \in ToSet(p.streams) : s.v \in 0..Len(p.video) /\ s.a \in 0..Len(p.audio)
     /\ CodecLevel(Max(p.rungs)) <= CodecsTag(Settings(asked.rungs))

LEMMA ArgsPlanLadder ==
  ASSUME asked \in Asked, NEW file, NEW e, NEW multi \in BOOLEAN, NEW key
  PROVE  LadderPlanned(BuildArgs(asked, file, e, multi, key))
<1> DEFINE p == BuildArgs(asked, file, e, multi, key)
           set == Settings(asked.rungs)
           rungs == SelectRungs(asked.height, set)
           n == Cardinality(rungs)
           am == PlanAudio(asked.tracks, multi)
           g == am.group
           s == VarStreamMap(n, am)
           audio == AudioMaps(n, am)
<1>1. asked.height \in Nat /\ asked.tracks \in Nat
  BY AskedTypes
<1>2. set \in SUBSET AllRungs /\ set # {}
  BY SettingsKeepRungs
<1>3. /\ rungs \in SUBSET AllRungs /\ rungs # {}
      /\ \A r \in rungs : r <= asked.height \/ r = 240
      /\ set \cap 0..asked.height # {} => rungs = set \cap 0..asked.height
      /\ Max(rungs) <= Max(set) \/ rungs = {240}
  <2> HIDE DEF set
  <2> QED BY <1>1, <1>2, SelectedRungs
<1>4. rungs \in SUBSET Nat /\ IsFiniteSet(rungs)
  <2>1. IsFiniteSet(rungs)
    BY <1>3, RungsBounded, FS_Subset
  <2>2. \A r \in AllRungs : r \in Nat
    BY RungsBounded
  <2> QED BY <1>3, <2>1, <2>2
<1>5. n \in Nat /\ Len(Ascending(rungs)) = n /\ DOMAIN Ascending(rungs) = 1..n
  BY <1>4, AscendingSorts
<1>6. am \in [hasAudio : BOOLEAN, group : Nat] /\ g \in Nat
  BY <1>1 DEF PlanAudio
<1>7. /\ p.rungs = rungs /\ p.video = Ascending(rungs) /\ p.audio = audio
      /\ p.streams = s /\ p.dirs = n + g
  BY DEF BuildArgs
<1>8. CodecLevel(Max(rungs)) <= CodecsTag(set)
  <2>1. Max(set) \in Nat
    BY <1>2, RungsHaveMax
  <2>2. Max(rungs) \in Nat /\ Max(rungs) \in rungs
    BY <1>3, RungsHaveMax
  <2>3. CASE Max(rungs) <= Max(set)
    <3> HIDE DEF rungs, set
    <3> QED BY <2>1, <2>2, <2>3 DEF CodecLevel, CodecsTag
  <2>4. CASE rungs = {240}
    <3>1. Max(rungs) = 240
      BY <2>2, <2>4
    <3> HIDE DEF rungs, set
    <3> QED BY <2>1, <3>1 DEF CodecLevel, CodecsTag
  <2> QED BY <1>3, <2>3, <2>4
<1> HIDE DEF p, n, rungs, set
<1>9. /\ Len(s) = n + g /\ DOMAIN s = 1..(n + g)
      /\ \A j \in 1..n : s[j].v = j /\ s[j].a = IF g = 0 /\ am.hasAudio THEN j ELSE 0
      /\ \A j \in (n + 1)..(n + g) : s[j].v = 0 /\ s[j].a = j - n
  <2> HIDE DEF am
  <2> QED BY <1>5, <1>6, StreamsPaired
<1>10. /\ DOMAIN audio = 1..Len(audio) /\ Len(audio) \in Nat
       /\ Len(audio) = IF g > 0 THEN g ELSE IF am.hasAudio THEN n ELSE 0
  <2> HIDE DEF am
  <2> QED BY <1>5, <1>6 DEF AudioMaps
<1> HIDE DEF s, audio, am
<1>11. ASSUME NEW i \in 1..n PROVE Once([j \in DOMAIN s |-> s[j].v], i)
  <2> DEFINE o == [j \in DOMAIN s |-> s[j].v]
  <2>1. i \in DOMAIN o
    BY <1>5, <1>6, <1>9
  <2>2. ASSUME NEW j \in DOMAIN o PROVE o[j] = i <=> j = i
    <3>1. j \in 1..n \/ j \in (n + 1)..(n + g)
      BY <1>5, <1>6, <1>9
    <3> QED BY <1>5, <1>6, <1>9, <3>1
  <2> HIDE DEF o
  <2>3. {j \in DOMAIN o : o[j] = i} = {i}
    BY <2>1, <2>2
  <2>4. Once(o, i)
    BY <2>3, FS_Singleton DEF Once
  <2> QED BY <2>4 DEF o
<1>12. ASSUME NEW i \in 1..Len(audio) PROVE Once([j \in DOMAIN s |-> s[j].a], i)
  <2> DEFINE o == [j \in DOMAIN s |-> s[j].a]
             k == IF g > 0 THEN n + i ELSE i
  <2>1. k \in DOMAIN o
    BY <1>5, <1>6, <1>9, <1>10
  <2>2. ASSUME NEW j \in DOMAIN o PROVE o[j] = i <=> j = k
    <3>1. CASE g > 0
      <4>1. i \in 1..g /\ k = n + i
        BY <1>10, <3>1
      <4>2. CASE j \in 1..n
        <5>1. o[j] = 0
          BY <1>9, <3>1, <4>2
        <5> QED BY <1>5, <1>6, <4>1, <4>2, <5>1
      <4>3. CASE j \in (n + 1)..(n + g)
        <5>1. o[j] = j - n
          BY <1>9, <4>3
        <5> QED BY <1>5, <1>6, <4>1, <4>3, <5>1
      <4> QED BY <1>5, <1>6, <1>9, <4>2, <4>3
    <3>2. CASE g = 0
      <4>1. i \in 1..n /\ k = i /\ am.hasAudio
        BY <1>5, <1>10, <3>2
      <4>2. j \in 1..n
        BY <1>5, <1>9, <3>2
      <4>3. o[j] = j
        BY <1>9, <3>2, <4>1, <4>2
      <4> QED BY <4>1, <4>3
    <3> QED BY <1>6, <3>1, <3>2
  <2> HIDE DEF o, k
  <2>3. {j \in DOMAIN o : o[j] = i} = {k}
    BY <2>1, <2>2
  <2>4. Once(o, i)
    BY <2>3, FS_Singleton DEF Once
  <2> QED BY <2>4 DEF o
<1>13. ASSUME NEW t \in ToSet(s) PROVE t.v \in 0..n /\ t.a \in 0..Len(audio)
  <2>1. PICK j \in DOMAIN s : t = s[j]
    BY DEF ToSet
  <2>2. j \in 1..n \/ j \in (n + 1)..(n + g)
    BY <1>5, <1>6, <1>9
  <2> QED BY <1>5, <1>6, <1>9, <1>10, <2>1, <2>2
<1>14. DOMAIN p.video = 1..n /\ Len(p.video) = n
  BY <1>5, <1>7
<1>15. DOMAIN p.audio = 1..Len(audio)
  BY <1>7, <1>10
<1>16. /\ \A i \in DOMAIN p.video : Once([j \in DOMAIN p.streams |-> p.streams[j].v], i)
       /\ \A i \in DOMAIN p.audio : Once([j \in DOMAIN p.streams |-> p.streams[j].a], i)
       /\ \A t \in ToSet(p.streams) : t.v \in 0..Len(p.video) /\ t.a \in 0..Len(p.audio)
  BY <1>7, <1>11, <1>12, <1>13, <1>14, <1>15
<1>17. /\ p.rungs # {} /\ p.rungs \in SUBSET AllRungs
       /\ (\A r \in p.rungs : r <= asked.height \/ r = 240)
       /\ set \cap 0..asked.height # {} => p.rungs = set \cap 0..asked.height
       /\ p.dirs = Len(p.streams) /\ CodecLevel(Max(p.rungs)) <= CodecsTag(set)
  BY <1>3, <1>7, <1>8, <1>9
<1> QED BY <1>16, <1>17 DEF LadderPlanned, set, p

LEMMA FallbackFits ==
  ASSUME asked \in Asked, NEW file, NEW e
  PROVE  LET p == BuildMP4Fallback(asked, file, e)
         IN /\ p.rungs # {} /\ p.rungs \in SUBSET AllRungs
            /\ \A r \in p.rungs : r <= asked.height \/ r = 240
            /\ Max(p.rungs) <= 1080
<1> DEFINE p == BuildMP4Fallback(asked, file, e)
           set == Settings(asked.rungs)
           rung == MP4FallbackRung(asked.height, set)
<1>1. asked.height \in Nat
  BY AskedTypes
<1>2. set \in SUBSET AllRungs /\ set # {}
  BY SettingsKeepRungs
<1>3. p.rungs = {rung}
  BY DEF BuildMP4Fallback
<1>4. rung \in AllRungs /\ rung <= 1080 /\ (rung <= asked.height \/ rung = 240)
  <2> HIDE DEF set
  <2> QED BY <1>1, <1>2, FallbackRung
<1> HIDE DEF rung
<1>5. Max({rung}) = rung
  <2>1. {rung} \in SUBSET AllRungs
    BY <1>4
  <2> QED BY <2>1, RungsHaveMax
<1> QED BY <1>3, <1>4, <1>5

-----------------------------------------------------------------------------
(* The edit that is kept: the segments asked for, in order.                   *)

Segments == [start : Nat, end : Nat]
Edits == [segments : Seq([start : Int, end : Int]), rotate : Nat,
          crop : [x : Int, y : Int, w : Int, h : Int], flip : STRING]

(* Each segment ends before the next begins. *)
Disjoint(segments) ==
  /\ \A i \in 1..Len(segments) : segments[i].start < segments[i].end
  /\ \A i, j \in 1..Len(segments) : i < j => segments[i].end <= segments[j].start

LEMMA NormalizeSorts ==
  ASSUME NEW e \in Edits, Validate(e)
  PROVE  /\ Normalize(e) = [e EXCEPT !.segments = Normalize(e).segments]
         /\ Normalize(e).segments \in Seq(Segments)
         /\ Len(Normalize(e).segments) = Len(e.segments)
         /\ ToSet(Normalize(e).segments) = ToSet(e.segments)
         /\ Disjoint(Normalize(e).segments)
<1> DEFINE asks == e.segments
           L == Len(asks)
           S == {s.start : s \in ToSet(asks)}
           starts == Ascending(S)
           n == Cardinality(S)
           seg(i) == CHOOSE s \in ToSet(asks) : s.start = starts[i]
           out == [i \in DOMAIN starts |-> seg(i)]
<1>0. /\ asks \in Seq([start : Int, end : Int])
      /\ \A s \in ToSet(asks) : 0 <= s.start /\ s.start < s.end
      /\ \A i, j \in DOMAIN asks : i # j => \/ asks[i].end <= asks[j].start
                                          \/ asks[j].end <= asks[i].start
  BY DEF Edits, Validate
<1> HIDE DEF asks
<1>1. L \in Nat /\ DOMAIN asks = 1..L
  BY <1>0
<1> HIDE DEF L
<1>2. \A i \in 1..L : /\ asks[i].start \in Nat /\ asks[i].end \in Nat
                      /\ asks[i].start < asks[i].end /\ asks[i] \in Segments
  <2> TAKE i \in 1..L
  <2>1. i \in DOMAIN asks
    BY <1>1
  <2>2. asks[i] \in [start : Int, end : Int]
    BY <1>0, <2>1, ElementOfSeq DEF L
  <2>3. asks[i] \in ToSet(asks)
    BY <2>1 DEF ToSet
  <2>4. 0 <= asks[i].start /\ asks[i].start < asks[i].end
    BY <1>0, <2>3
  <2> QED BY <2>2, <2>4 DEF Segments
<1>3. \A i, j \in 1..L : i # j => \/ asks[i].end <= asks[j].start
                                 \/ asks[j].end <= asks[i].start
  BY <1>0, <1>1
<1>4. ToSet(asks) = {asks[i] : i \in 1..L}
  BY <1>1 DEF ToSet
<1> DEFINE f == [i \in 1..L |-> asks[i].start]
<1>6. n = L /\ IsFiniteSet(S)
  <2>1. f \in [1..L -> S] /\ \A s \in S : \E i \in 1..L : f[i] = s
    BY <1>4
  <2>2. \A i, j \in 1..L : f[i] = f[j] => i = j
    <3> TAKE i, j \in 1..L
    <3> QED BY <1>2, <1>3
  <2> HIDE DEF S, f
  <2> QED BY <1>1, <2>1, <2>2, OneToOneCounts
<1>7. S \in SUBSET Nat
  BY <1>2, <1>4
<1> HIDE DEF S
<1>8. /\ starts \in [1..n -> S] /\ Len(starts) = n /\ DOMAIN starts = 1..n /\ n \in Nat
      /\ \A i, j \in 1..n : i < j => starts[i] < starts[j]
      /\ \A r \in S : \E i \in 1..n : starts[i] = r
  BY <1>6, <1>7, AscendingSorts
<1> HIDE DEF starts, n
<1>9. \A i \in 1..n : seg(i) \in ToSet(asks) /\ seg(i).start = starts[i]
  <2> TAKE i \in 1..n
  <2>1. starts[i] \in S
    BY <1>8
  <2>2. \E s \in ToSet(asks) : s.start = starts[i]
    BY <2>1 DEF S
  <2> QED BY <2>2
<1> HIDE DEF seg
<1>10. \A i \in 1..n : \E j \in 1..L : seg(i) = asks[j]
  BY <1>4, <1>9
<1>11. out \in [1..n -> Segments]
  BY <1>2, <1>8, <1>10
<1>12. DOMAIN out = 1..n /\ \A i \in 1..n : out[i] = seg(i) /\ out[i].start = starts[i]
  BY <1>8, <1>9
<1>13. Normalize(e) = [e EXCEPT !.segments = out]
  BY DEF Normalize, starts, S, seg, asks
<1> HIDE DEF out
<1>14. out \in Seq(Segments) /\ Len(out) = L
  BY <1>6, <1>8, <1>11
<1>15. ToSet(out) = ToSet(asks)
  <2>1. ToSet(out) = {seg(i) : i \in 1..n}
    BY <1>12 DEF ToSet
  <2>2. ToSet(out) \subseteq ToSet(asks)
    BY <1>9, <2>1
  <2>3. ASSUME NEW s \in ToSet(asks) PROVE s \in ToSet(out)
    <3>1. PICK j \in 1..L : s = asks[j]
      BY <1>4
    <3>2. s.start \in S
      BY DEF S
    <3>3. PICK i \in 1..n : starts[i] = s.start
      BY <1>8, <3>2
    <3>4. PICK k \in 1..L : seg(i) = asks[k]
      BY <1>10
    <3>5. asks[k].start = asks[j].start
      BY <1>9, <3>1, <3>3, <3>4
    <3>6. k = j
      BY <1>2, <1>3, <3>5
    <3> QED BY <2>1, <3>1, <3>4, <3>6
  <2> QED BY <2>2, <2>3
<1>16. Disjoint(out)
  <2>1. \A i \in 1..n : out[i].start < out[i].end
    BY <1>2, <1>10, <1>12
  <2>2. ASSUME NEW i \in 1..n, NEW j \in 1..n, i < j PROVE out[i].end <= out[j].start
    <3>1. out[i].start < out[j].start
      BY <1>8, <1>12, <2>2
    <3>2. PICK a \in 1..L : out[i] = asks[a]
      BY <1>10, <1>12
    <3>3. PICK b \in 1..L : out[j] = asks[b]
      BY <1>10, <1>12
    <3>4. a # b
      BY <1>2, <3>1, <3>2, <3>3
    <3>5. \/ asks[a].end <= asks[b].start
          \/ asks[b].end <= asks[a].start
      BY <1>3, <3>4
    <3> QED BY <1>2, <3>1, <3>2, <3>3, <3>5
  <2> QED BY <1>6, <1>14, <2>1, <2>2 DEF Disjoint
<1>17. Normalize(e).segments = out
  BY <1>13 DEF Edits
<1> QED BY <1>13, <1>14, <1>15, <1>16, <1>17 DEF L, asks

LEMMA KeptEdit ==
  ASSUME asked \in Asked, Validate(asked.edit)
  PROVE  /\ EditKept.segments \in Seq(Segments) /\ Disjoint(EditKept.segments)
         /\ Len(EditKept.segments) = Len(asked.edit.segments)
         /\ ToSet(EditKept.segments) = ToSet(asked.edit.segments)
         /\ EditKept.crop = asked.edit.crop /\ EditKept.rotate = asked.edit.rotate
         /\ EditKept.flip = asked.edit.flip
<1>1. asked.edit \in Edits
  BY AskedTypes DEF Edits
<1>2. CASE IsIdentity(asked.edit)
  <2>1. EditKept = NoEdit /\ NoEdit.segments = <<>>
    BY <1>2 DEF EditKept, NoEdit
  <2>2. /\ asked.edit.segments = <<>> /\ asked.edit.crop = NoEdit.crop
        /\ asked.edit.rotate = NoEdit.rotate /\ asked.edit.flip = NoEdit.flip
    BY <1>2 DEF IsIdentity, HasCrop, NoEdit
  <2>3. <<>> \in Seq(Segments) /\ Disjoint(<<>>)
    BY DEF Disjoint
  <2> QED BY <2>1, <2>2, <2>3
<1>3. CASE ~IsIdentity(asked.edit)
  <2>1. EditKept = Normalize(asked.edit)
    BY <1>3 DEF EditKept
  <2>2. /\ Normalize(asked.edit) = [asked.edit EXCEPT !.segments = Normalize(asked.edit).segments]
        /\ Normalize(asked.edit).segments \in Seq(Segments)
        /\ Len(Normalize(asked.edit).segments) = Len(asked.edit.segments)
        /\ ToSet(Normalize(asked.edit).segments) = ToSet(asked.edit.segments)
        /\ Disjoint(Normalize(asked.edit).segments)
    BY <1>1, NormalizeSorts
  <2>3. /\ Normalize(asked.edit).crop = asked.edit.crop
        /\ Normalize(asked.edit).rotate = asked.edit.rotate
        /\ Normalize(asked.edit).flip = asked.edit.flip
    BY <1>1, <2>2 DEF Edits
  <2> QED BY <2>1, <2>2, <2>3
<1> QED BY <1>2, <1>3

(* The edit left for the encode: what is cut beforehand is gone from it. *)
LEMMA InputEdit ==
  ASSUME asked \in Asked, Validate(asked.edit)
  PROVE  /\ Input.edit.crop = asked.edit.crop /\ Input.edit.rotate = asked.edit.rotate
         /\ Input.edit.flip = asked.edit.flip
         /\ Trims(Input.edit) <=> Trims(asked.edit)
         /\ ~IsTemporal(EditKept) => Input.file = Source(asked) /\ Input.edit = EditKept
         /\ IsTemporal(EditKept) => /\ Input.file = BuildEditedSource(Source(asked), EditKept)
                                    /\ ~Trims(Input.edit)
<1> DEFINE k == EditKept
<1>1. /\ k.crop = asked.edit.crop /\ k.rotate = asked.edit.rotate
      /\ k.flip = asked.edit.flip /\ Len(k.segments) = Len(asked.edit.segments)
      /\ Len(k.segments) \in Nat
  BY KeptEdit
<1>2. CASE IsTemporal(k)
  <2>1. Input = [file |-> BuildEditedSource(Source(asked), k), edit |-> SpatialOnly(k)]
    BY <1>2 DEF Input, Prepared
  <2>2. /\ SpatialOnly(k).crop = k.crop /\ SpatialOnly(k).rotate = k.rotate
        /\ SpatialOnly(k).flip = k.flip /\ SpatialOnly(k).segments = <<>>
    BY AskedTypes, KeptEdit DEF SpatialOnly
  <2>3. ~Trims(SpatialOnly(k)) /\ ~Trims(asked.edit)
    <3>1. Len(k.segments) > 1 /\ Len(SpatialOnly(k).segments) = 0
      BY <1>2, <2>2 DEF IsTemporal
    <3>2. Len(asked.edit.segments) > 1
      BY <1>1, <3>1
    <3> DEFINE L == Len(asked.edit.segments)
    <3>3. L \in Nat /\ L > 1
      BY <1>1, <3>2
    <3>4. L # 1
      <4> HIDE DEF L
      <4> QED BY <3>3
    <3>5. Len(asked.edit.segments) # 1
      BY <3>4
    <3> HIDE DEF k, L
    <3> QED BY <3>1, <3>5 DEF Trims
  <2> QED BY <1>1, <1>2, <2>1, <2>2, <2>3
<1>3. CASE ~IsTemporal(k)
  <2>1. Input = [file |-> Source(asked), edit |-> k]
    BY <1>3 DEF Input, Prepared
  <2>2. Trims(k) <=> Trims(asked.edit)
    BY <1>1 DEF Trims
  <2> QED BY <1>1, <1>3, <2>1, <2>2
<1> QED BY <1>2, <1>3

-----------------------------------------------------------------------------
(* What is cut out of the source. *)

LEMMA SourceHalves ==
  ASSUME asked \in Asked
  PROVE  /\ Source(asked) \in Seq(Nat) /\ Len(Source(asked)) = asked.halves
         /\ \A i \in 1..asked.halves : Source(asked)[i] = i - 1
<1> DEFINE n == asked.halves
           s == [i \in 1..n |-> i - 1]
<1>1. n \in Nat /\ s \in [1..n -> Nat]
  BY AskedTypes
<1>2. s \in Seq(Nat) /\ Len(s) = n
  <2> HIDE DEF n, s
  <2> QED BY <1>1
<1> QED BY <1>2 DEF Source

LEMMA CutHalves ==
  ASSUME asked \in Asked, NEW s \in Segments
  PROVE  /\ Cut(Source(asked), s) \in Seq(Nat)
         /\ s.start < s.end /\ s.end <= asked.halves =>
              /\ Len(Cut(Source(asked), s)) = s.end - s.start
              /\ \A i \in 1..(s.end - s.start) : Cut(Source(asked), s)[i] = s.start + i - 1
<1> DEFINE file == Source(asked)
           m == s.start + 1
           n == Min({s.end, Len(file)})
           c == SubSeq(file, m, n)
<1>1. /\ asked.halves \in Nat /\ Len(file) = asked.halves
      /\ \A i \in 1..asked.halves : file[i] = i - 1
  BY AskedTypes, SourceHalves
<1>2. s.start \in Nat /\ s.end \in Nat
  BY DEF Segments
<1>3. n = IF s.end <= asked.halves THEN s.end ELSE asked.halves
  <2> HIDE DEF file
  <2> QED BY <1>1, <1>2, MinOfTwo
<1> HIDE DEF n, file
<1>4. m \in Int /\ n \in Int /\ m > 0 /\ n <= asked.halves
  BY <1>1, <1>2, <1>3
<1>5. \A i \in m..n : file[i] = i - 1 /\ i - 1 \in Nat
  BY <1>1, <1>4
<1> HIDE DEF m
<1>6. /\ c \in Seq(Nat) /\ Len(c) = IF m <= n THEN n - m + 1 ELSE 0
      /\ \A i \in 1..(n - m + 1) : c[i] = file[m + i - 1]
  <2>1. \A i \in m..n : file[i] \in Nat
    BY <1>5
  <2> QED BY <1>4, <2>1, SubSeqProperties
<1>7. Cut(Source(asked), s) = c
  BY DEF Cut, file, n, m
<1>8. ASSUME s.start < s.end, s.end <= asked.halves
      PROVE  /\ Len(c) = s.end - s.start
             /\ \A i \in 1..(s.end - s.start) : c[i] = s.start + i - 1
  <2>1. n = s.end /\ m <= n /\ n - m + 1 = s.end - s.start
    BY <1>2, <1>3, <1>8 DEF m
  <2>2. ASSUME NEW i \in 1..(s.end - s.start) PROVE c[i] = s.start + i - 1
    <3>1. i \in 1..(n - m + 1)
      BY <2>1
    <3>2. c[i] = file[m + i - 1]
      BY <1>6, <3>1
    <3>3. m + i - 1 \in m..n
      BY <1>4, <3>1
    <3>4. file[m + i - 1] = (m + i - 1) - 1
      BY <1>5, <3>3
    <3>5. m + i - 1 \in Int /\ (m + i - 1) - 1 = s.start + i - 1
      BY <1>2 DEF m
    <3> QED BY <3>2, <3>4, <3>5
  <2> QED BY <1>6, <2>1, <2>2
<1> QED BY <1>6, <1>7, <1>8

LEMMA AppendedInOrder ==
  ASSUME NEW a \in Seq(Nat), NEW c \in Seq(Nat), InOrder(a), InOrder(c),
         \A x \in ToSet(a), y \in ToSet(c) : x < y
  PROVE  /\ a \o c \in Seq(Nat) /\ InOrder(a \o c)
         /\ ToSet(a \o c) = ToSet(a) \cup ToSet(c)
<1> DEFINE m == Len(a)
           n == Len(c)
           d == a \o c
<1>1. /\ m \in Nat /\ n \in Nat /\ DOMAIN a = 1..m /\ DOMAIN c = 1..n
      /\ d \in Seq(Nat) /\ Len(d) = m + n /\ DOMAIN d = 1..(m + n)
      /\ \A i \in 1..(m + n) : d[i] = IF i <= m THEN a[i] ELSE c[i - m]
  BY ConcatProperties
<1>2. /\ ToSet(a) = {a[i] : i \in 1..m} /\ ToSet(c) = {c[i] : i \in 1..n}
      /\ ToSet(d) = {d[i] : i \in 1..(m + n)}
  BY <1>1 DEF ToSet
<1>3. /\ \A i \in 1..m - 1 : a[i] < a[i + 1]
      /\ \A i \in 1..n - 1 : c[i] < c[i + 1]
  BY DEF InOrder
<1> HIDE DEF m, n, d
<1>4. ASSUME NEW i \in 1..(m + n) - 1 PROVE d[i] < d[i + 1]
  <2>1. i \in 1..(m + n) /\ i + 1 \in 1..(m + n)
    BY <1>1
  <2>2. CASE i + 1 <= m
    <3>1. i \in 1..m - 1 /\ i <= m
      BY <1>1, <2>2
    <3> QED BY <1>1, <1>3, <2>1, <2>2, <3>1
  <2>3. CASE i = m
    <3>1. d[i] = a[m] /\ m \in 1..m /\ 1 \in 1..n
      BY <1>1, <2>1, <2>3
    <3>2. i + 1 - m = 1 /\ ~(i + 1 <= m)
      BY <1>1, <2>3
    <3>3. d[i + 1] = c[1]
      BY <1>1, <2>1, <3>2
    <3> QED BY <1>2, <3>1, <3>3
  <2>4. CASE i > m
    <3>1. i - m \in 1..n - 1 /\ i + 1 - m = (i - m) + 1 /\ ~(i <= m) /\ ~(i + 1 <= m)
      BY <1>1, <2>4
    <3>2. d[i] = c[i - m] /\ d[i + 1] = c[(i - m) + 1]
      BY <1>1, <2>1, <3>1
    <3> QED BY <1>3, <3>1, <3>2
  <2> QED BY <1>1, <2>2, <2>3, <2>4
<1>5. ToSet(d) \subseteq ToSet(a) \cup ToSet(c)
  <2>1. ASSUME NEW i \in 1..(m + n) PROVE d[i] \in ToSet(a) \cup ToSet(c)
    <3>1. i <= m => i \in 1..m
      OBVIOUS
    <3>2. ~(i <= m) => i - m \in 1..n
      BY <1>1
    <3> QED BY <1>1, <1>2, <3>1, <3>2
  <2> QED BY <1>2, <2>1
<1>6. ToSet(a) \subseteq ToSet(d)
  <2>1. ASSUME NEW i \in 1..m PROVE a[i] \in ToSet(d)
    <3>1. i \in 1..(m + n) /\ i <= m
      BY <1>1
    <3> QED BY <1>1, <1>2, <3>1
  <2> QED BY <1>2, <2>1
<1>7. ToSet(c) \subseteq ToSet(d)
  <2>1. ASSUME NEW i \in 1..n PROVE c[i] \in ToSet(d)
    <3>1. i + m \in 1..(m + n) /\ ~(i + m <= m) /\ (i + m) - m = i
      BY <1>1
    <3> QED BY <1>1, <1>2, <3>1
  <2> QED BY <1>2, <2>1
<1>8. InOrder(d)
  BY <1>1, <1>4 DEF InOrder
<1> QED BY <1>1, <1>5, <1>6, <1>7, <1>8 DEF d

Stretch(s) == {t \in Nat : s.start <= t /\ t < s.end}

LEMMA CutShowsStretch ==
  ASSUME asked \in Asked, NEW s \in Segments, s.start < s.end, s.end <= asked.halves
  PROVE  /\ Cut(Source(asked), s) \in Seq(Nat) /\ InOrder(Cut(Source(asked), s))
         /\ ToSet(Cut(Source(asked), s)) = Stretch(s)
<1> DEFINE c == Cut(Source(asked), s)
           n == s.end - s.start
<1>1. s.start \in Nat /\ s.end \in Nat /\ n \in Nat
  BY DEF Segments
<1>2. c \in Seq(Nat) /\ Len(c) = n /\ \A i \in 1..n : c[i] = s.start + i - 1
  BY CutHalves
<1> HIDE DEF c, n
<1>3. DOMAIN c = 1..n
  BY <1>2
<1>4. InOrder(c)
  <2>1. ASSUME NEW i \in 1..n - 1 PROVE c[i] < c[i + 1]
    <3>1. i \in 1..n /\ i + 1 \in 1..n
      BY <1>1
    <3>2. c[i] = s.start + i - 1 /\ c[i + 1] = s.start + (i + 1) - 1
      BY <1>2, <3>1
    <3> QED BY <1>1, <3>2
  <2> QED BY <1>2, <2>1 DEF InOrder
<1>5. ToSet(c) = Stretch(s)
  <2>1. ToSet(c) = {c[i] : i \in 1..n}
    BY <1>3 DEF ToSet
  <2>2. ASSUME NEW i \in 1..n PROVE c[i] \in Stretch(s)
    <3>1. s.start + i - 1 \in Nat /\ s.start <= s.start + i - 1 /\ s.start + i - 1 < s.end
      BY <1>1 DEF n
    <3> QED BY <1>2, <3>1 DEF Stretch
  <2>3. ASSUME NEW t \in Stretch(s) PROVE \E i \in 1..n : c[i] = t
    <3>1. t \in Nat /\ s.start <= t /\ t < s.end
      BY DEF Stretch
    <3>2. (t - s.start) + 1 \in 1..n /\ s.start + ((t - s.start) + 1) - 1 = t
      BY <1>1, <3>1 DEF n
    <3> QED BY <1>2, <3>2
  <2> QED BY <2>1, <2>2, <2>3
<1> QED BY <1>2, <1>4, <1>5 DEF c

(* Cut one after the other, the segments give what lies in one of them, in     *)
(* order: none overlaps one that comes before it.                            *)
LEMMA JoinedCuts ==
  ASSUME asked \in Asked, NEW e, e.segments \in Seq(Segments)
  PROVE  /\ BuildEditedSource(Source(asked), e) \in Seq(Nat)
         /\ Disjoint(e.segments) /\ (\A s \in ToSet(e.segments) : s.end <= asked.halves) =>
              /\ InOrder(BuildEditedSource(Source(asked), e))
              /\ ToSet(BuildEditedSource(Source(asked), e)) =
                   UNION {Stretch(s) : s \in ToSet(e.segments)}
<1> DEFINE segs == e.segments
           n == Len(segs)
           cuts == [i \in DOMAIN segs |-> Cut(Source(asked), segs[i])]
           file == BuildEditedSource(Source(asked), e)
<1>1. n \in Nat /\ DOMAIN segs = 1..n /\ \A i \in 1..n : segs[i] \in Segments
  BY ElementOfSeq
<1>2. ToSet(segs) = {segs[i] : i \in 1..n}
  BY <1>1 DEF ToSet
<1>3. cuts \in [1..n -> Seq(Nat)] /\ \A i \in 1..n : cuts[i] = Cut(Source(asked), segs[i])
  BY <1>1, CutHalves
<1>4. file = FlattenSeq(cuts)
  BY DEF BuildEditedSource
<1> HIDE DEF file, cuts
<1>5. cuts \in Seq(Seq(Nat)) /\ Len(cuts) = n
  <2> HIDE DEF n, segs
  <2> QED BY <1>1, <1>3
<1>6. PICK f \in [0..n -> Seq(Nat)] :
        /\ f[0] = <<>> /\ \A i \in 1..n : f[i] = f[i - 1] \o cuts[i]
        /\ FlattenSeq(cuts) = f[n]
  <2> HIDE DEF n, segs
  <2> QED BY <1>5, FlattenUnfolds
<1>7. file \in Seq(Nat)
  BY <1>1, <1>4, <1>6
<1>8. ASSUME Disjoint(segs), \A s \in ToSet(segs) : s.end <= asked.halves
      PROVE  InOrder(file) /\ ToSet(file) = UNION {Stretch(s) : s \in ToSet(segs)}
  <2> DEFINE shown(k) == {t \in Nat : \E i \in 1..k : t \in Stretch(segs[i])}
             K == {k \in Nat : k <= n => InOrder(f[k]) /\ ToSet(f[k]) = shown(k)}
  <2>1. /\ \A i \in 1..n : segs[i].start < segs[i].end /\ segs[i].end <= asked.halves
        /\ \A i, j \in 1..n : i < j => segs[i].end <= segs[j].start
    BY <1>2, <1>8 DEF Disjoint
  <2> HIDE DEF segs, n
  <2>2. 0 \in K
    <3>1. InOrder(<<>>) /\ ToSet(<<>>) = {}
      BY DEF InOrder, ToSet
    <3>2. shown(0) = {}
      OBVIOUS
    <3> QED BY <1>6, <3>1, <3>2
  <2>3. ASSUME NEW k \in K PROVE k + 1 \in K
    <3> SUFFICES ASSUME k + 1 <= n
                 PROVE  InOrder(f[k + 1]) /\ ToSet(f[k + 1]) = shown(k + 1)
      OBVIOUS
    <3>1. /\ k \in Nat /\ n \in Nat /\ k <= n /\ k \in 0..n /\ k + 1 \in 1..n
          /\ (k + 1) - 1 = k
      BY <1>1
    <3> DEFINE s == segs[k + 1]
               a == f[k]
               c == cuts[k + 1]
    <3>2. InOrder(a) /\ ToSet(a) = shown(k) /\ a \in Seq(Nat)
      <4>1. k <= n => InOrder(f[k]) /\ ToSet(f[k]) = shown(k)
        OBVIOUS
      <4>2. f[k] \in Seq(Nat)
        BY <1>6, <3>1
      <4> QED BY <3>1, <4>1, <4>2
    <3>3. f[k + 1] = a \o c
      BY <1>6, <3>1
    <3>4. c \in Seq(Nat) /\ InOrder(c) /\ ToSet(c) = Stretch(s)
      <4>1. s \in Segments /\ s.start < s.end /\ s.end <= asked.halves
        BY <1>1, <2>1, <3>1
      <4>2. c = Cut(Source(asked), s)
        BY <1>3, <3>1
      <4> HIDE DEF s, c
      <4> QED BY <4>1, <4>2, CutShowsStretch
    <3>5. ASSUME NEW x \in ToSet(a), NEW y \in ToSet(c) PROVE x < y
      <4>1. PICK i \in 1..k : x \in Stretch(segs[i])
        BY <3>2
      <4>2. i \in 1..n /\ i < k + 1
        <5> HIDE DEF K
        <5> QED BY <3>1
      <4>3. segs[i].end <= segs[k + 1].start
        BY <2>1, <3>1, <4>2
      <4>4. x \in Nat /\ x < segs[i].end /\ y \in Nat /\ segs[k + 1].start <= y
        BY <3>4, <4>1 DEF Stretch
      <4>5. segs[i].end \in Nat /\ segs[k + 1].start \in Nat
        BY <1>1, <3>1, <4>2 DEF Segments
      <4> QED BY <4>3, <4>4, <4>5
    <3> HIDE DEF a, c, s
    <3>6. InOrder(a \o c) /\ ToSet(a \o c) = ToSet(a) \cup ToSet(c)
      BY <3>2, <3>4, <3>5, AppendedInOrder
    <3>7. shown(k + 1) = shown(k) \cup Stretch(s)
      <4>1. \A i \in 1..(k + 1) : i \in 1..k \/ i = k + 1
        BY <3>1
      <4>2. \A i \in 1..k : i \in 1..(k + 1)
        BY <3>1
      <4>3. k + 1 \in 1..(k + 1)
        BY <3>1
      <4>4. \A t \in Stretch(s) : t \in Nat
        BY DEF Stretch
      <4> QED BY <4>1, <4>2, <4>3, <4>4 DEF s
    <3> QED BY <3>2, <3>3, <3>4, <3>6, <3>7
  <2>4. K = Nat
    <3> HIDE DEF K
    <3>1. K \in SUBSET Nat
      BY DEF K
    <3> QED BY <2>2, <2>3, <3>1, SetInduction
  <2>5. n \in K
    <3> HIDE DEF K
    <3> QED BY <1>1, <2>4
  <2>6. InOrder(file) /\ ToSet(file) = shown(n)
    BY <1>1, <1>4, <1>6, <2>5
  <2>7. shown(n) = UNION {Stretch(s) : s \in ToSet(segs)}
    <3>1. \A i \in 1..n : \A t \in Stretch(segs[i]) : t \in Nat
      BY DEF Stretch
    <3> QED BY <1>2, <3>1
  <2> QED BY <2>6, <2>7
<1> QED BY <1>7, <1>8 DEF file, segs

(* What every build but the encrypted one shows: what the request keeps.      *)
LEMMA InputShows ==
  ASSUME asked \in Asked, Validate(asked.edit)
  PROVE  LET shows == TrimInput(Input.file, Input.edit)
         IN /\ Input.file \in Seq(Nat)
            /\ WithinSource => /\ shows \in Seq(Nat) /\ ToSet(shows) = Kept /\ InOrder(shows)
<1> DEFINE k == EditKept
           segs == k.segments
           shows == TrimInput(Input.file, Input.edit)
           n == Len(segs)
<1>1. /\ segs \in Seq(Segments) /\ Disjoint(segs) /\ n \in Nat /\ DOMAIN segs = 1..n
      /\ n = Len(asked.edit.segments) /\ ToSet(segs) = ToSet(asked.edit.segments)
  BY KeptEdit
<1>2. asked.halves \in Nat \ {0} /\ asked.edit.segments \in Seq([start : Int, end : Int])
  BY AskedTypes
<1>3. WithinSource => \A s \in ToSet(segs) : s.end <= asked.halves
  BY <1>1 DEF WithinSource
<1>4. asked.edit.segments = <<>> <=> n = 0
  BY <1>1, <1>2
<1>5. /\ ~IsTemporal(k) => Input.file = Source(asked) /\ Input.edit = k
      /\ IsTemporal(k) => /\ Input.file = BuildEditedSource(Source(asked), k)
                          /\ ~Trims(Input.edit)
  BY InputEdit
<1>6. \A s \in ToSet(segs) : s \in Segments /\ s.start < s.end
  <2> TAKE s \in ToSet(segs)
  <2>1. PICK i \in 1..n : s = segs[i]
    BY <1>1 DEF ToSet
  <2> QED BY <1>1, <2>1, ElementOfSeq DEF Disjoint
<1>7. ASSUME n # 0, WithinSource
      PROVE  Kept = UNION {Stretch(s) : s \in ToSet(segs)}
  <2>1. ASSUME NEW s \in ToSet(segs), NEW t \in Stretch(s) PROVE t \in 0..asked.halves - 1
    <3>1. s.end <= asked.halves /\ s.end \in Nat /\ s.start \in Nat
      BY <1>3, <1>6, <1>7, <2>1 DEF Segments
    <3> QED BY <1>2, <3>1 DEF Stretch
  <2>2. \A t \in 0..asked.halves - 1 : t \in Nat
    BY <1>2
  <2>3. Kept = {t \in 0..asked.halves - 1 : \E s \in ToSet(segs) : s.start <= t /\ t < s.end}
    BY <1>1, <1>4, <1>7 DEF Kept
  <2> QED BY <2>1, <2>2, <2>3 DEF Stretch
<1> HIDE DEF segs, n, k
<1>8. CASE n = 0
  <2>1. ~IsTemporal(k) /\ ~Trims(k)
    BY <1>8 DEF IsTemporal, Trims, n, segs
  <2>2. shows = Source(asked) /\ Input.file = Source(asked)
    BY <1>5, <2>1 DEF TrimInput
  <2>3. /\ Source(asked) \in Seq(Nat) /\ Len(Source(asked)) = asked.halves
        /\ \A i \in 1..asked.halves : Source(asked)[i] = i - 1
    BY SourceHalves
  <2>4. InOrder(Source(asked))
    <3>1. ASSUME NEW i \in 1..asked.halves - 1 PROVE Source(asked)[i] < Source(asked)[i + 1]
      <4>1. i \in 1..asked.halves /\ i + 1 \in 1..asked.halves
        BY <1>2
      <4> QED BY <2>3, <4>1
    <3> QED BY <2>3, <3>1 DEF InOrder
  <2>5. ToSet(Source(asked)) = Kept
    <3>1. Kept = 0..asked.halves - 1
      BY <1>4, <1>8 DEF Kept
    <3>2. ToSet(Source(asked)) = {Source(asked)[i] : i \in 1..asked.halves}
      BY <2>3 DEF ToSet
    <3>3. \A i \in 1..asked.halves : Source(asked)[i] \in 0..asked.halves - 1
      BY <1>2, <2>3
    <3>4. ASSUME NEW t \in 0..asked.halves - 1
          PROVE  \E i \in 1..asked.halves : Source(asked)[i] = t
      <4>1. t + 1 \in 1..asked.halves /\ (t + 1) - 1 = t
        BY <1>2
      <4> QED BY <2>3, <4>1
    <3> QED BY <3>1, <3>2, <3>3, <3>4
  <2> QED BY <2>2, <2>3, <2>4, <2>5
<1>9. CASE n = 1
  <2>1. ~IsTemporal(k) /\ Trims(k)
    BY <1>9 DEF IsTemporal, Trims, n, segs
  <2>2. Input.file = Source(asked) /\ shows = Cut(Source(asked), segs[1])
    BY <1>5, <2>1 DEF TrimInput, segs
  <2>3. ToSet(segs) = {segs[1]}
    <3>1. DOMAIN segs = {1}
      BY <1>1, <1>9
    <3> QED BY <3>1 DEF ToSet
  <2>4. segs[1] \in ToSet(segs)
    BY <2>3
  <2>5. segs[1] \in Segments /\ segs[1].start < segs[1].end
    BY <1>6, <2>4
  <2>6. ASSUME WithinSource PROVE Kept = Stretch(segs[1])
    BY <1>7, <1>9, <2>3, <2>6
  <2>7. ASSUME WithinSource
        PROVE  shows \in Seq(Nat) /\ InOrder(shows) /\ ToSet(shows) = Stretch(segs[1])
    <3>1. segs[1].end <= asked.halves
      BY <1>3, <2>4, <2>7
    <3> QED BY <2>2, <2>5, <3>1, CutShowsStretch
  <2> QED BY <2>2, <2>6, <2>7, SourceHalves
<1>10. CASE n > 1
  <2>1. IsTemporal(k)
    BY <1>10 DEF IsTemporal, n, segs
  <2>2. Input.file = BuildEditedSource(Source(asked), k) /\ shows = Input.file
    BY <1>5, <2>1 DEF TrimInput
  <2>3. /\ Input.file \in Seq(Nat)
        /\ WithinSource =>
             InOrder(Input.file) /\ ToSet(Input.file) = UNION {Stretch(s) : s \in ToSet(segs)}
    <3>1. k.segments \in Seq(Segments)
      BY <1>1 DEF segs
    <3> QED BY <1>1, <1>3, <2>2, <3>1, JoinedCuts DEF segs
  <2>4. WithinSource => Kept = UNION {Stretch(s) : s \in ToSet(segs)}
    BY <1>1, <1>7, <1>10
  <2> HIDE DEF shows
  <2>5. WithinSource => shows \in Seq(Nat) /\ ToSet(shows) = Kept /\ InOrder(shows)
    BY <2>2, <2>3, <2>4
  <2> QED BY <2>3, <2>5 DEF shows
<1>11. n \in Nat
  BY <1>1
<1> QED BY <1>8, <1>9, <1>10, <1>11

(* What is in order has as many half seconds as it is long. *)
LEMMA OrderedCounts ==
  ASSUME NEW s \in Seq(Nat), InOrder(s)
  PROVE  Cardinality(ToSet(s)) = Len(s)
<1> DEFINE n == Len(s)
<1>1. n \in Nat /\ s \in [1..n -> Nat] /\ DOMAIN s = 1..n
  BY LenProperties
<1>2. \A i \in 1..n - 1 : s[i] < s[i + 1]
  BY DEF InOrder
<1>3. ToSet(s) = {s[i] : i \in 1..n}
  BY <1>1 DEF ToSet
<1> HIDE DEF n
<1> DEFINE K == {d \in Nat : \A i \in 1..n : i + 1 + d <= n => s[i] < s[i + 1 + d]}
<1>4. 0 \in K
  <2>1. ASSUME NEW i \in 1..n, i + 1 + 0 <= n PROVE s[i] < s[i + 1 + 0]
    <3>1. i \in 1..n - 1 /\ i + 1 + 0 = i + 1
      BY <1>1, <2>1
    <3> QED BY <1>2, <3>1
  <2> QED BY <2>1
<1>5. ASSUME NEW d \in K PROVE d + 1 \in K
  <2>1. d \in Nat /\ \A i \in 1..n : i + 1 + d <= n => s[i] < s[i + 1 + d]
    OBVIOUS
  <2> HIDE DEF K
  <2>2. ASSUME NEW i \in 1..n, i + 1 + (d + 1) <= n PROVE s[i] < s[i + 1 + (d + 1)]
    <3>1. /\ i + 1 + d <= n /\ i + 1 + d \in 1..n - 1 /\ i + 1 + d \in 1..n
          /\ (i + 1 + d) + 1 = i + 1 + (d + 1) /\ i + 1 + (d + 1) \in 1..n
      BY <1>1, <2>1, <2>2
    <3>2. s[i] < s[i + 1 + d] /\ s[i + 1 + d] < s[i + 1 + (d + 1)]
      BY <1>2, <2>1, <3>1
    <3>3. s[i] \in Nat /\ s[i + 1 + d] \in Nat /\ s[i + 1 + (d + 1)] \in Nat
      BY <1>1, <3>1
    <3> QED BY <3>2, <3>3
  <2> QED BY <2>1, <2>2 DEF K
<1>6. K = Nat
  <2> HIDE DEF K
  <2>1. K \in SUBSET Nat
    BY DEF K
  <2> QED BY <1>4, <1>5, <2>1, SetInduction
<1>7. ASSUME NEW i \in 1..n, NEW j \in 1..n, i < j PROVE s[i] < s[j]
  <2> DEFINE d == j - i - 1
  <2>1. d \in Nat /\ i + 1 + d = j /\ i + 1 + d <= n
    BY <1>1, <1>7
  <2>2. d \in K
    <3> HIDE DEF K
    <3> QED BY <1>6, <2>1
  <2> HIDE DEF d
  <2>3. s[i] < s[i + 1 + d]
    BY <2>1, <2>2
  <2> QED BY <2>1, <2>3
<1> HIDE DEF K
<1>8. \A i, j \in 1..n : s[i] = s[j] => i = j
  <2> TAKE i, j \in 1..n
  <2>1. s[i] \in Nat /\ s[j] \in Nat
    BY <1>1
  <2>2. i < j => s[i] < s[j]
    BY <1>7
  <2>3. j < i => s[j] < s[i]
    BY <1>7
  <2> QED BY <1>1, <2>1, <2>2, <2>3
<1>9. s \in [1..n -> ToSet(s)] /\ \A t \in ToSet(s) : \E i \in 1..n : s[i] = t
  BY <1>1, <1>3
<1> QED BY <1>1, <1>8, <1>9, OneToOneCounts DEF n

(* The row's seconds are half of what is shown, and the poster is of it. *)
LEMMA SecondsCount == ASSUME asked \in Asked, Validate(asked.edit) PROVE SecondsKept \in Nat
<1> DEFINE in == Input
<1>1. /\ in.file \in Seq(Nat)
      /\ ~IsTemporal(EditKept) => in.edit = EditKept
      /\ IsTemporal(EditKept) => ~Trims(in.edit)
  BY InputShows, InputEdit
<1>2. EditKept.segments \in Seq(Segments) /\ Disjoint(EditKept.segments)
  BY KeptEdit
<1>3. ASSUME Trims(in.edit)
      PROVE  /\ in.edit.segments[1].start \in Nat /\ in.edit.segments[1].end \in Nat
             /\ in.edit.segments[1].start < in.edit.segments[1].end
  <2>1. in.edit = EditKept /\ Len(EditKept.segments) = 1
    BY <1>1, <1>3 DEF Trims
  <2>2. 1 \in 1..Len(EditKept.segments)
    BY <2>1
  <2>3. EditKept.segments[1] \in Segments
    BY <1>2, <2>2, ElementOfSeq
  <2> QED BY <1>2, <2>1, <2>2, <2>3 DEF Segments, Disjoint
<1>4. SecondsKept =
        (IF Trims(in.edit) THEN in.edit.segments[1].end - in.edit.segments[1].start
         ELSE Len(in.file)) \div 2
  BY DEF SecondsKept, DurationSeconds
<1>5. Len(in.file) \in Nat
  BY <1>1
<1> HIDE DEF in
<1> QED BY <1>3, <1>4, <1>5

LEMMA RecordedMatchesShown ==
  ASSUME asked \in Asked, Validate(asked.edit), WithinSource
  PROVE  /\ SecondsKept = Cardinality(Kept) \div 2
         /\ \/ H264Plan.poster \in Kept
            \/ ~Trims(asked.edit) /\ Cardinality(Kept) <= 6
<1> DEFINE file == Input.file
           e == Input.edit
           shows == TrimInput(file, e)
           s == e.segments[1]
<1>1. shows \in Seq(Nat) /\ ToSet(shows) = Kept /\ InOrder(shows) /\ file \in Seq(Nat)
  BY InputShows
<1>2. Cardinality(Kept) = Len(shows)
  <2> HIDE DEF shows
  <2> QED BY <1>1, OrderedCounts
<1>3. /\ Trims(e) <=> Trims(asked.edit)
      /\ ~IsTemporal(EditKept) => file = Source(asked) /\ e = EditKept
      /\ IsTemporal(EditKept) => ~Trims(e)
  BY InputEdit
<1>4. H264Plan.poster = IF PosterTime(e) < Len(file) THEN file[PosterTime(e) + 1] ELSE -1
  BY DEF H264Plan, BuildHLS, BuildArgs
<1>5. SecondsKept = (IF Trims(e) THEN s.end - s.start ELSE Len(file)) \div 2
  BY DEF SecondsKept, DurationSeconds
<1>6. CASE Trims(e)
  <2>1. file = Source(asked) /\ e = EditKept /\ Len(EditKept.segments) = 1
    BY <1>3, <1>6 DEF Trims
  <2>2. /\ EditKept.segments \in Seq(Segments) /\ Disjoint(EditKept.segments)
        /\ ToSet(EditKept.segments) = ToSet(asked.edit.segments)
    BY KeptEdit
  <2>3. 1 \in 1..Len(EditKept.segments) /\ s = EditKept.segments[1]
    BY <2>1
  <2>4. s \in Segments /\ s.start < s.end /\ s \in ToSet(asked.edit.segments)
    <3>1. EditKept.segments[1] \in ToSet(EditKept.segments)
      BY <2>1, <2>2 DEF ToSet
    <3> QED BY <2>2, <2>3, <3>1, ElementOfSeq DEF Disjoint
  <2>5. s.end <= asked.halves
    BY <2>4 DEF WithinSource
  <2>6. shows = Cut(Source(asked), s)
    BY <1>6, <2>1 DEF TrimInput
  <2> DEFINE t == PosterTime(e)
  <2>7. t = IF s.start + 6 >= s.end THEN (s.start + s.end) \div 2 ELSE s.start + 6
    BY <1>6 DEF PosterTime
  <2>8. s.start \in Nat /\ s.end \in Nat /\ asked.halves \in Nat
    BY <2>4, AskedTypes DEF Segments
  <2> HIDE DEF s, t
  <2>9. t \in Nat /\ s.start <= t /\ t < s.end
    BY <2>4, <2>7, <2>8
  <2>10. t < asked.halves /\ t + 1 \in 1..asked.halves /\ (t + 1) - 1 = t
    BY <2>5, <2>8, <2>9
  <2>11. Len(file) = asked.halves /\ file[t + 1] = t
    <3> HIDE DEF file
    <3> QED BY <2>1, <2>10, SourceHalves
  <2>12. H264Plan.poster = t
    BY <1>4, <2>10, <2>11 DEF t
  <2>13. t \in Stretch(s)
    BY <2>9 DEF Stretch
  <2>14. ToSet(shows) = Stretch(s) /\ Len(shows) = s.end - s.start
    BY <2>4, <2>5, <2>6, CutShowsStretch, CutHalves
  <2> QED BY <1>1, <1>2, <1>5, <1>6, <2>12, <2>13, <2>14
<1>7. CASE ~Trims(e)
  <2>1. shows = file
    BY <1>7 DEF TrimInput
  <2>2. PosterTime(e) = 6
    BY <1>7 DEF PosterTime
  <2>3. SecondsKept = Cardinality(Kept) \div 2
    BY <1>2, <1>5, <1>7, <2>1
  <2>4. CASE 6 < Len(file)
    <3>1. H264Plan.poster = file[6 + 1] /\ Len(file) \in Nat
      BY <1>1, <1>4, <2>2, <2>4
    <3>2. 6 + 1 \in DOMAIN file
      <4> HIDE DEF file
      <4> QED BY <1>1, <2>4
    <3>3. file[6 + 1] \in ToSet(file)
      BY <3>2 DEF ToSet
    <3> QED BY <1>1, <2>1, <2>3, <3>1, <3>3
  <2>5. CASE ~(6 < Len(file))
    <3>1. Len(file) \in Nat
      BY <1>1
    <3>2. Len(shows) <= 6
      BY <2>1, <2>5, <3>1
    <3> QED BY <1>2, <1>3, <1>7, <2>3, <3>2
  <2> QED BY <2>4, <2>5
<1> QED BY <1>6, <1>7

-----------------------------------------------------------------------------
(* What the chain of filters does to the picture. *)

Filters == {"crop", "clock", "cclock", "hflip", "vflip"}
Cropping(e) == IF HasCrop(e) THEN 1 ELSE 0
Turning(e) == IF e.rotate = 0 THEN 0 ELSE IF e.rotate = 180 THEN 2 ELSE 1
Flipping(e) == IF e.flip = "none" THEN 0 ELSE 1

LEMMA ChainParts ==
  ASSUME NEW e, e.rotate \in {0, 90, 180, 270}, e.flip \in {"none", "h", "v"}
  PROVE  LET c == EditVideoChain(e)
             p == Cropping(e)
             m == Turning(e)
         IN /\ c \in Seq(Filters) /\ Len(c) = p + m + Flipping(e)
            /\ p = 1 => c[1] = "crop"
            /\ m = 1 => c[p + 1] = IF e.rotate = 90 THEN "clock" ELSE "cclock"
            /\ m = 2 => c[p + 1] = "cclock" /\ c[p + 2] = "cclock"
            /\ Flipping(e) = 1 => c[p + m + 1] \in {"hflip", "vflip"}
<1> DEFINE a == IF HasCrop(e) THEN <<"crop">> ELSE <<>>
           b == CASE e.rotate = 90 -> <<"clock">> [] e.rotate = 180 -> <<"cclock", "cclock">>
                  [] e.rotate = 270 -> <<"cclock">> [] OTHER -> <<>>
           d == CASE e.flip = "h" -> <<"hflip">> [] e.flip = "v" -> <<"vflip">> [] OTHER -> <<>>
           p == Cropping(e)
           m == Turning(e)
           f == Flipping(e)
<1>1. a \in Seq(Filters) /\ Len(a) = p /\ (p = 1 => a[1] = "crop") /\ p \in 0..1
  <2>1. CASE HasCrop(e)
    <3>1. a = <<"crop">> /\ p = 1
      BY <2>1 DEF Cropping
    <3>2. <<"crop">> \in Seq(Filters) /\ Len(<<"crop">>) = 1 /\ <<"crop">>[1] = "crop"
      BY DEF Filters
    <3> HIDE DEF a, d, p, f
    <3> QED BY <3>1, <3>2
  <2>2. CASE ~HasCrop(e)
    <3>1. a = <<>> /\ p = 0
      BY <2>2 DEF Cropping
    <3> QED BY <3>1
  <2> QED BY <2>1, <2>2
<1>2. /\ b \in Seq(Filters) /\ Len(b) = m /\ m \in 0..2
      /\ m = 1 => b[1] = IF e.rotate = 90 THEN "clock" ELSE "cclock"
      /\ m = 2 => b[1] = "cclock" /\ b[2] = "cclock"
  <2>1. CASE e.rotate = 0
    <3>1. b = <<>> /\ m = 0
      BY <2>1 DEF Turning
    <3> QED BY <3>1
  <2>2. CASE e.rotate = 90
    <3>1. b = <<"clock">> /\ m = 1
      BY <2>2 DEF Turning
    <3> QED BY <2>2, <3>1 DEF Filters
  <2>3. CASE e.rotate = 180
    <3>1. b = <<"cclock", "cclock">> /\ m = 2
      BY <2>3 DEF Turning
    <3> QED BY <2>3, <3>1 DEF Filters
  <2>4. CASE e.rotate = 270
    <3>1. b = <<"cclock">> /\ m = 1
      BY <2>4 DEF Turning
    <3> QED BY <2>4, <3>1 DEF Filters
  <2> QED BY <2>1, <2>2, <2>3, <2>4
<1>3. d \in Seq(Filters) /\ Len(d) = f /\ f \in 0..1 /\ (f = 1 => d[1] \in {"hflip", "vflip"})
  <2>1. CASE e.flip = "none"
    <3>1. d = <<>> /\ f = 0
      BY <2>1 DEF Flipping
    <3> QED BY <3>1
  <2>2. CASE e.flip = "h"
    <3>1. d = <<"hflip">> /\ f = 1
      BY <2>2 DEF Flipping
    <3>2. <<"hflip">> \in Seq(Filters) /\ Len(<<"hflip">>) = 1 /\ <<"hflip">>[1] = "hflip"
      BY DEF Filters
    <3> HIDE DEF a, d, p, f
    <3> QED BY <3>1, <3>2
  <2>3. CASE e.flip = "v"
    <3>1. d = <<"vflip">> /\ f = 1
      BY <2>3 DEF Flipping
    <3>2. <<"vflip">> \in Seq(Filters) /\ Len(<<"vflip">>) = 1 /\ <<"vflip">>[1] = "vflip"
      BY DEF Filters
    <3> HIDE DEF a, d, p, f
    <3> QED BY <3>1, <3>2
  <2> QED BY <2>1, <2>2, <2>3
<1>4. EditVideoChain(e) = (a \o b) \o d
  BY DEF EditVideoChain
<1> HIDE DEF a, b, d, p, m, f
<1>5. /\ a \o b \in Seq(Filters) /\ Len(a \o b) = p + m
      /\ \A i \in 1..(p + m) : (a \o b)[i] = IF i <= p THEN a[i] ELSE b[i - p]
  BY <1>1, <1>2, ConcatProperties
<1> DEFINE c == a \o b
           whole == c \o d
<1>6. /\ whole \in Seq(Filters) /\ Len(whole) = p + m + f
      /\ \A i \in 1..(p + m + f) : whole[i] = IF i <= p + m THEN c[i] ELSE d[i - (p + m)]
  <2>1. c \in Seq(Filters) /\ Len(c) = p + m
    BY <1>5
  <2> HIDE DEF c
  <2> QED BY <1>1, <1>2, <1>3, <2>1, ConcatProperties
<1>7. \A i \in 1..(p + m) : whole[i] = IF i <= p THEN a[i] ELSE b[i - p]
  <2> TAKE i \in 1..(p + m)
  <2>1. i \in 1..(p + m + f) /\ i <= p + m
    BY <1>1, <1>2, <1>3
  <2>2. whole[i] = c[i]
    BY <1>6, <2>1
  <2> QED BY <1>5, <2>2
<1> HIDE DEF c, whole
<1>8. p = 1 => whole[1] = "crop"
  BY <1>1, <1>2, <1>7
<1>9. m = 1 => whole[p + 1] = b[1]
  BY <1>1, <1>2, <1>7
<1>10. m = 2 => whole[p + 1] = b[1] /\ whole[p + 2] = b[2]
  BY <1>1, <1>2, <1>7
<1>11. f = 1 => whole[p + m + 1] = d[1]
  BY <1>1, <1>2, <1>3, <1>6
<1>12. EditVideoChain(e) = whole
  BY <1>4 DEF whole, c
<1> QED BY <1>2, <1>3, <1>6, <1>8, <1>9, <1>10, <1>11, <1>12 DEF p, m, f

LEMMA TurnsUnfold ==
  ASSUME NEW chain \in Seq(Filters)
  PROVE  \E t : /\ t[0] = 0 /\ TurnedBy(chain) = t[Len(chain)]
               /\ \A i \in 1..Len(chain) : t[i] = (t[i - 1] + Turn(chain[i])) % 360
<1> DEFINE n == Len(chain)
           S == Nat
           step == [i \in 1..n |-> [x \in S |-> (x + Turn(chain[i])) % 360]]
           base == 0
           Rec(g) == g = [i \in 0..n |-> IF i = 0 THEN 0
                                        ELSE (g[i - 1] + Turn(chain[i])) % 360]
           c == CHOOSE g : Rec(g)
<1>1. n \in Nat /\ base \in S
  OBVIOUS
<1>2. \A i \in 1..n : Turn(chain[i]) \in {0, 90, 270}
  BY DEF Turn
<1>3. TurnedBy(chain) = c[n]
  BY DEF TurnedBy
<1> HIDE DEF n
<1>4. \A i \in 1..n : \A x \in S : (x + Turn(chain[i])) % 360 \in S
  <2> TAKE i \in 1..n
  <2> TAKE x \in S
  <2>1. Turn(chain[i]) \in Nat
    BY <1>2
  <2> DEFINE y == x + Turn(chain[i])
  <2>2. y \in Nat
    BY <2>1
  <2> HIDE DEF y
  <2>3. y % 360 \in Nat
    BY <2>2
  <2> QED BY <2>3 DEF y
<1>5. step \in [1..n -> [S -> S]]
  BY <1>4
<1>6. PICK f \in [0..n -> S] : f[0] = base /\ \A i \in 1..n : f[i] = step[i][f[i - 1]]
  <2> HIDE DEF S, step, base
  <2>1. Recursion(S, base, n, step) # {}
    BY <1>1, <1>5, RecursionExists
  <2> QED BY <2>1 DEF Recursion
<1>7. Rec(f)
  <2>1. \A i \in 0..n : f[i] = IF i = 0 THEN 0 ELSE (f[i - 1] + Turn(chain[i])) % 360
    <3> TAKE i \in 0..n
    <3>1. CASE i = 0
      BY <1>6, <3>1
    <3>2. CASE i # 0
      <4>1. i \in 1..n /\ i - 1 \in 0..n
        BY <1>1, <3>2
      <4>2. f[i - 1] \in S
        BY <1>6, <4>1
      <4> QED BY <1>6, <3>2, <4>1, <4>2
    <3> QED BY <3>1, <3>2
  <2> QED BY <1>6, <2>1
<1>8. Rec(c)
  <2> HIDE DEF Rec
  <2> QED BY <1>7
<1>9. \A i \in 0..n : c[i] = IF i = 0 THEN 0 ELSE (c[i - 1] + Turn(chain[i])) % 360
  <2> HIDE DEF c
  <2> QED BY <1>8
<1> HIDE DEF c, Rec
<1>10. c[0] = 0 /\ \A i \in 1..n : c[i] = (c[i - 1] + Turn(chain[i])) % 360
  <2>1. 0 \in 0..n /\ \A i \in 1..n : i \in 0..n /\ i # 0
    BY <1>1
  <2> QED BY <1>9, <2>1
<1> QED BY <1>3, <1>10 DEF n

LEMMA ChainTurns ==
  ASSUME NEW e, e.rotate \in {0, 90, 180, 270}, e.flip \in {"none", "h", "v"}
  PROVE  TurnedBy(EditVideoChain(e)) = e.rotate
<1> DEFINE c == EditVideoChain(e)
           p == Cropping(e)
           m == Turning(e)
           f == Flipping(e)
           n == Len(c)
<1>1. /\ c \in Seq(Filters) /\ n = p + m + f
      /\ p = 1 => c[1] = "crop"
      /\ m = 1 => c[p + 1] = IF e.rotate = 90 THEN "clock" ELSE "cclock"
      /\ m = 2 => c[p + 1] = "cclock" /\ c[p + 2] = "cclock"
      /\ f = 1 => c[p + m + 1] \in {"hflip", "vflip"}
  BY ChainParts
<1>2. p \in 0..1 /\ m \in 0..2 /\ f \in 0..1
  BY DEF Cropping, Turning, Flipping
<1>3. PICK t : /\ t[0] = 0 /\ TurnedBy(c) = t[n]
               /\ \A i \in 1..n : t[i] = (t[i - 1] + Turn(c[i])) % 360
  <2> HIDE DEF c
  <2> QED BY <1>1, TurnsUnfold
<1>4. /\ m = 0 <=> e.rotate = 0
      /\ m = 2 <=> e.rotate = 180
  BY DEF Turning
<1> HIDE DEF c, p, m, f, n
<1>5. t[p] = 0
  <2>1. CASE p = 1
    <3>1. 1 \in 1..n /\ 1 - 1 = 0 /\ Turn(c[1]) = 0
      BY <1>1, <1>2, <2>1 DEF Turn
    <3>2. t[1] = (0 + 0) % 360
      BY <1>3, <3>1
    <3> QED BY <2>1, <3>2
  <2> QED BY <1>2, <1>3, <2>1
<1>6. t[p + m] = e.rotate
  <2>1. CASE m = 0
    BY <1>2, <1>4, <1>5, <2>1
  <2>2. CASE m = 1
    <3>1. p + 1 \in 1..n /\ (p + 1) - 1 = p
      BY <1>1, <1>2, <2>2
    <3>2. Turn(c[p + 1]) = IF e.rotate = 90 THEN 90 ELSE 270
      BY <1>1, <2>2 DEF Turn
    <3>3. Turn(c[p + 1]) = e.rotate /\ e.rotate \in {90, 270}
      BY <1>4, <2>2, <3>2
    <3>4. t[p + 1] = (t[p] + Turn(c[p + 1])) % 360
      BY <1>3, <3>1
    <3>5. t[p + 1] = (0 + e.rotate) % 360
      BY <1>5, <3>3, <3>4
    <3> QED BY <2>2, <3>3, <3>5
  <2>3. CASE m = 2
    <3>1. p + 1 \in 1..n /\ (p + 1) - 1 = p /\ p + 2 \in 1..n /\ (p + 2) - 1 = p + 1
      BY <1>1, <1>2, <2>3
    <3>2. Turn(c[p + 1]) = 270 /\ Turn(c[p + 2]) = 270
      BY <1>1, <2>3 DEF Turn
    <3>3. t[p + 1] = (0 + 270) % 360 /\ t[p + 2] = (t[p + 1] + 270) % 360
      BY <1>3, <1>5, <3>1, <3>2
    <3>4. t[p + 2] = 180
      BY <3>3
    <3> QED BY <1>4, <2>3, <3>4
  <2> QED BY <1>2, <2>1, <2>2, <2>3
<1>7. t[n] = e.rotate
  <2>1. CASE f = 0
    BY <1>1, <1>2, <1>6, <2>1
  <2>2. CASE f = 1
    <3>1. n = p + m + 1 /\ n \in 1..n /\ n - 1 = p + m
      BY <1>1, <1>2, <2>2
    <3>2. Turn(c[n]) = 0
      BY <1>1, <2>2, <3>1 DEF Turn
    <3>3. t[n] = (e.rotate + 0) % 360
      BY <1>3, <1>6, <3>1, <3>2
    <3> QED BY <3>3
  <2> QED BY <1>2, <2>1, <2>2
<1> QED BY <1>3, <1>7 DEF c

LEMMA EvenType == ASSUME NEW n \in Nat PROVE Even(n) \in Nat /\ Even(n) <= n /\ Even(Even(n)) = Even(n)
  BY DEF Even

(* A crop of a side, by quarters. *)
LEMMA CropType ==
  ASSUME NEW side \in Nat, NEW quarters \in 1..4
  PROVE  (side * quarters) \div 4 \in Nat
<1>1. CASE quarters = 1
  BY <1>1
<1>2. CASE quarters = 2
  BY <1>2
<1>3. CASE quarters = 3
  BY <1>3
<1>4. CASE quarters = 4
  BY <1>4
<1> QED BY <1>1, <1>2, <1>3, <1>4

LEMMA CropQuarters ==
  ASSUME asked \in Asked, Validate(asked.edit)
  PROVE  asked.edit.crop.w \in 1..4 /\ asked.edit.crop.h \in 1..4
<1> DEFINE c == asked.edit.crop
<1>1. c.x \in Int /\ c.y \in Int /\ c.w \in Int /\ c.h \in Int
  BY AskedTypes
<1>2. c.w > 0 /\ c.h > 0 /\ c.x >= 0 /\ c.y >= 0 /\ c.x + c.w <= 4 /\ c.y + c.h <= 4
  BY DEF Validate
<1> HIDE DEF c
<1>3. c.w \in 1..4 /\ c.h \in 1..4
  BY <1>1, <1>2
<1> QED BY <1>3 DEF c

LEMMA FramesUnfold ==
  ASSUME asked \in Asked, Validate(asked.edit), NEW chain \in Seq(Filters)
  PROVE  \E t : /\ t[0] = <<asked.width, asked.height>> /\ FrameAfter(chain) = t[Len(chain)]
                /\ \A i \in 1..Len(chain) : t[i] = Filtered(chain[i], t[i - 1])
<1> DEFINE n == Len(chain)
           S == Nat \X Nat
           step == [i \in 1..n |-> [x \in S |-> Filtered(chain[i], x)]]
           base == <<asked.width, asked.height>>
           Rec(g) == g = [i \in 0..n |-> IF i = 0 THEN base ELSE Filtered(chain[i], g[i - 1])]
           c == CHOOSE g : Rec(g)
<1>1. n \in Nat /\ base \in S
  BY AskedTypes
<1>2. asked.edit.crop.w \in 1..4 /\ asked.edit.crop.h \in 1..4
  BY CropQuarters
<1>3. FrameAfter(chain) = c[n]
  BY DEF FrameAfter
<1> HIDE DEF n
<1>4. \A op : \A x \in S : Filtered(op, x) \in S
  <2> TAKE op
  <2> TAKE x \in S
  <2>1. x[1] \in Nat /\ x[2] \in Nat
    OBVIOUS
  <2>2. CASE op = "crop"
    <3>1. /\ Even((x[1] * asked.edit.crop.w) \div 4) \in Nat
          /\ Even((x[2] * asked.edit.crop.h) \div 4) \in Nat
      BY <1>2, <2>1, CropType, EvenType
    <3> QED BY <2>2, <3>1 DEF Filtered
  <2>3. CASE op \in {"clock", "cclock"}
    BY <2>1, <2>3 DEF Filtered
  <2>4. CASE op \notin {"crop", "clock", "cclock"}
    BY <2>4 DEF Filtered
  <2> QED BY <2>2, <2>3, <2>4
<1>5. step \in [1..n -> [S -> S]]
  BY <1>4
<1>6. PICK f \in [0..n -> S] : f[0] = base /\ \A i \in 1..n : f[i] = step[i][f[i - 1]]
  <2> HIDE DEF S, step, base
  <2>1. Recursion(S, base, n, step) # {}
    BY <1>1, <1>5, RecursionExists
  <2> QED BY <2>1 DEF Recursion
<1> HIDE DEF base
<1>7. Rec(f)
  <2>1. \A i \in 0..n : f[i] = IF i = 0 THEN base ELSE Filtered(chain[i], f[i - 1])
    <3> TAKE i \in 0..n
    <3>1. CASE i = 0
      BY <1>6, <3>1
    <3>2. CASE i # 0
      <4>1. i \in 1..n /\ i - 1 \in 0..n
        BY <1>1, <3>2
      <4>2. f[i - 1] \in S
        BY <1>6, <4>1
      <4> QED BY <1>6, <3>2, <4>1, <4>2
    <3> QED BY <3>1, <3>2
  <2> HIDE DEF S, step
  <2> QED BY <1>6, <2>1
<1>8. Rec(c)
  <2> HIDE DEF Rec
  <2> QED BY <1>7
<1>9. \A i \in 0..n : c[i] = IF i = 0 THEN base ELSE Filtered(chain[i], c[i - 1])
  <2> HIDE DEF c
  <2> QED BY <1>8
<1> HIDE DEF c, Rec
<1>10. c[0] = base /\ \A i \in 1..n : c[i] = Filtered(chain[i], c[i - 1])
  <2>1. 0 \in 0..n /\ \A i \in 1..n : i \in 0..n /\ i # 0
    BY <1>1
  <2> QED BY <1>9, <2>1
<1> QED BY <1>3, <1>10 DEF n, base

(* One side of the frame recorded, against the side a crop leaves. *)
LEMMA SideRecorded ==
  ASSUME NEW side \in Nat, NEW quarters \in 1..4
  PROVE  LET cropped == (side * quarters) \div 4
             kept == Even(AtLeast2(cropped))
         IN /\ Even(cropped) >= 2 => Even(kept) = Even(Even(cropped))
            /\ quarters = 4 => cropped = side
            /\ quarters = 4 /\ side >= 2 => Even(kept) = Even(side)
<1> DEFINE cropped == (side * quarters) \div 4
<1>1. cropped \in Nat
  BY CropType
<1>2. quarters = 4 => cropped = side
  OBVIOUS
<1> HIDE DEF cropped
<1>3. /\ Even(cropped) <= cropped /\ Even(cropped) \in Nat
      /\ Even(Even(cropped)) = Even(cropped)
  BY <1>1, EvenType
<1>4. cropped >= 2 => AtLeast2(cropped) = cropped
  BY <1>1 DEF AtLeast2
<1>5. Even(cropped) >= 2 => cropped >= 2
  BY <1>1, <1>3
<1>6. Even(cropped) >= 2 => Even(Even(AtLeast2(cropped))) = Even(Even(cropped))
  BY <1>3, <1>4, <1>5
<1>7. quarters = 4 /\ side >= 2 => Even(Even(AtLeast2(cropped))) = Even(side)
  BY <1>2, <1>3, <1>4
<1> QED BY <1>2, <1>6, <1>7 DEF cropped

LEMMA FrameMatches ==
  ASSUME asked \in Asked, Validate(asked.edit)
  PROVE  LET f == FrameAfter(EditVideoChain(Input.edit))
         IN \A i \in 1..2 : f[i] >= 2 => Even(FrameKept[i]) = Even(f[i])
<1> DEFINE e == Input.edit
           c == EditVideoChain(e)
           p == Cropping(e)
           m == Turning(e)
           f == Flipping(e)
           n == Len(c)
           W == asked.width
           H == asked.height
           qw == asked.edit.crop.w
           qh == asked.edit.crop.h
           rotate == asked.edit.rotate
           cropW == (W * qw) \div 4
           cropH == (H * qh) \div 4
           keptW == Even(AtLeast2(cropW))
           keptH == Even(AtLeast2(cropH))
<1>1. /\ e.crop = asked.edit.crop /\ e.rotate = rotate /\ e.flip = asked.edit.flip
  BY InputEdit
<1>2. rotate \in {0, 90, 180, 270} /\ asked.edit.flip \in {"none", "h", "v"}
  BY DEF Validate
<1>3. /\ c \in Seq(Filters) /\ n = p + m + f
      /\ p = 1 => c[1] = "crop"
      /\ m = 1 => c[p + 1] = IF rotate = 90 THEN "clock" ELSE "cclock"
      /\ m = 2 => c[p + 1] = "cclock" /\ c[p + 2] = "cclock"
      /\ f = 1 => c[p + m + 1] \in {"hflip", "vflip"}
  BY <1>1, <1>2, ChainParts
<1>4. p \in 0..1 /\ m \in 0..2 /\ f \in 0..1
  BY DEF Cropping, Turning, Flipping
<1>5. PICK t : /\ t[0] = <<W, H>> /\ FrameAfter(c) = t[n]
               /\ \A i \in 1..n : t[i] = Filtered(c[i], t[i - 1])
  <2> HIDE DEF c
  <2> QED BY <1>3, FramesUnfold
<1>6. /\ m = 0 <=> rotate = 0
      /\ m = 2 <=> rotate = 180
  BY <1>1 DEF Turning
<1>7. p = 0 => qw = 4 /\ qh = 4
  <2>1. p = 0 => asked.edit.crop = WholeFrame
    BY <1>1 DEF Cropping, HasCrop
  <2> QED BY <2>1 DEF WholeFrame
<1>8. W \in Nat /\ H \in Nat /\ qw \in 1..4 /\ qh \in 1..4
  BY AskedTypes, CropQuarters
<1>9. EditKept = NoEdit => p = 0 /\ m = 0 /\ f = 0
  <2>1. ASSUME EditKept = NoEdit PROVE /\ e.crop = WholeFrame /\ e.rotate = 0 /\ e.flip = "none"
    BY <1>1, <2>1, KeptEdit DEF NoEdit
  <2> QED BY <2>1 DEF Cropping, HasCrop, Turning, Flipping
<1>10. FrameKept = IF EditKept = NoEdit THEN <<W, H>>
                   ELSE IF rotate \in {90, 270} THEN <<keptH, keptW>> ELSE <<keptW, keptH>>
  <2>1. EditKept.crop = asked.edit.crop /\ EditKept.rotate = rotate
    BY KeptEdit
  <2> QED BY <2>1 DEF FrameKept, EditedDimensions
<1> HIDE DEF e, c, p, m, f, n, W, H, qw, qh, rotate
<1>11. t[p] = IF p = 1 THEN <<Even(cropW), Even(cropH)>> ELSE <<W, H>>
  <2>1. CASE p = 1
    <3>1. 1 \in 1..n /\ 1 - 1 = 0
      BY <1>3, <1>4, <2>1
    <3>2. t[1] = Filtered("crop", <<W, H>>)
      BY <1>3, <1>5, <2>1, <3>1
    <3> QED BY <2>1, <3>2 DEF Filtered, W, H, qw, qh
  <2> QED BY <1>4, <1>5, <2>1
<1> DEFINE u == IF p = 1 THEN Even(cropW) ELSE W
           v == IF p = 1 THEN Even(cropH) ELSE H
<1>12. t[p] = <<u, v>>
  BY <1>11
<1>13. t[p + m] = IF rotate \in {90, 270} THEN <<v, u>> ELSE <<u, v>>
  <2> HIDE DEF u, v
  <2>1. CASE m = 0
    BY <1>4, <1>6, <1>12, <2>1
  <2>2. CASE m = 1
    <3>1. p + 1 \in 1..n /\ (p + 1) - 1 = p
      BY <1>3, <1>4, <2>2
    <3>2. c[p + 1] \in {"clock", "cclock"} /\ rotate \in {90, 270}
      BY <1>2, <1>3, <1>6, <2>2 DEF rotate
    <3>3. t[p + 1] = Filtered(c[p + 1], <<u, v>>)
      BY <1>5, <1>12, <3>1
    <3> QED BY <2>2, <3>2, <3>3 DEF Filtered
  <2>3. CASE m = 2
    <3>1. p + 1 \in 1..n /\ (p + 1) - 1 = p /\ p + 2 \in 1..n /\ (p + 2) - 1 = p + 1
      BY <1>3, <1>4, <2>3
    <3>2. c[p + 1] = "cclock" /\ c[p + 2] = "cclock" /\ rotate = 180
      BY <1>3, <1>6, <2>3
    <3>3. Filtered("cclock", <<u, v>>) = <<v, u>> /\ Filtered("cclock", <<v, u>>) = <<u, v>>
      BY DEF Filtered
    <3>4. t[p + 1] = <<v, u>> /\ t[p + 2] = <<u, v>>
      BY <1>5, <1>12, <3>1, <3>2, <3>3
    <3> QED BY <2>3, <3>2, <3>4
  <2> QED BY <1>4, <2>1, <2>2, <2>3
<1>14. t[n] = t[p + m]
  <2>1. CASE f = 0
    BY <1>3, <1>4, <2>1
  <2>2. CASE f = 1
    <3>1. n = p + m + 1 /\ n \in 1..n /\ n - 1 = p + m
      BY <1>3, <1>4, <2>2
    <3>2. c[n] \in {"hflip", "vflip"}
      BY <1>3, <2>2, <3>1
    <3>3. t[n] = Filtered(c[n], t[p + m])
      BY <1>5, <3>1
    <3> QED BY <3>2, <3>3 DEF Filtered
  <2> QED BY <1>4, <2>1, <2>2
<1>15. /\ u >= 2 => Even(keptW) = Even(u)
       /\ v >= 2 => Even(keptH) = Even(v)
  <2>1. CASE p = 1
    BY <1>8, <2>1, SideRecorded
  <2>2. CASE p = 0
    BY <1>7, <1>8, <2>2, SideRecorded
  <2> QED BY <1>4, <2>1, <2>2
<1>16. EditKept = NoEdit => t[n] = <<W, H>>
  <2>1. ASSUME EditKept = NoEdit PROVE n = 0
    BY <1>3, <1>9, <2>1
  <2> QED BY <1>5, <2>1
<1>17. \A i \in 1..2 : t[n][i] >= 2 => Even(FrameKept[i]) = Even(t[n][i])
  <2> HIDE DEF u, v, keptW, keptH
  <2>1. CASE EditKept = NoEdit
    BY <1>10, <1>16, <2>1
  <2>2. CASE EditKept # NoEdit
    <3>1. CASE rotate \in {90, 270}
      <4>1. FrameKept = <<keptH, keptW>> /\ t[n] = <<v, u>>
        BY <1>10, <1>13, <1>14, <2>2, <3>1
      <4> QED BY <1>15, <4>1
    <3>2. CASE rotate \notin {90, 270}
      <4>1. FrameKept = <<keptW, keptH>> /\ t[n] = <<u, v>>
        BY <1>10, <1>13, <1>14, <2>2, <3>2
      <4> QED BY <1>15, <4>1
    <3> QED BY <3>1, <3>2
  <2> QED BY <2>1, <2>2
<1> QED BY <1>5, <1>17 DEF c, e

(* A chain that neither crops nor lays the frame on its side keeps its size. *)
LEMMA UprightFrame ==
  ASSUME asked \in Asked, Validate(asked.edit), NEW e, e.crop = WholeFrame,
         e.rotate \in {0, 180}, e.flip \in {"none", "h", "v"}
  PROVE  FrameAfter(EditVideoChain(e)) = <<asked.width, asked.height>>
<1> DEFINE c == EditVideoChain(e)
           m == Turning(e)
           f == Flipping(e)
           n == Len(c)
           W == asked.width
           H == asked.height
<1>1. Cropping(e) = 0
  BY DEF Cropping, HasCrop
<1>2. /\ c \in Seq(Filters) /\ n = m + f
      /\ m = 2 => c[1] = "cclock" /\ c[2] = "cclock"
      /\ f = 1 => c[m + 1] \in {"hflip", "vflip"}
      /\ m \in {0, 2} /\ f \in {0, 1}
  <2>1. e.rotate \in {0, 90, 180, 270}
    OBVIOUS
  <2>2. m \in {0, 2} /\ f \in {0, 1}
    BY DEF Turning, Flipping
  <2> HIDE DEF c, m, f
  <2> QED BY <1>1, <2>1, <2>2, ChainParts DEF c, m, f
<1>3. PICK t : /\ t[0] = <<W, H>> /\ FrameAfter(c) = t[n]
               /\ \A i \in 1..n : t[i] = Filtered(c[i], t[i - 1])
  <2> HIDE DEF c
  <2> QED BY <1>2, FramesUnfold
<1> HIDE DEF c, m, f, n, W, H
<1>4. t[m] = <<W, H>>
  <2>1. CASE m = 0
    BY <1>3, <2>1
  <2>2. CASE m = 2
    <3>1. 1 \in 1..n /\ 2 \in 1..n
      BY <1>2, <2>2
    <3>2. t[1] = Filtered("cclock", <<W, H>>) /\ t[2] = Filtered("cclock", t[1])
      BY <1>2, <1>3, <2>2, <3>1
    <3> QED BY <2>2, <3>2 DEF Filtered
  <2> QED BY <1>2, <2>1, <2>2
<1>5. t[n] = t[m]
  <2>1. CASE f = 0
    BY <1>2, <2>1
  <2>2. CASE f = 1
    <3>1. n = m + 1 /\ n \in 1..n /\ n - 1 = m
      BY <1>2, <2>2
    <3>2. c[n] \in {"hflip", "vflip"} /\ t[n] = Filtered(c[n], t[m])
      BY <1>2, <1>3, <2>2, <3>1
    <3> QED BY <3>2 DEF Filtered
  <2> QED BY <1>2, <2>1, <2>2
<1> QED BY <1>3, <1>4, <1>5 DEF c, W, H

(* No rung but the smallest is higher than the source, and only a frame that is *)
(* cropped or laid on its side is ever enlarged, for any source and settings.  *)
LEMMA UprightIsNotEnlarged ==
  ASSUME EncodeInv, NEW b \in Builds, built[b].there, NEW r \in Nat, r <= asked.height,
         Enlarges(r, FrameAfter(built[b].chain))
  PROVE  b # "encrypted" /\ Reshaped(asked.edit)
<1>1. asked \in Asked /\ Validate(asked.edit) /\ asked.height \in Nat
  BY AskedTypes DEF EncodeInv, Builds
<1>2. ASSUME FrameAfter(built[b].chain) = <<asked.width, asked.height>> PROVE FALSE
  BY <1>1, <1>2 DEF Enlarges
<1>3. b # "encrypted"
  <2>1. ASSUME b = "encrypted" PROVE built[b].chain = EditVideoChain(NoEdit)
    BY <2>1 DEF EncodeInv, EncryptedPlan, BuildHLS, BuildArgs
  <2>2. NoEdit.crop = WholeFrame /\ NoEdit.rotate = 0 /\ NoEdit.flip = "none"
    BY DEF NoEdit
  <2>3. FrameAfter(EditVideoChain(NoEdit)) = <<asked.width, asked.height>>
    BY <1>1, <2>2, UprightFrame
  <2> QED BY <1>2, <2>1, <2>3
<1>4. Reshaped(asked.edit)
  <2>1. built[b].chain = EditVideoChain(Input.edit)
    <3> DEFINE chain == EditVideoChain(Input.edit)
    <3>1. H264Plan.chain = chain /\ MP4Plan.chain = chain /\ CodecPlan.chain = chain
      BY DEF H264Plan, BuildHLS, MP4Plan, BuildMP4Fallback, CodecPlan, BuildCodec, BuildArgs
    <3>2. built[b] \in {H264Plan, MP4Plan, CodecPlan}
      BY <1>3 DEF EncodeInv, Builds
    <3> QED BY <3>1, <3>2
  <2>2. /\ Input.edit.crop = asked.edit.crop /\ Input.edit.rotate = asked.edit.rotate
        /\ Input.edit.flip = asked.edit.flip
    BY <1>1, InputEdit
  <2>3. asked.edit.rotate \in {0, 90, 180, 270} /\ asked.edit.flip \in {"none", "h", "v"}
    BY <1>1 DEF Validate
  <2>4. ASSUME ~Reshaped(asked.edit)
        PROVE  FrameAfter(EditVideoChain(Input.edit)) = <<asked.width, asked.height>>
    <3>1. asked.edit.crop = WholeFrame /\ asked.edit.rotate \in {0, 180}
      BY <2>3, <2>4 DEF Reshaped, HasCrop
    <3> QED BY <1>1, <2>2, <2>3, <3>1, UprightFrame
  <2> QED BY <1>2, <2>1, <2>4
<1> QED BY <1>3, <1>4

(* For any source, settings and edit: the rungs fit the source, a frame is      *)
(* enlarged only when it is cropped or laid on its side, no enabled rung that  *)
(* fits is left out, and every output has its playlist.                       *)
THEOREM LadderFits == EncodeSpec => []LadderFitsSource
<1>1. ASSUME EncodeInv PROVE LadderFitsSource
  <2>1. asked \in Asked
    BY <1>1 DEF EncodeInv
  <2>2. /\ asked.multi \in BOOLEAN /\ FALSE \in BOOLEAN
    BY <2>1, AskedTypes
  <2>3. ASSUME built["h264"].there
        PROVE  LadderPlanned(built["h264"])
    <3> DEFINE a == BuildArgs(asked, Input.file, Input.edit, asked.multi, FALSE)
    <3>1. LadderPlanned(a)
      BY <2>1, <2>2, ArgsPlanLadder
    <3>2. /\ H264Plan.rungs = a.rungs /\ H264Plan.dirs = a.dirs /\ H264Plan.video = a.video
          /\ H264Plan.audio = a.audio /\ H264Plan.streams = a.streams
      BY DEF H264Plan, BuildHLS, BuildArgs
    <3> HIDE DEF a
    <3> QED BY <1>1, <2>3, <3>1, <3>2 DEF EncodeInv, LadderPlanned
  <2>4. ASSUME built["encrypted"].there
        PROVE  LadderPlanned(built["encrypted"])
    <3> DEFINE a == BuildArgs(asked, Source(asked), NoEdit, asked.multi, TRUE)
    <3>1. LadderPlanned(a)
      BY <2>1, <2>2, ArgsPlanLadder
    <3>2. /\ EncryptedPlan.rungs = a.rungs /\ EncryptedPlan.dirs = a.dirs
          /\ EncryptedPlan.video = a.video
          /\ EncryptedPlan.audio = a.audio /\ EncryptedPlan.streams = a.streams
      BY DEF EncryptedPlan, BuildHLS, BuildArgs
    <3> HIDE DEF a
    <3> QED BY <1>1, <2>4, <3>1, <3>2 DEF EncodeInv, LadderPlanned
  <2>5. ASSUME built["codec"].there
        PROVE  LadderPlanned(built["codec"])
    <3>1. LadderPlanned(CodecPlan)
      BY <2>1, <2>2, ArgsPlanLadder DEF CodecPlan, BuildCodec
    <3> QED BY <1>1, <2>5, <3>1 DEF EncodeInv
  <2>6. ASSUME built["mp4"].there
        PROVE  /\ built["mp4"].rungs # {} /\ Max(built["mp4"].rungs) <= 1080
               /\ built["mp4"].rungs \in SUBSET AllRungs
               /\ \A r \in built["mp4"].rungs : r <= asked.height \/ r = 240
    BY <1>1, <2>1, <2>6, FallbackFits DEF EncodeInv, MP4Plan
  <2>7. ASSUME NEW b \in Builds, built[b].there
        PROVE  /\ b # "mp4" => LadderPlanned(built[b])
               /\ built[b].rungs # {} /\ built[b].rungs \in SUBSET AllRungs
               /\ \A r \in built[b].rungs : r <= asked.height \/ r = 240
               /\ b = "mp4" => Max(built[b].rungs) <= 1080
    <3>1. b # "mp4" => LadderPlanned(built[b])
      BY <2>3, <2>4, <2>5, <2>7 DEF Builds
    <3>2. CASE b # "mp4"
      BY <3>1, <3>2 DEF LadderPlanned
    <3>3. CASE b = "mp4"
      BY <2>6, <2>7, <3>3
    <3> QED BY <3>1, <3>2, <3>3
  <2>8. ASSUME NEW b \in Builds, built[b].there
        PROVE  LET p == built[b]
                   usable == Settings(asked.rungs) \cap 0..asked.height
               IN /\ p.rungs # {}
                  /\ \A r \in p.rungs \ {240} :
                       /\ r <= asked.height
                       /\ Enlarges(r, FrameAfter(p.chain))
                            => b # "encrypted" /\ Reshaped(asked.edit)
                  /\ b # "mp4" =>
                       /\ usable # {} => p.rungs = usable
                       /\ p.dirs = Len(p.streams)
                       /\ \A i \in DOMAIN p.video :
                            Once([j \in DOMAIN p.streams |-> p.streams[j].v], i)
                       /\ \A i \in DOMAIN p.audio :
                            Once([j \in DOMAIN p.streams |-> p.streams[j].a], i)
                       /\ \A s \in ToSet(p.streams) :
                            s.v \in 0..Len(p.video) /\ s.a \in 0..Len(p.audio)
                  /\ b = "mp4" => Max(p.rungs) <= 1080
                  /\ b = "codec" => CodecLevel(Max(p.rungs)) <= CodecsTag(Settings(asked.rungs))
    <3>3. \A r \in built[b].rungs \ {240} : r <= asked.height
      BY <2>7, <2>8
    <3>4. ASSUME NEW r \in built[b].rungs \ {240}, Enlarges(r, FrameAfter(built[b].chain))
          PROVE  b # "encrypted" /\ Reshaped(asked.edit)
      <4>1. r \in Nat
        <5>1. built[b].rungs \in SUBSET AllRungs
          BY <2>7, <2>8
        <5>2. r \in AllRungs
          BY <3>4, <5>1
        <5> QED BY <5>2, RungsBounded
      <4> QED BY <1>1, <2>8, <3>3, <3>4, <4>1, UprightIsNotEnlarged
    <3>1. CASE b = "mp4"
      BY <2>7, <2>8, <3>1, <3>3, <3>4
    <3>2. CASE b # "mp4"
      BY <2>7, <2>8, <3>2, <3>3, <3>4 DEF LadderPlanned
    <3> QED BY <3>1, <3>2
  <2> QED BY <2>8 DEF LadderFitsSource
<1> QED BY <1>1, EncodeInvariant, PTL

(* Every build but the encrypted one shows what the request keeps, turned as   *)
(* it asked, and the row and the poster are of it, for any edit of any source. *)
THEOREM EditHonoured == EncodeSpec => []EditIsHonoured
<1>1. ASSUME EncodeInv PROVE EditIsHonoured
  <2>1. asked \in Asked
    BY <1>1 DEF EncodeInv
  <2> DEFINE shows == TrimInput(Input.file, Input.edit)
             chain == EditVideoChain(Input.edit)
  <2>2. /\ H264Plan.shows = shows /\ MP4Plan.shows = shows /\ CodecPlan.shows = shows
        /\ H264Plan.chain = chain /\ MP4Plan.chain = chain /\ CodecPlan.chain = chain
    BY DEF H264Plan, BuildHLS, MP4Plan, BuildMP4Fallback, CodecPlan, BuildCodec, BuildArgs
  <2>3. ASSUME Validate(asked.edit)
        PROVE  /\ WithinSource => ToSet(shows) = Kept /\ InOrder(shows)
               /\ TurnedBy(chain) = asked.edit.rotate
    <3>1. /\ Input.edit.rotate = asked.edit.rotate /\ Input.edit.flip = asked.edit.flip
          /\ asked.edit.rotate \in {0, 90, 180, 270} /\ asked.edit.flip \in {"none", "h", "v"}
      BY <2>1, <2>3, InputEdit DEF Validate
    <3> QED BY <2>1, <2>3, <3>1, InputShows, ChainTurns
  <2>4. ASSUME NEW b \in Builds \ {"encrypted"}, built[b].there
        PROVE  /\ WithinSource => ToSet(built[b].shows) = Kept /\ InOrder(built[b].shows)
               /\ TurnedBy(built[b].chain) = asked.edit.rotate
    <3>1. Validate(asked.edit) /\ built[b] \in {H264Plan, MP4Plan, CodecPlan}
      BY <1>1, <2>4 DEF EncodeInv, Builds
    <3>2. built[b].shows = shows /\ built[b].chain = chain
      BY <2>2, <3>1
    <3> HIDE DEF shows, chain
    <3> QED BY <2>3, <3>1, <3>2
  <2>5. ASSUME built["h264"].there
        PROVE  /\ WithinSource => row.seconds = Cardinality(Kept) \div 2
               /\ LET f == FrameAfter(built["h264"].chain)
                  IN \A i \in 1..2 : f[i] >= 2 => Even(row.frame[i]) = Even(f[i])
               /\ WithinSource =>
                    \/ built["h264"].poster \in Kept
                    \/ ~Trims(asked.edit) /\ Cardinality(Kept) <= 6
    <3>1. /\ Validate(asked.edit) /\ built["h264"] = H264Plan
          /\ row.seconds = SecondsKept /\ row.frame = FrameKept
      BY <1>1, <2>5 DEF EncodeInv
    <3>2. built["h264"].chain = chain
      BY <2>2, <3>1
    <3>3. WithinSource => /\ row.seconds = Cardinality(Kept) \div 2
                          /\ \/ built["h264"].poster \in Kept
                             \/ ~Trims(asked.edit) /\ Cardinality(Kept) <= 6
      BY <2>1, <3>1, RecordedMatchesShown
    <3>4. LET f == FrameAfter(chain)
          IN \A i \in 1..2 : f[i] >= 2 => Even(row.frame[i]) = Even(f[i])
      BY <2>1, <3>1, FrameMatches
    <3> QED BY <3>2, <3>3, <3>4
  <2> QED BY <2>4, <2>5 DEF EditIsHonoured
<1> QED BY <1>1, EncodeInvariant, PTL

-----------------------------------------------------------------------------
(* The sheet of previews. *)

LEMMA Multiples ==
  ASSUME NEW a \in Int, NEW b \in Int, NEW k \in Nat
  PROVE  /\ a * k \in Int /\ b * k \in Int
         /\ (a + 1) * k = a * k + k /\ (a - 1) * k = a * k - k
         /\ a <= b => a * k <= b * k
         /\ a \in Nat => a * k \in Nat
  OBVIOUS

LEMMA Quotient ==
  ASSUME NEW a \in Nat, NEW k \in Nat \ {0}
  PROVE  a \div k \in Nat /\ (a \div k) * k <= a /\ a < (a \div k) * k + k
  OBVIOUS

LEMMA QuotientIs ==
  ASSUME NEW a \in Nat, NEW k \in Nat \ {0}, NEW i \in Nat, i * k <= a, a < (i + 1) * k
  PROVE  a \div k = i
  OBVIOUS

(* The sheet for n seconds: a cue each for its stretch of time. *)
LEMMA SheetCovers ==
  ASSUME NEW n \in Nat \ {0}
  PROVE  LET t == Thumbnails(n)
         IN /\ \A i \in DOMAIN t.cues : /\ t.cues[i].x < 10 /\ t.cues[i].y < t.rows
                                        /\ t.cues[i].to > t.cues[i].from
                                        /\ t.cues[i].y * 10 + t.cues[i].x = t.cues[i].from \div t.interval
            /\ \A second \in 0..n - 1 :
                 Cardinality({i \in DOMAIN t.cues : t.cues[i].from <= second /\ second < t.cues[i].to}) = 1
            /\ Len(t.cues) <= 150
<1> DEFINE q == n \div 100
           k == IF q < 2 THEN 2 ELSE q
           c == TileCount(n, k)
           count == Max({1, c})
           t == Thumbnails(n)
<1>1. q \in Nat /\ q * 100 <= n /\ n < q * 100 + 100
  OBVIOUS
<1>2. k \in Nat /\ k >= 2 /\ (q < 2 => k = 2) /\ (q >= 2 => k = q)
  BY <1>1
<1> HIDE DEF q, k
<1>3. c \in Nat /\ c * k <= n + k - 1 /\ n + k - 1 < c * k + k
  <2>1. n + k - 1 \in Nat
    BY <1>2
  <2> QED BY <1>2, <2>1, Quotient DEF TileCount
<1> HIDE DEF c
<1>4. c * k \in Nat /\ (c - 1) * k = c * k - k
  BY <1>2, <1>3, Multiples
<1>5. (c - 1) * k < n /\ n <= c * k
  BY <1>2, <1>3, <1>4
<1>6. c >= 1
  <2>1. c = 0 => c * k = 0
    BY <1>2
  <2> QED BY <1>3, <1>5, <2>1
<1>7. count = c
  <2>1. Max({1, c}) = IF 1 >= c THEN 1 ELSE c
    BY <1>3, MaxOfTwo
  <2> QED BY <1>3, <1>6, <2>1
<1>8. c <= 150
  <2>1. CASE q < 2
    <3>1. k = 2 /\ n < 200
      BY <1>1, <1>2, <2>1
    <3> QED BY <1>3, <1>5, <3>1
  <2>2. CASE q >= 2
    <3>1. k = q
      BY <1>2, <2>2
    <3>2. SUFFICES ASSUME c >= 151 PROVE FALSE
      BY <1>3
    <3>3. 150 * k <= (c - 1) * k
      <4>1. c - 1 \in Int /\ 150 <= c - 1
        BY <1>3, <3>2
      <4> QED BY <1>2, <4>1, Multiples
    <3>4. (c - 1) * k \in Int
      BY <1>2, <1>3, <1>4
    <3> QED BY <1>1, <1>2, <1>5, <2>2, <3>1, <3>3, <3>4
  <2> QED BY <1>1, <2>1, <2>2
<1> DEFINE cues == [i \in 1..c |-> [from |-> (i - 1) * k, to |-> Min({i * k, n}),
                                 x |-> (i - 1) % 10, y |-> (i - 1) \div 10]]
<1>9. t.interval = k /\ t.rows = (c + 9) \div 10 /\ t.cues = cues
  BY <1>7 DEF Thumbnails, k, q, c
<1> HIDE DEF t
<1>10. DOMAIN cues = 1..c /\ Len(cues) = c
  BY <1>3
<1>11. ASSUME NEW i \in 1..c
       PROVE  /\ i - 1 \in Nat /\ (i - 1) * k \in Nat /\ i * k = (i - 1) * k + k
              /\ i * k \in Nat /\ (i - 1) * k < n
              /\ Min({i * k, n}) = IF i * k <= n THEN i * k ELSE n
  <2>1. i - 1 \in Nat /\ i - 1 <= c - 1 /\ c - 1 \in Int /\ i \in Nat
    BY <1>3
  <2>2. (i - 1) * k <= (c - 1) * k /\ (i - 1) * k \in Nat
    BY <1>2, <2>1, Multiples
  <2>3. (i - 1) * k = i * k - k /\ i * k \in Nat
    BY <1>2, <2>1, Multiples
  <2>4. (c - 1) * k \in Int
    BY <1>2, <1>3, <1>4
  <2>5. i * k = (i - 1) * k + k
    BY <1>2, <2>2, <2>3
  <2>6. (i - 1) * k < n
    BY <1>5, <2>2, <2>4
  <2>7. Min({i * k, n}) = IF i * k <= n THEN i * k ELSE n
    BY <2>3, MinOfTwo
  <2> QED BY <2>1, <2>2, <2>3, <2>5, <2>6, <2>7
<1>12. ASSUME NEW i \in 1..c
       PROVE  /\ cues[i].x < 10 /\ cues[i].y < (c + 9) \div 10
              /\ cues[i].to > cues[i].from
              /\ cues[i].y * 10 + cues[i].x = cues[i].from \div k
  <2>1. /\ cues[i].from = (i - 1) * k /\ cues[i].to = Min({i * k, n})
        /\ cues[i].x = (i - 1) % 10 /\ cues[i].y = (i - 1) \div 10
    OBVIOUS
  <2>2. ((i - 1) * k) \div k = i - 1
    <3>1. i - 1 \in Nat /\ (i - 1) * k \in Nat /\ (i - 1) * k < ((i - 1) + 1) * k
      BY <1>2, <1>11
    <3> HIDE DEF cues
    <3> QED BY <1>2, <3>1, QuotientIs
  <2>3. (i - 1) % 10 < 10 /\ ((i - 1) \div 10) * 10 + ((i - 1) % 10) = i - 1
    BY <1>11
  <2>4. (i - 1) \div 10 < (c + 9) \div 10
    BY <1>3, <1>11
  <2>5. Min({i * k, n}) > (i - 1) * k
    BY <1>2, <1>11
  <2> QED BY <2>1, <2>2, <2>3, <2>4, <2>5
<1>13. ASSUME NEW second \in 0..n - 1
       PROVE  Cardinality({i \in 1..c : cues[i].from <= second /\ second < cues[i].to}) = 1
  <2> DEFINE j == second \div k
  <2>1. second \in Nat /\ second < n
    OBVIOUS
  <2>2. j \in Nat /\ j * k <= second /\ second < j * k + k
    BY <1>2, <2>1, Quotient
  <2> HIDE DEF j
  <2>3. j * k \in Nat
    BY <1>2, <2>2, Multiples
  <2>4. j + 1 \in 1..c
    <3>1. SUFFICES ASSUME j >= c PROVE FALSE
      BY <1>3, <2>2
    <3>2. c * k <= j * k
      BY <1>2, <1>3, <2>2, <3>1, Multiples
    <3> QED BY <1>4, <1>5, <2>1, <2>2, <2>3, <3>2
  <2>5. ASSUME NEW i \in 1..c
        PROVE  (cues[i].from <= second /\ second < cues[i].to) <=> i = j + 1
    <3>1. cues[i].from = (i - 1) * k /\ cues[i].to = Min({i * k, n})
      OBVIOUS
    <3>2. second < Min({i * k, n}) <=> second < i * k
      BY <1>11, <2>1
    <3>3. i \in Nat /\ i - 1 \in Nat
      BY <1>11
    <3>4. CASE i <= j
      <4>1. i * k <= j * k
        BY <1>2, <2>2, <3>3, <3>4, Multiples
      <4> QED BY <1>11, <2>1, <2>2, <2>3, <3>1, <3>2, <3>3, <3>4, <4>1
    <3>5. CASE i = j + 1
      <4>1. i - 1 = j
        BY <2>2, <3>5
      <4> QED BY <1>11, <2>2, <2>3, <3>1, <3>2, <3>5, <4>1
    <3>6. CASE i >= j + 2
      <4>1. (j + 1) * k <= (i - 1) * k /\ (j + 1) * k = j * k + k
        <5>1. j + 1 <= i - 1 /\ j + 1 \in Int /\ i - 1 \in Int /\ j \in Int
          BY <2>2, <3>3, <3>6
        <5> QED BY <1>2, <5>1, Multiples
      <4> QED BY <1>2, <1>11, <2>1, <2>2, <2>3, <3>1, <3>3, <3>6, <4>1
    <3> QED BY <2>2, <3>3, <3>4, <3>5, <3>6
  <2>6. {i \in 1..c : cues[i].from <= second /\ second < cues[i].to} = {j + 1}
    <3> HIDE DEF cues
    <3> QED BY <2>4, <2>5
  <2> HIDE DEF cues
  <2> QED BY <2>6, FS_Singleton
<1> HIDE DEF cues
<1> QED BY <1>8, <1>9, <1>10, <1>12, <1>13 DEF t

(* Every second of a video has one preview, on the sheet, whatever its length. *)
THEOREM TilesCover == EncodeSpec => []EverySecondHasOneTile
<1>1. ASSUME EncodeInv PROVE EverySecondHasOneTile
  <2> SUFFICES ASSUME built["h264"].there, NEW t \in built["h264"].tiles
               PROVE  /\ row.seconds \in Nat \ {0} /\ t = Thumbnails(row.seconds)
    BY SheetCovers DEF EverySecondHasOneTile
  <2>1. /\ asked \in Asked /\ Validate(asked.edit) /\ row.seconds = SecondsKept
        /\ built["h264"] = H264Plan
    BY <1>1 DEF EncodeInv
  <2>2. SecondsKept \in Nat
    BY <2>1, SecondsCount
  <2>3. H264Plan.tiles = IF SecondsKept = 0 THEN {} ELSE {Thumbnails(SecondsKept)}
    BY DEF H264Plan, BuildHLS, BuildArgs
  <2> QED BY <2>1, <2>2, <2>3
<1> QED BY <1>1, EncodeInvariant, PTL

-----------------------------------------------------------------------------
(* Lines of a playlist left out and kept. *)

(* What Without keeps of a line. *)
Share(line, kinds) == IF line.kind \in kinds THEN <<>> ELSE <<line>>
Shares(master, kinds) == [i \in DOMAIN master |-> Share(master[i], kinds)]

LEMMA SharesTyped ==
  ASSUME NEW T, NEW s \in Seq(T), NEW kinds
  PROVE  /\ Shares(s, kinds) \in Seq(Seq({x \in T : x.kind \notin kinds}))
         /\ Len(Shares(s, kinds)) = Len(s)
         /\ \A i \in 1..Len(s) : Shares(s, kinds)[i] = Share(s[i], kinds)
<1> DEFINE U == {x \in T : x.kind \notin kinds}
           n == Len(s)
<1>1. n \in Nat /\ DOMAIN s = 1..n /\ \A i \in 1..n : s[i] \in T
  OBVIOUS
<1>2. ASSUME NEW i \in 1..n PROVE Share(s[i], kinds) \in Seq(U)
  <2>1. CASE s[i].kind \in kinds
    BY <2>1 DEF Share
  <2>2. CASE s[i].kind \notin kinds
    <3>1. s[i] \in U
      BY <1>1, <2>2
    <3> HIDE DEF U
    <3>2. Share(s[i], kinds) = <<s[i]>>
      BY <2>2 DEF Share
    <3> QED BY <3>1, <3>2
  <2> QED BY <2>1, <2>2
<1> HIDE DEF U, n
<1>4. Shares(s, kinds) \in [1..n -> Seq(U)]
  BY <1>1, <1>2 DEF Shares
<1>5. Shares(s, kinds) \in Seq(Seq(U)) /\ Len(Shares(s, kinds)) = n
  BY <1>1, <1>4
<1>7. \A i \in 1..n : Shares(s, kinds)[i] = Share(s[i], kinds)
  BY <1>1 DEF Shares
<1> QED BY <1>5, <1>7 DEF U, n

LEMMA SharesOf ==
  ASSUME NEW T, NEW s \in Seq(T), NEW kinds, NEW a, a = Shares(s, kinds)
  PROVE  /\ a \in Seq(Seq(T)) /\ Len(a) = Len(s)
         /\ \A i \in 1..Len(s) : a[i] = Share(s[i], kinds)
<1> DEFINE U == {x \in T : x.kind \notin kinds}
<1>1. a \in Seq(Seq(U)) /\ Len(a) = Len(s) /\ \A i \in 1..Len(s) : a[i] = Share(s[i], kinds)
  BY SharesTyped
<1>2. U \subseteq T
  OBVIOUS
<1> HIDE DEF U
<1>3. Seq(Seq(U)) \subseteq Seq(Seq(T))
  <2>1. Seq(U) \subseteq Seq(T)
    BY <1>2
  <2> QED BY <2>1
<1> QED BY <1>1, <1>3

LEMMA WithoutIs == \A s, kinds : Without(s, kinds) = FlattenSeq(Shares(s, kinds))
BY DEF Without, Shares, Share

LEMMA WithoutTyped ==
  ASSUME NEW T, NEW s \in Seq(T), NEW kinds
  PROVE  Without(s, kinds) \in Seq({x \in T : x.kind \notin kinds})
<1> DEFINE U == {x \in T : x.kind \notin kinds}
<1>1. Shares(s, kinds) \in Seq(Seq(U))
  BY SharesTyped
<1> HIDE DEF U
<1>2. FlattenSeq(Shares(s, kinds)) \in Seq(U)
  BY <1>1, FlattenConcat
<1> QED BY <1>2, WithoutIs DEF U

LEMMA WithoutConcat ==
  ASSUME NEW T, NEW s \in Seq(T), NEW t \in Seq(T), NEW kinds
  PROVE  Without(s \o t, kinds) = Without(s, kinds) \o Without(t, kinds)
<1> DEFINE a == Shares(s, kinds)
           b == Shares(t, kinds)
           c == Shares(s \o t, kinds)
           Q == Seq(Seq(T))
<1>0. /\ s \o t \in Seq(T) /\ Len(s \o t) = Len(s) + Len(t)
      /\ Len(s) \in Nat /\ Len(t) \in Nat
  OBVIOUS
<1>a. Without(s, kinds) = FlattenSeq(a) /\ Without(t, kinds) = FlattenSeq(b)
      /\ Without(s \o t, kinds) = FlattenSeq(c)
  BY WithoutIs
<1>1. /\ a \in Q /\ Len(a) = Len(s)
      /\ \A i \in 1..Len(s) : a[i] = Share(s[i], kinds)
  BY SharesOf
<1>2. /\ b \in Q /\ Len(b) = Len(t)
      /\ \A i \in 1..Len(t) : b[i] = Share(t[i], kinds)
  BY SharesOf
<1>3. /\ c \in Q /\ Len(c) = Len(s) + Len(t)
      /\ \A i \in 1..Len(s) + Len(t) :
           c[i] = Share((s \o t)[i], kinds)
  <2> DEFINE r == s \o t
  <2>1. r \in Seq(T) /\ Len(r) = Len(s) + Len(t) /\ c = Shares(r, kinds)
    BY <1>0
  <2> HIDE DEF r, c
  <2>2. /\ c \in Q /\ Len(c) = Len(r)
        /\ \A i \in 1..Len(r) : c[i] = Share(r[i], kinds)
    <3>1. c \in Seq(Seq(T))
      BY <2>1, SharesOf
    <3>2. Len(c) = Len(r)
      BY <2>1, SharesOf
    <3>3. \A i \in 1..Len(r) : c[i] = Share(r[i], kinds)
      <4>1. DOMAIN r = 1..Len(r)
        BY <2>1
      <4>2. c = [i \in DOMAIN r |-> Share(r[i], kinds)]
        BY <2>1 DEF Shares
      <4> QED BY <4>1, <4>2
    <3> QED BY <3>1, <3>2, <3>3
  <2> QED BY <2>1, <2>2 DEF r
<1> HIDE DEF a, b, c
<1>4. ASSUME NEW i \in 1..Len(s) + Len(t) PROVE c[i] = (a \o b)[i]
  <2>1. CASE i <= Len(s)
    <3>1. i \in 1..Len(s) /\ (s \o t)[i] = s[i]
      BY <2>1, <1>0
    <3>2. c[i] = a[i]
      BY <1>1, <1>3, <3>1
    <3>3. (a \o b)[i] = a[i]
      BY <3>1, <1>0, <1>1, <1>2
    <3> QED BY <3>2, <3>3
  <2>2. CASE ~(i <= Len(s))
    <3>1. i - Len(s) \in 1..Len(t) /\ (s \o t)[i] = t[i - Len(s)]
      BY <2>2, <1>0
    <3>2. c[i] = b[i - Len(s)]
      BY <1>2, <1>3, <3>1
    <3>3. (a \o b)[i] = b[i - Len(s)]
      BY <2>2, <3>1, <1>0, <1>1, <1>2
    <3> QED BY <3>2, <3>3
  <2> QED BY <2>1, <2>2
<1>5. c = a \o b
  <2>1. a \o b \in Q /\ Len(a \o b) = Len(c)
    <3>1. a \in Q /\ b \in Q /\ Len(a) = Len(s) /\ Len(b) = Len(t) /\ Len(c) = Len(s) + Len(t)
      BY <1>1, <1>2, <1>3
    <3>2. Len(s) \in Nat /\ Len(t) \in Nat
      BY <1>0
    <3> HIDE DEF Q
    <3>3. ASSUME NEW R, NEW x \in Seq(R), NEW y \in Seq(R)
          PROVE  x \o y \in Seq(R) /\ Len(x \o y) = Len(x) + Len(y)
      OBVIOUS
    <3>4. a \o b \in Q /\ Len(a \o b) = Len(a) + Len(b)
      BY <3>1, <3>3 DEF Q
    <3> QED BY <3>1, <3>4
  <2>2. c \in Q /\ Len(c) = Len(s) + Len(t)
    BY <1>3
  <2> QED BY <2>1, <2>2, <1>4, SeqEqual
<1>6. FlattenSeq(a \o b) = FlattenSeq(a) \o FlattenSeq(b)
  <2>1. a \in Q /\ b \in Q
    BY <1>1, <1>2
  <2> QED BY <2>1, FlattenConcat
<1> QED BY <1>5, <1>6, <1>a

LEMMA WithoutKeeps ==
  ASSUME NEW T, NEW s \in Seq(T), NEW kinds, \A i \in 1..Len(s) : s[i].kind \notin kinds
  PROVE  Without(s, kinds) = s
<1> DEFINE n == Len(s)
           a == Shares(s, kinds)
<1>1. n \in Nat /\ \A i \in 1..n : s[i] \in T
  OBVIOUS
<1>2. /\ a \in Seq(Seq(T)) /\ Len(a) = n /\ \A i \in 1..n : a[i] = <<s[i]>>
  <2>1. /\ a \in Seq(Seq(T)) /\ Len(a) = n /\ \A i \in 1..n : a[i] = Share(s[i], kinds)
    BY SharesOf
  <2>2. \A i \in 1..n : Share(s[i], kinds) = <<s[i]>>
    BY DEF Share
  <2> HIDE DEF a, n
  <2> QED BY <2>1, <2>2
<1>3. Without(s, kinds) = FlattenSeq(a)
  BY WithoutIs
<1> HIDE DEF n, a
<1>4. PICK f \in [0..n -> Seq(T)] :
        /\ f[0] = <<>> /\ \A i \in 1..n : f[i] = f[i - 1] \o a[i]
        /\ FlattenSeq(a) = f[n]
  <2>1. \E f \in [0..Len(a) -> Seq(T)] :
          /\ f[0] = <<>> /\ \A i \in 1..Len(a) : f[i] = f[i - 1] \o a[i]
          /\ FlattenSeq(a) = f[Len(a)]
    <3>1. a \in Seq(Seq(T))
      BY <1>2
    <3> QED BY <3>1, FlattenUnfolds
  <2>2. Len(a) = n
    BY <1>2
  <2> QED BY <2>1, <2>2
<1> DEFINE Same(k) == Len(f[k]) = k /\ \A i \in 1..k : f[k][i] = s[i]
           K == {k \in Nat : k <= n => Same(k)}
<1>5. 0 \in K
  <2>1. Len(f[0]) = 0
    BY <1>4
  <2> QED BY <2>1
<1>6. ASSUME NEW k \in K PROVE k + 1 \in K
  <2> SUFFICES ASSUME k + 1 <= n PROVE Same(k + 1)
    <3> HIDE DEF Same
    <3> QED OBVIOUS
  <2>1. k + 1 \in 1..n /\ (k + 1) - 1 = k /\ k <= n /\ k \in 0..n
    BY <1>1
  <2>2. Same(k)
    <3> HIDE DEF Same
    <3> QED BY <2>1
  <2>3. f[k + 1] = f[k] \o <<s[k + 1]>>
    BY <1>2, <1>4, <2>1
  <2>4. f[k] \in Seq(T)
    BY <2>1
  <2> DEFINE u == f[k]
             x == s[k + 1]
             v == f[k + 1]
  <2>5. u \in Seq(T) /\ v = u \o <<x>> /\ Len(u) = k
    BY <2>2, <2>3, <2>4
  <2>6. Len(v) = k + 1 /\ v[k + 1] = x /\ \A i \in 1..k : v[i] = u[i]
    <3> HIDE DEF u, v, x
    <3> QED BY <2>5
  <2>7. ASSUME NEW i \in 1..k + 1 PROVE v[i] = s[i]
    <3>1. CASE i = k + 1
      BY <2>6, <3>1
    <3>2. CASE i # k + 1
      <4>1. i \in 1..k
        BY <3>2
      <4> QED BY <2>2, <2>6, <4>1
    <3> QED BY <3>1, <3>2
  <2> QED BY <2>6, <2>7
<1>7. K = Nat
  <2>1. K \in SUBSET Nat
    OBVIOUS
  <2> HIDE DEF K
  <2> QED BY <1>5, <1>6, <2>1, SetInduction
<1>8. Same(n)
  <2> HIDE DEF Same
  <2>1. n \in K
    BY <1>1, <1>7
  <2> QED BY <2>1, <1>1
<1>9. f[n] = s
  <2>1. f[n] \in Seq(T) /\ s \in Seq(T) /\ Len(f[n]) = Len(s)
    BY <1>1, <1>8 DEF n
  <2> QED BY <1>8, <2>1, SeqEqual DEF n
<1> QED BY <1>3, <1>4, <1>9

LEMMA WithoutDrops ==
  ASSUME NEW T, NEW s \in Seq(T), NEW kinds, \A x \in T : x.kind \in kinds
  PROVE  Without(s, kinds) = <<>>
<1>1. Without(s, kinds) \in Seq({x \in T : x.kind \notin kinds})
  BY WithoutTyped
<1>2. {x \in T : x.kind \notin kinds} = {}
  OBVIOUS
<1> QED BY <1>1, <1>2

-----------------------------------------------------------------------------
(* The merge of masters. *)

MasterInv ==
  /\ stored \in Published
  /\ combined \in Seq(PlaylistLines)
  /\ codecsLeft \in Seq(STRING) /\ Len(codecsLeft) <= Len(CodecOrder)
  /\ \A k \in 1..Len(codecsLeft) :
       codecsLeft[k] = CodecOrder[(Len(CodecOrder) - Len(codecsLeft)) + k]
  /\ MergeKeepsVariants

(* Of a ladder, what is written is what is listed. *)
Pairs(ladder, codec) ==
  [j \in DOMAIN ladder |->
    IF ladder[j].kind = "uri"
    THEN <<Stream(codec), [ladder[j] EXCEPT !.under = <<codec>>]>>
    ELSE <<>>]

(* What the first n codecs have added. *)
Added(p, n) ==
  FlattenSeq([k \in 1..n |->
    IF CodecOrder[k] \in DOMAIN p.ladders
    THEN FlattenSeq(Pairs(p.ladders[CodecOrder[k]], CodecOrder[k])) ELSE <<>>])

Silent == {"header", "blank"}

LEMMA MergeKept ==
  MergeKeepsVariants <=>
    /\ \A i \in DOMAIN combined : combined[i].kind = "header" <=> i <= 2
    /\ Without(combined, Silent)
         = Without(stored.base, Silent) \o Added(stored, Len(CodecOrder) - Len(codecsLeft))
BY DEF MergeKeepsVariants, Added, Silent, Listed, Pairs

Variants == {line \in PlaylistLines : line.kind \in {"stream", "uri"}}

LEMMA HeadsAre ==
  ASSUME NEW T, NEW ladder \in Seq(T), NEW j \in DOMAIN ladder
  PROVE  /\ Heads(ladder, j) \in SUBSET Nat
         /\ \A i \in Heads(ladder, j) : i \in DOMAIN ladder /\ ladder[i].kind = "stream"
<1>1. DOMAIN ladder = 1..Len(ladder) /\ Len(ladder) \in Nat
  OBVIOUS
<1>2. j \in 1..Len(ladder)
  BY <1>1
<1>3. Heads(ladder, j) \subseteq {i \in 1..j - 1 : ladder[i].kind = "stream"}
  BY DEF Heads
<1>4. 1..j - 1 \subseteq 1..Len(ladder) /\ 1..j - 1 \subseteq Nat
  BY <1>1, <1>2
<1> QED BY <1>1, <1>3, <1>4

LEMMA LineTypes ==
  ASSUME NEW line \in PlaylistLines
  PROVE  /\ line.kind = "stream" => line = Stream(line.codecs) /\ line.codecs \in STRING
         /\ line.kind = "uri" => /\ line = [kind |-> "uri", name |-> line.name, under |-> line.under]
                                /\ line.name \in Nat
<1>1. CASE line \in [kind : {"header", "blank", "tag"}]
  BY <1>1
<1>2. CASE line \in [kind : {"media"}, track : Nat]
  BY <1>2
<1>3. CASE line \in [kind : {"stream"}, codecs : STRING]
  BY <1>3 DEF Stream
<1>4. CASE line \in [kind : {"uri"}, name : Nat, under : Seq(STRING)]
  BY <1>4
<1> QED BY <1>1, <1>2, <1>3, <1>4 DEF PlaylistLines

LEMMA PairsTyped ==
  ASSUME NEW codec \in STRING, NEW ladder \in Seq(PlaylistLines)
  PROVE  Pairs(ladder, codec) \in Seq(Seq(Variants))
<1> DEFINE n == Len(ladder)
<1>1. n \in Nat /\ DOMAIN ladder = 1..n /\ \A j \in 1..n : ladder[j] \in PlaylistLines
  OBVIOUS
<1>2. Stream(codec) \in Variants
  BY DEF Stream, Variants, PlaylistLines
<1>3. ASSUME NEW j \in 1..n, ladder[j].kind = "uri"
      PROVE  [ladder[j] EXCEPT !.under = <<codec>>] \in Variants
  <2> DEFINE line == ladder[j]
  <2>1. line = [kind |-> "uri", name |-> line.name, under |-> line.under] /\ line.name \in Nat
    BY <1>1, <1>3, LineTypes
  <2>2. [line EXCEPT !.under = <<codec>>] = [kind |-> "uri", name |-> line.name, under |-> <<codec>>]
    BY <2>1
  <2>3. <<codec>> \in Seq(STRING)
    BY SingleSeq
  <2> HIDE DEF line
  <2>4. [kind |-> "uri", name |-> line.name, under |-> <<codec>>]
          \in [kind : {"uri"}, name : Nat, under : Seq(STRING)]
    BY <2>1, <2>3
  <2>5. [line EXCEPT !.under = <<codec>>] \in Variants
    BY <2>2, <2>4 DEF Variants, PlaylistLines
  <2> QED BY <2>5 DEF line
<1> HIDE DEF n
<1>4. \A j \in 1..n : Pairs(ladder, codec)[j] \in Seq(Variants)
  <2> TAKE j \in 1..n
  <2>1. CASE ladder[j].kind = "uri"
    <3> DEFINE u == [ladder[j] EXCEPT !.under = <<codec>>]
               x == Stream(codec)
    <3>1. x \in Variants /\ u \in Variants
      BY <1>2, <1>3, <2>1
    <3>2. Pairs(ladder, codec)[j] = <<x, u>>
      BY <1>1, <2>1 DEF Pairs
    <3> HIDE DEF u, x
    <3> QED BY <3>1, <3>2
  <2>2. CASE ladder[j].kind # "uri"
    <3>1. Pairs(ladder, codec)[j] = <<>>
      BY <1>1, <2>2 DEF Pairs
    <3> QED BY <3>1
  <2> QED BY <2>1, <2>2
<1>5. DOMAIN Pairs(ladder, codec) = 1..n /\ Pairs(ladder, codec) \in [1..n -> Seq(Variants)]
  BY <1>1, <1>4 DEF Pairs
<1> QED BY <1>1, <1>5, SeqOfFunction

LEMMA WritesListed ==
  ASSUME NEW p \in Published, NEW c \in DOMAIN p.ladders, c \in STRING
  PROVE  /\ WriteVariants(p.ladders[c], c) = FlattenSeq(Pairs(p.ladders[c], c))
         /\ WriteVariants(p.ladders[c], c) \in Seq(Variants)
<1> DEFINE ladder == p.ladders[c]
<1>1. /\ ladder \in Seq(PlaylistLines)
      /\ \A j \in DOMAIN ladder :
           /\ ladder[j].kind = "stream" => ladder[j].codecs \in {"", c}
           /\ ladder[j].kind = "uri" => ladder[j].under = <<>> /\ Heads(ladder, j) # {}
  BY PlaylistAssumption
<1> HIDE DEF ladder
<1>2. ASSUME NEW j \in DOMAIN ladder, ladder[j].kind = "uri"
      PROVE  /\ [ladder[Min(Heads(ladder, j))] EXCEPT !.codecs = IF @ = "" THEN c ELSE @] = Stream(c)
             /\ [ladder[j] EXCEPT !.under = <<c>> \o @] = [ladder[j] EXCEPT !.under = <<c>>]
  <2>1. Heads(ladder, j) \in SUBSET Nat /\ Heads(ladder, j) # {}
    BY <1>1, <1>2, HeadsAre
  <2>2. Min(Heads(ladder, j)) \in Heads(ladder, j)
    BY <2>1, MinMember
  <2> DEFINE i == Min(Heads(ladder, j))
  <2>3. i \in DOMAIN ladder /\ ladder[i].kind = "stream"
    BY <1>1, <2>2, HeadsAre
  <2> HIDE DEF i
  <2>4. ladder[i] \in PlaylistLines /\ ladder[i].codecs \in {"", c}
    <3>1. ladder[i] \in PlaylistLines
      BY <1>1, <2>3, ElementOf
    <3> QED BY <1>1, <2>3, <3>1
  <2>5. ladder[i] = Stream(ladder[i].codecs)
    BY <2>3, <2>4, LineTypes
  <2> DEFINE line == ladder[i]
  <2>6. [line EXCEPT !.codecs = IF line.codecs = "" THEN c ELSE line.codecs] = Stream(c)
    <3>1. line = [kind |-> "stream", codecs |-> line.codecs] /\ line.codecs \in {"", c}
      BY <2>4, <2>5 DEF Stream
    <3> HIDE DEF line
    <3>2. (IF line.codecs = "" THEN c ELSE line.codecs) = c
      BY <3>1
    <3>3. [line EXCEPT !.codecs = c] = [kind |-> "stream", codecs |-> c]
      <4> DEFINE x == line.codecs
      <4>1. line = [kind |-> "stream", codecs |-> x]
        BY <3>1
      <4> HIDE DEF x
      <4> QED BY <4>1
    <3> QED BY <3>2, <3>3 DEF Stream
  <2>7. <<c>> \o <<>> = <<c>>
    BY ConcatEmptySeq
  <2>8. ladder[j].under = <<>>
    BY <1>1, <1>2
  <2>9. [ladder[j] EXCEPT !.under = <<c>> \o ladder[j].under] = [ladder[j] EXCEPT !.under = <<c>>]
    BY <2>7, <2>8
  <2> QED BY <2>6, <2>9 DEF i
<1>3. WriteVariants(ladder, c) = FlattenSeq(Pairs(ladder, c))
  <2> DEFINE w(j) == IF ladder[j].kind = "uri" /\ Heads(ladder, j) # {}
                     THEN <<[ladder[Min(Heads(ladder, j))] EXCEPT !.codecs = IF @ = "" THEN c ELSE @],
                            [ladder[j] EXCEPT !.under = <<c>> \o @]>>
                     ELSE <<>>
             v(j) == IF ladder[j].kind = "uri"
                     THEN <<Stream(c), [ladder[j] EXCEPT !.under = <<c>>]>>
                     ELSE <<>>
  <2>1. \A j \in DOMAIN ladder : w(j) = v(j)
    <3> TAKE j \in DOMAIN ladder
    <3>1. CASE ladder[j].kind = "uri"
      <4>1. Heads(ladder, j) # {}
        BY <1>1, <3>1
      <4> QED BY <1>2, <3>1, <4>1
    <3>2. CASE ladder[j].kind # "uri"
      BY <3>2
    <3> QED BY <3>1, <3>2
  <2> HIDE DEF w, v
  <2>2. [j \in DOMAIN ladder |-> w(j)] = [j \in DOMAIN ladder |-> v(j)]
    BY <2>1
  <2>3. WriteVariants(ladder, c) = FlattenSeq([j \in DOMAIN ladder |-> w(j)])
    BY DEF WriteVariants, w
  <2>4. Pairs(ladder, c) = [j \in DOMAIN ladder |-> v(j)]
    BY DEF Pairs, v
  <2> QED BY <2>2, <2>3, <2>4
<1>4. FlattenSeq(Pairs(ladder, c)) \in Seq(Variants)
  <2>1. Pairs(ladder, c) \in Seq(Seq(Variants))
    BY <1>1, PairsTyped
  <2> QED BY <2>1, FlattenConcat
<1> QED BY <1>3, <1>4 DEF ladder

LEMMA HeaderTyped ==
  /\ Header \in Seq(PlaylistLines) /\ Len(Header) = 2
  /\ Header[1].kind = "header" /\ Header[2].kind = "header"
<1>1. [kind |-> "header"] \in PlaylistLines
  BY DEF PlaylistLines
<1> DEFINE h == [kind |-> "header"]
<1>2. h.kind = "header" /\ h \in PlaylistLines /\ Header = <<h, h>>
  BY <1>1 DEF Header
<1> HIDE DEF h
<1> QED BY <1>2

LEMMA VariantsAreLoud ==
  Seq(Variants) \subseteq Seq({line \in PlaylistLines : line.kind \notin Silent})
<1> DEFINE Loud == {line \in PlaylistLines : line.kind \notin Silent}
<1>1. Variants \subseteq Loud
  BY DEF Variants, Silent
<1> HIDE DEF Loud
<1>2. Seq(Variants) \subseteq Seq(Loud)
  BY <1>1
<1> QED BY <1>2 DEF Loud

LEMMA LoudAreLines ==
  Seq({line \in PlaylistLines : line.kind \notin Silent}) \subseteq Seq(PlaylistLines)
<1> DEFINE Loud == {line \in PlaylistLines : line.kind \notin Silent}
<1>1. Loud \subseteq PlaylistLines
  OBVIOUS
<1> HIDE DEF Loud
<1>2. Seq(Loud) \subseteq Seq(PlaylistLines)
  BY <1>1
<1> QED BY <1>2 DEF Loud

LEMMA MasterStarts == MasterInit => MasterInv
<1> SUFFICES ASSUME MasterInit PROVE MasterInv
  OBVIOUS
<1> USE DEF MasterInit, MasterStart
<1>1. CodecOrder \in Seq(STRING) /\ stored \in Published
  BY PlaylistAssumption
<1>2. stored.base \in Seq(PlaylistLines)
      /\ \A i \in DOMAIN stored.base : stored.base[i].kind = "header" <=> i <= 2
  BY <1>1, PlaylistAssumption
<1>3. Len(codecsLeft) = Len(CodecOrder) /\ Len(CodecOrder) \in Nat
  BY <1>1
<1>4. /\ codecsLeft \in Seq(STRING) /\ Len(codecsLeft) <= Len(CodecOrder)
      /\ \A k \in 1..Len(codecsLeft) :
           codecsLeft[k] = CodecOrder[(Len(CodecOrder) - Len(codecsLeft)) + k]
  BY <1>1, <1>3
<1>5. Added(stored, Len(CodecOrder) - Len(codecsLeft)) = <<>>
  <2>1. Len(CodecOrder) - Len(codecsLeft) = 0
    BY <1>3
  <2>2. Added(stored, 0) = FlattenSeq(<<>>)
    BY DEF Added
  <2>3. FlattenSeq(<<>>) = <<>>
    BY DEF FlattenSeq
  <2> QED BY <2>1, <2>2, <2>3
<1>6. Without(stored.base, Silent) \o <<>> = Without(stored.base, Silent)
  <2>1. Without(stored.base, Silent) \in Seq({x \in PlaylistLines : x.kind \notin Silent})
    BY <1>2, WithoutTyped
  <2> QED BY <2>1, ConcatEmptySeq
<1>7. MergeKeepsVariants
  BY <1>2, <1>5, <1>6, MergeKept
<1> QED BY <1>1, <1>2, <1>4, <1>7 DEF MasterInv

LEMMA ListedIs ==
  \A codec : Listed(codec) = FlattenSeq(Pairs(stored.ladders[codec], codec))
BY DEF Listed, Pairs

LEMMA LadderAdds ==
  ASSUME MasterInv, NEW codec \in STRING, codec \in DOMAIN stored.ladders
  PROVE  /\ Listed(codec) \in Seq(Variants)
         /\ WriteVariants(stored.ladders[codec], codec) = Listed(codec)
<1>1. Listed(codec) = FlattenSeq(Pairs(stored.ladders[codec], codec))
  BY DEF Listed, Pairs
<1>2. stored \in Published
  BY DEF MasterInv
<1> QED BY <1>1, <1>2, WritesListed

LEMMA OrderTyped == CodecOrder \in Seq(STRING) /\ Len(CodecOrder) \in Nat
<1>1. CodecOrder \in Seq(STRING)
  BY PlaylistAssumption
<1> QED BY <1>1

LEMMA AddedTyped ==
  ASSUME MasterInv, NEW n \in Nat, n <= Len(CodecOrder)
  PROVE  Added(stored, n) \in Seq(Variants)
<1> DEFINE A(k) == IF CodecOrder[k] \in DOMAIN stored.ladders THEN FlattenSeq(Pairs(stored.ladders[CodecOrder[k]], CodecOrder[k])) ELSE <<>>
           a == [k \in 1..n |-> A(k)]
<1>1. ASSUME NEW k \in 1..n PROVE A(k) \in Seq(Variants)
  <2>1. CodecOrder[k] \in STRING
    <3>1. k \in DOMAIN CodecOrder
      BY OrderTyped
    <3> QED BY OrderTyped, <3>1, ElementOf
  <2>2. CASE CodecOrder[k] \in DOMAIN stored.ladders
    BY <2>1, <2>2, LadderAdds, ListedIs
  <2>3. CASE CodecOrder[k] \notin DOMAIN stored.ladders
    BY <2>3
  <2> QED BY <2>2, <2>3
<1>2. Added(stored, n) = FlattenSeq(a)
  BY DEF Added
<1> HIDE DEF A
<1>3. a \in [1..n -> Seq(Variants)]
  BY <1>1
<1> HIDE DEF a
<1>4. a \in Seq(Seq(Variants))
  BY <1>3, SeqOfFunction
<1> QED BY <1>2, <1>4, FlattenConcat

LEMMA AddedGrows ==
  ASSUME MasterInv, NEW n \in Nat, n + 1 <= Len(CodecOrder)
  PROVE  Added(stored, n + 1) = Added(stored, n) \o (IF CodecOrder[n + 1] \in DOMAIN stored.ladders
                                     THEN Listed(CodecOrder[n + 1]) ELSE <<>>)
<1> DEFINE A(k) == IF CodecOrder[k] \in DOMAIN stored.ladders THEN FlattenSeq(Pairs(stored.ladders[CodecOrder[k]], CodecOrder[k])) ELSE <<>>
           F == [k \in 1..n + 1 |-> A(k)]
<1>1. CodecOrder \in Seq(STRING) /\ Len(CodecOrder) \in Nat
  BY OrderTyped
<1>2. ASSUME NEW k \in 1..n + 1 PROVE A(k) \in Seq(Variants)
  <2>1. CodecOrder[k] \in STRING
    <3>1. k \in DOMAIN CodecOrder
      BY <1>1
    <3> QED BY <1>1, <3>1, ElementOf
  <2>2. CASE CodecOrder[k] \in DOMAIN stored.ladders
    BY <2>1, <2>2, LadderAdds, ListedIs
  <2>3. CASE CodecOrder[k] \notin DOMAIN stored.ladders
    BY <2>3
  <2> QED BY <2>2, <2>3
<1>3. Added(stored, n) = FlattenSeq([k \in 1..n |-> A(k)]) /\ Added(stored, n + 1) = FlattenSeq([k \in 1..n + 1 |-> A(k)])
  BY DEF Added
<1> HIDE DEF A
<1>4. /\ [k \in 1..n |-> A(k)] = [k \in 1..n |-> F[k]]
      /\ [k \in 1..n + 1 |-> A(k)] = [k \in 1..n + 1 |-> F[k]]
  <2>1. \A k \in 1..n : k \in 1..n + 1
    OBVIOUS
  <2> QED BY <2>1
<1>5. \A k \in 1..n + 1 : F[k] \in Seq(Variants)
  BY <1>2
<1>6. F[n + 1] = A(n + 1)
  OBVIOUS
<1> HIDE DEF F
<1>7. FlattenSeq([k \in 1..n + 1 |-> F[k]]) = FlattenSeq([k \in 1..n |-> F[k]]) \o F[n + 1]
  BY <1>5, FlattenGrows
<1> QED BY <1>3, <1>4, <1>6, <1>7, ListedIs DEF A

LEMMA BehindTwo ==
  ASSUME NEW S, NEW h \in Seq(S), NEW s \in Seq(S)
  PROVE  Len(h) = 2 =>
         /\ h \o s \in Seq(S) /\ Len(h \o s) = 2 + Len(s) /\ DOMAIN (h \o s) = 1..2 + Len(s)
         /\ \A i \in 1..2 : (h \o s)[i] = h[i]
         /\ \A i \in 1..Len(s) : (h \o s)[2 + i] = s[i]
<1> DEFINE r == h \o s
<1>1. /\ r \in Seq(S) /\ Len(r) = Len(h) + Len(s)
      /\ \A i \in 1..Len(h) : r[i] = h[i]
      /\ \A i \in 1..Len(s) : r[Len(h) + i] = s[i]
  BY ConcatAt
<1> HIDE DEF r
<1>2. DOMAIN r = 1..Len(r)
  BY <1>1
<1> QED BY <1>1, <1>2 DEF r

LEMMA Headed ==
  ASSUME NEW s \in Seq(PlaylistLines), \A i \in DOMAIN s : s[i].kind # "header",
         NEW x, x = Header \o s
  PROVE  /\ x \in Seq(PlaylistLines)
         /\ \A i \in DOMAIN x : x[i].kind = "header" <=> i <= 2
         /\ Without(x, Silent) = Without(s, Silent)
<1>1. Header \in Seq(PlaylistLines) /\ Len(Header) = 2
      /\ Header[1].kind = "header" /\ Header[2].kind = "header"
  BY HeaderTyped
<1>2. /\ x \in Seq(PlaylistLines) /\ Len(x) = 2 + Len(s) /\ DOMAIN x = 1..2 + Len(s)
      /\ \A i \in 1..2 : x[i] = Header[i]
      /\ \A i \in 1..Len(s) : x[2 + i] = s[i]
  <2> DEFINE h == Header
  <2>1. h \in Seq(PlaylistLines) /\ Len(h) = 2 /\ x = h \o s /\ s \in Seq(PlaylistLines)
    BY <1>1
  <2> HIDE DEF h
  <2>2. /\ h \o s \in Seq(PlaylistLines) /\ Len(h \o s) = 2 + Len(s)
        /\ DOMAIN (h \o s) = 1..2 + Len(s)
        /\ \A i \in 1..2 : (h \o s)[i] = h[i]
        /\ \A i \in 1..Len(s) : (h \o s)[2 + i] = s[i]
    BY <2>1, BehindTwo
  <2> QED BY <2>1, <2>2 DEF h
<1>3. ASSUME NEW i \in DOMAIN x PROVE x[i].kind = "header" <=> i <= 2
  <2>1. CASE i <= 2
    <3>1. (i = 1 \/ i = 2) /\ i \in 1..2
      BY <1>2, <2>1
    <3>2. x[i] = Header[i]
      BY <1>2, <3>1
    <3> QED BY <1>1, <2>1, <3>1, <3>2
  <2>2. CASE ~(i <= 2)
    <3>0. i - 2 \in 1..Len(s) /\ 2 + (i - 2) = i /\ DOMAIN s = 1..Len(s)
      BY <1>2, <2>2
    <3>1. i - 2 \in DOMAIN s /\ x[i] = s[i - 2]
      BY <1>2, <3>0
    <3> QED BY <2>2, <3>1
  <2> QED BY <2>1, <2>2
<1>4. Without(x, Silent) = Without(Header, Silent) \o Without(s, Silent)
  BY <1>1, WithoutConcat
<1>5. Without(Header, Silent) = <<>>
  <2> DEFINE H == {line \in PlaylistLines : line.kind = "header"}
  <2>1. Header \in Seq(H)
    <3>1. \A i \in 1..2 : Header[i] \in H
      <4> TAKE i \in 1..2
      <4>1. i = 1 \/ i = 2
        OBVIOUS
      <4>2. Header[1] \in PlaylistLines /\ Header[2] \in PlaylistLines
        BY <1>1, ElementOf
      <4> QED BY <1>1, <4>1, <4>2
    <3>2. Header \in [1..2 -> H]
      BY <1>1, <3>1
    <3> HIDE DEF H
    <3> QED BY <3>2, SeqOfFunction
  <2>2. \A line \in H : line.kind \in Silent
    BY DEF Silent
  <2> HIDE DEF H
  <2> QED BY <2>1, <2>2, WithoutDrops
<1>6. Without(s, Silent) \in Seq({line \in PlaylistLines : line.kind \notin Silent})
  BY WithoutTyped
<1>7. <<>> \o Without(s, Silent) = Without(s, Silent)
  BY <1>6, ConcatEmptySeq
<1> QED BY <1>2, <1>3, <1>4, <1>5, <1>7

LEMMA MasterSteps == MasterInv /\ [FoldCodec]_masterVars => MasterInv'
<1> SUFFICES ASSUME MasterInv, FoldCodec PROVE MasterInv'
  <2>1. MasterInv /\ UNCHANGED masterVars => MasterInv'
    BY DEF MasterInv, MergeKeepsVariants, masterVars, Listed
  <2> QED BY <2>1
<1> DEFINE codec == Head(codecsLeft)
           folded == Len(CodecOrder) - Len(codecsLeft)
           Base == Without(stored.base, Silent)
           Loud == {line \in PlaylistLines : line.kind \notin Silent}
<1>1. /\ codecsLeft \in Seq(STRING) /\ codecsLeft # <<>>
      /\ codecsLeft' = Tail(codecsLeft) /\ stored' = stored
      /\ Len(codecsLeft) <= Len(CodecOrder) /\ Len(CodecOrder) \in Nat
      /\ \A k \in 1..Len(codecsLeft) : codecsLeft[k] = CodecOrder[folded + k]
  <2>1. codecsLeft \in Seq(STRING) /\ Len(codecsLeft) <= Len(CodecOrder)
        /\ \A k \in 1..Len(codecsLeft) : codecsLeft[k] = CodecOrder[folded + k]
    BY DEF MasterInv
  <2>2. codecsLeft # <<>> /\ codecsLeft' = Tail(codecsLeft) /\ stored' = stored
    BY DEF FoldCodec
  <2> QED BY <2>1, <2>2, OrderTyped
<1>2. /\ codecsLeft' \in Seq(STRING) /\ Len(codecsLeft') = Len(codecsLeft) - 1
      /\ Len(codecsLeft) \in Nat /\ Len(codecsLeft) >= 1
      /\ codec \in STRING /\ codec = codecsLeft[1]
      /\ \A k \in 1..Len(codecsLeft) - 1 : Tail(codecsLeft)[k] = codecsLeft[k + 1]
  BY <1>1
<1>3. folded \in Nat /\ folded + 1 <= Len(CodecOrder) /\ codec = CodecOrder[folded + 1]
  BY <1>1, <1>2
<1>4. (Len(CodecOrder) - Len(codecsLeft))' = folded + 1
  <2>1. CodecOrder' = CodecOrder
    OBVIOUS
  <2>2. Len(CodecOrder) - Len(codecsLeft') = folded + 1
    BY <1>1, <1>2
  <2> QED BY <2>1, <2>2
<1>5. \A k \in 1..Len(codecsLeft') :
        codecsLeft'[k] = CodecOrder[(Len(CodecOrder) - Len(codecsLeft')) + k]
  <2> TAKE k \in 1..Len(codecsLeft')
  <2>1. k + 1 \in 1..Len(codecsLeft) /\ k \in 1..Len(codecsLeft) - 1
        /\ (Len(CodecOrder) - Len(codecsLeft')) + k = folded + (k + 1)
    BY <1>1, <1>2
  <2> QED BY <1>1, <1>2, <2>1
<1>6. /\ combined \in Seq(PlaylistLines)
      /\ \A i \in DOMAIN combined : combined[i].kind = "header" <=> i <= 2
      /\ Without(combined, Silent) = Base \o Added(stored, folded)
  BY MergeKept DEF MasterInv
<1>7. Added(stored, folded + 1) = Added(stored, folded) \o (IF codec \in DOMAIN stored.ladders THEN Listed(codec) ELSE <<>>)
  <2> HIDE DEF folded, codec
  <2> QED BY <1>3, AddedGrows
<1>8. \A n : Added(stored', n) = Added(stored, n)
  BY <1>1
<1>9. Without(stored'.base, Silent) = Base
  BY <1>1
<1>10. Base \in Seq(Loud) /\ Added(stored, folded) \in Seq(Loud)
  <2>1. Base \in Seq(Loud)
    <3>1. stored.base \in Seq(PlaylistLines)
      BY PlaylistAssumption DEF MasterInv
    <3> QED BY <3>1, WithoutTyped
  <2>2. Added(stored, folded) \in Seq(Variants)
    <3> HIDE DEF folded
    <3> QED BY <1>3, AddedTyped
  <2>3. Seq(Variants) \subseteq Seq(Loud)
    BY VariantsAreLoud
  <2> QED BY <2>1, <2>2, <2>3
<1> HIDE DEF Base, Loud, codec, folded
<1>11. MasterInv' <=>
         /\ combined' \in Seq(PlaylistLines)
         /\ \A i \in DOMAIN combined' : combined'[i].kind = "header" <=> i <= 2
         /\ Without(combined', Silent) = Base \o Added(stored, folded + 1)
  <2>1. MergeKeepsVariants' <=>
          /\ \A i \in DOMAIN combined' : combined'[i].kind = "header" <=> i <= 2
          /\ Without(combined', Silent) = Base \o Added(stored, folded + 1)
    <3>1. MergeKeepsVariants' <=>
            /\ \A i \in DOMAIN combined' : combined'[i].kind = "header" <=> i <= 2
            /\ Without(combined', Silent)
                 = Without(stored'.base, Silent) \o Added(stored', Len(CodecOrder) - Len(codecsLeft'))
      BY DEF MergeKeepsVariants, Added, Silent, Listed, Pairs
    <3>2. Len(CodecOrder) - Len(codecsLeft') = folded + 1
      BY <1>4
    <3> QED BY <3>1, <3>2, <1>8, <1>9
  <2>2. stored' \in Published /\ codecsLeft' \in Seq(STRING) /\ Len(codecsLeft') <= Len(CodecOrder)
    BY <1>1, <1>2 DEF MasterInv
  <2> QED BY <2>1, <2>2, <1>5 DEF MasterInv
<1>12. CASE codec \notin DOMAIN stored.ladders
  <2>1. combined' = combined
    BY <1>12 DEF FoldCodec, codec
  <2>2. Added(stored, folded + 1) = Added(stored, folded)
    <3>1. Added(stored, folded + 1) = Added(stored, folded) \o <<>>
      BY <1>7, <1>12
    <3> QED BY <3>1, <1>10, ConcatEmptySeq
  <2> QED BY <1>6, <1>11, <2>1, <2>2
<1>13. CASE codec \in DOMAIN stored.ladders
  <2> DEFINE C == Without(combined, Silent)
             L == Listed(codec)
             s == C \o L
  <2>1. C \in Seq(Loud) /\ L \in Seq(Loud) /\ C = Base \o Added(stored, folded)
    <3>1. L \in Seq(Variants)
      BY <1>2, <1>13, LadderAdds
    <3>2. C \in Seq(Loud)
      BY <1>6, WithoutTyped DEF Loud
    <3>3. Seq(Variants) \subseteq Seq(Loud)
      BY VariantsAreLoud DEF Loud
    <3> QED BY <1>6, <3>1, <3>2, <3>3
  <2>2. combined' = Header \o s
    <3>1. combined' = MergeMasters(combined, stored.ladders[codec], codec)
      BY <1>13 DEF FoldCodec, codec
    <3>2. CopyBaseBody(combined) = C
      BY DEF CopyBaseBody, Silent
    <3>3. WriteVariants(stored.ladders[codec], codec) = L
      BY <1>2, <1>13, LadderAdds
    <3>4. combined' = (Header \o C) \o L
      BY <3>1, <3>2, <3>3 DEF MergeMasters
    <3>5. Header \in Seq(PlaylistLines) /\ C \in Seq(PlaylistLines) /\ L \in Seq(PlaylistLines)
      BY <2>1, HeaderTyped, LoudAreLines DEF Loud
    <3> HIDE DEF C, L
    <3>6. (Header \o C) \o L = Header \o (C \o L)
      BY <3>5, Reassociate
    <3> QED BY <3>4, <3>6
  <2> HIDE DEF C, L
  <2>3. s \in Seq(Loud)
    BY <2>1, ConcatAt
  <2>4. s \in Seq(PlaylistLines)
    BY <2>3, LoudAreLines DEF Loud
  <2>5. \A i \in DOMAIN s : s[i].kind \notin Silent
    <3> TAKE i \in DOMAIN s
    <3>1. s[i] \in Loud
      BY <2>3, ElementOf
    <3> QED BY <3>1 DEF Loud
  <2>6. /\ combined' \in Seq(PlaylistLines)
        /\ \A i \in DOMAIN combined' : combined'[i].kind = "header" <=> i <= 2
        /\ Without(combined', Silent) = Without(s, Silent)
    <3>1. \A i \in DOMAIN s : s[i].kind # "header"
      BY <2>5 DEF Silent
    <3> HIDE DEF s
    <3> QED BY <2>2, <2>4, <3>1, Headed
  <2>7. Without(s, Silent) = s
    <3>1. DOMAIN s = 1..Len(s)
      BY <2>3
    <3> HIDE DEF s
    <3>2. \A i \in 1..Len(s) : s[i].kind \notin Silent
      BY <2>5, <3>1
    <3> QED BY <2>3, <3>2, WithoutKeeps
  <2>8. s = Base \o Added(stored, folded + 1)
    <3>1. Added(stored, folded + 1) = Added(stored, folded) \o L
      BY <1>7, <1>13 DEF L
    <3> DEFINE x == Added(stored, folded)
    <3>2. s = (Base \o x) \o L
      BY <2>1
    <3>3. x \in Seq(Loud) /\ Base \in Seq(Loud) /\ L \in Seq(Loud)
      BY <1>10, <2>1
    <3> HIDE DEF x, s
    <3>4. (Base \o x) \o L = Base \o (x \o L)
      BY ONLY <3>3, Reassociate
    <3> QED BY <3>1, <3>2, <3>4 DEF x
  <2> QED BY <1>11, <2>6, <2>7, <2>8
<1> QED BY <1>12, <1>13

(* Whatever ladders are folded in, the combined master keeps the base's lines and *)
(* lists, codec by codec, each variant once under its directory with its CODECS  *)
(* (transcode.go: MergeMasters; av1.go: rebuildCombinedMaster).                  *)
THEOREM MergeKeeps == MasterSpec => []MergeKeepsVariants
<1>1. MasterInv => MergeKeepsVariants
  BY DEF MasterInv
<1> QED BY <1>1, MasterStarts, MasterSteps, PTL DEF MasterSpec

-----------------------------------------------------------------------------
(* Sequences of lines. *)

LEMMA Members ==
  ASSUME NEW s \in Seq(Nat), NEW t \in Seq(Nat)
  PROVE  /\ s \o t \in Seq(Nat) /\ ToSet(s) \in SUBSET Nat
         /\ ToSet(s \o t) = ToSet(s) \cup ToSet(t)
<1>1. /\ s \o t \in Seq(Nat) /\ Len(s \o t) = Len(s) + Len(t)
      /\ Len(s) \in Nat /\ Len(t) \in Nat
      /\ \A i \in 1..Len(s) : (s \o t)[i] = s[i]
      /\ \A i \in 1..Len(t) : (s \o t)[Len(s) + i] = t[i]
  BY ConcatAt
<1>2. ToSet(s) \in SUBSET Nat
  BY DEF ToSet
<1>3. DOMAIN s = 1..Len(s) /\ DOMAIN t = 1..Len(t) /\ DOMAIN (s \o t) = 1..Len(s) + Len(t)
  BY <1>1
<1>4. ASSUME NEW x \in ToSet(s \o t) PROVE x \in ToSet(s) \cup ToSet(t)
  <2>1. PICK i \in 1..Len(s) + Len(t) : x = (s \o t)[i]
    BY <1>3 DEF ToSet
  <2>2. CASE i <= Len(s)
    <3>1. i \in 1..Len(s)
      BY <1>1, <2>2
    <3> QED BY <1>1, <1>3, <2>1, <3>1 DEF ToSet
  <2>3. CASE i > Len(s)
    <3>1. i - Len(s) \in 1..Len(t) /\ Len(s) + (i - Len(s)) = i
      BY <1>1, <2>3
    <3>2. x = t[i - Len(s)]
      BY <1>1, <2>1, <3>1
    <3> QED BY <1>3, <3>1, <3>2 DEF ToSet
  <2> QED BY <1>1, <2>2, <2>3
<1>5. ASSUME NEW x \in ToSet(s) PROVE x \in ToSet(s \o t)
  <2>1. PICK i \in 1..Len(s) : x = s[i]
    BY <1>3 DEF ToSet
  <2>2. i \in 1..Len(s) + Len(t) /\ x = (s \o t)[i]
    BY <1>1, <2>1
  <2> QED BY <1>3, <2>2 DEF ToSet
<1>6. ASSUME NEW x \in ToSet(t) PROVE x \in ToSet(s \o t)
  <2>1. PICK i \in 1..Len(t) : x = t[i]
    BY <1>3 DEF ToSet
  <2>2. Len(s) + i \in 1..Len(s) + Len(t) /\ x = (s \o t)[Len(s) + i]
    BY <1>1, <2>1
  <2> QED BY <1>3, <2>2 DEF ToSet
<1> QED BY <1>1, <1>2, <1>4, <1>5, <1>6

LEMMA Ends ==
  ASSUME NEW s \in Seq(Nat), NEW t \in Seq(Nat), t # <<>>
  PROVE  /\ s \o t # <<>>
         /\ Last(t) \in ToSet(t) /\ Last(s \o t) = Last(t)
         /\ s # <<>> => Head(s \o t) = Head(s)
         /\ s = <<>> => Head(s \o t) = Head(t) /\ Head(t) \in ToSet(t)
<1>1. /\ s \o t \in Seq(Nat) /\ Len(s \o t) = Len(s) + Len(t)
      /\ Len(s) \in Nat /\ Len(t) \in Nat
      /\ \A i \in 1..Len(s) : (s \o t)[i] = s[i]
      /\ \A i \in 1..Len(t) : (s \o t)[Len(s) + i] = t[i]
  BY ConcatAt
<1>2. Len(t) >= 1
  BY <1>1, EmptySeq
<1>3. s \o t # <<>>
  BY <1>1, <1>2
<1>4. Last(t) \in ToSet(t) /\ Last(s \o t) = Last(t)
  <2>1. Last(t) = t[Len(t)] /\ Last(s \o t) = (s \o t)[Len(s) + Len(t)]
    BY <1>1 DEF Last
  <2>2. Len(t) \in 1..Len(t) /\ Len(t) \in DOMAIN t
    BY <1>1, <1>2
  <2> QED BY <1>1, <2>1, <2>2 DEF ToSet
<1>5. s # <<>> => Head(s \o t) = Head(s)
  <2> SUFFICES ASSUME s # <<>> PROVE Head(s \o t) = Head(s)
    OBVIOUS
  <2>1. Len(s) >= 1
    BY <1>1, EmptySeq
  <2>2. 1 \in 1..Len(s)
    BY <1>1, <2>1
  <2>3. Head(s \o t) = (s \o t)[1] /\ Head(s) = s[1]
    BY <1>1, <1>3
  <2> QED BY <1>1, <2>2, <2>3
<1>6. s = <<>> => Head(s \o t) = Head(t) /\ Head(t) \in ToSet(t)
  <2> SUFFICES ASSUME s = <<>> PROVE Head(s \o t) = Head(t) /\ Head(t) \in ToSet(t)
    OBVIOUS
  <2>1. s \o t = t
    OBVIOUS
  <2>2. Head(t) = t[1] /\ 1 \in DOMAIN t
    BY <1>1, <1>2
  <2> QED BY <2>1, <2>2 DEF ToSet
<1> QED BY <1>3, <1>4, <1>5, <1>6

LEMMA Longer ==
  ASSUME NEW s \in Seq(Nat), NEW x \in Nat, \A y \in ToSet(s) : y < x, Increasing(s)
  PROVE  /\ Append(s, x) \in Seq(Nat) /\ ToSet(Append(s, x)) = ToSet(s) \cup {x}
         /\ Increasing(Append(s, x))
<1> DEFINE u == Append(s, x)
           n == Len(s)
<1>1. /\ u \in Seq(Nat) /\ n \in Nat /\ DOMAIN s = 1..n /\ DOMAIN u = 1..n + 1
      /\ u[n + 1] = x /\ \A i \in 1..n : u[i] = s[i]
  OBVIOUS
<1> HIDE DEF u, n
<1>2. ToSet(u) = ToSet(s) \cup {x}
  <2>1. ASSUME NEW y \in ToSet(u) PROVE y \in ToSet(s) \cup {x}
    <3>1. PICK i \in 1..n + 1 : y = u[i]
      BY <1>1 DEF ToSet
    <3>2. i = n + 1 \/ i \in 1..n
      BY <1>1
    <3> QED BY <1>1, <3>1, <3>2 DEF ToSet
  <2>2. ASSUME NEW y \in ToSet(s) PROVE y \in ToSet(u)
    <3>1. PICK i \in 1..n : y = s[i]
      BY <1>1 DEF ToSet
    <3>2. i \in 1..n + 1 /\ y = u[i]
      BY <1>1, <3>1
    <3> QED BY <1>1, <3>2 DEF ToSet
  <2>3. x \in ToSet(u)
    <3>1. n + 1 \in 1..n + 1
      BY <1>1
    <3> QED BY <1>1, <3>1 DEF ToSet
  <2> QED BY <2>1, <2>2, <2>3
<1>3. Increasing(u)
  <2> SUFFICES ASSUME NEW a \in 1..n + 1, NEW b \in 1..n + 1, a < b PROVE u[a] < u[b]
    BY <1>1 DEF Increasing
  <2>1. a \in 1..n
    BY <1>1
  <2>2. CASE b = n + 1
    <3>1. s[a] \in ToSet(s)
      BY <1>1, <2>1 DEF ToSet
    <3> QED BY <1>1, <2>1, <2>2, <3>1
  <2>3. CASE b # n + 1
    <3>1. b \in 1..n
      BY <1>1, <2>3
    <3>2. s[a] < s[b]
      BY <1>1, <2>1, <3>1 DEF Increasing
    <3> QED BY <1>1, <2>1, <3>1, <3>2
  <2> QED BY <2>2, <2>3
<1> QED BY <1>1, <1>2, <1>3 DEF u

(* The texts of some cues or chunks, one after the other. *)
Texts(rows) == [k \in 1..Len(rows) |-> rows[k].text]
Flat(rows) == FlattenSeq(Texts(rows))

LEMMA FlatTyped ==
  ASSUME NEW R, \A r \in R : r.text \in Seq(Nat), NEW rows \in Seq(R)
  PROVE  Flat(rows) \in Seq(Nat)
<1>1. Len(rows) \in Nat /\ \A k \in 1..Len(rows) : rows[k] \in R
  BY ElementOf
<1>2. Texts(rows) \in [1..Len(rows) -> Seq(Nat)]
  BY <1>1 DEF Texts
<1>3. Texts(rows) \in Seq(Seq(Nat))
  BY <1>1, <1>2, SeqOfFunction
<1> QED BY <1>3, FlattenConcat DEF Flat

LEMMA FlatGrows ==
  ASSUME NEW R, \A r \in R : r.text \in Seq(Nat), NEW rows \in Seq(R), NEW r \in R
  PROVE  Flat(Append(rows, r)) = Flat(rows) \o r.text
<1> DEFINE n == Len(rows)
           u == Append(rows, r)
           F == [k \in 1..n + 1 |-> u[k].text]
<1>1. n \in Nat /\ Len(u) = n + 1 /\ u[n + 1] = r /\ \A k \in 1..n : u[k] = rows[k]
  OBVIOUS
<1>2. u \in Seq(R)
  OBVIOUS
<1> HIDE DEF u, n
<1>3. \A k \in 1..n + 1 : u[k] \in R
  BY <1>1, <1>2, ElementOf
<1>4. \A k \in 1..n + 1 : F[k] \in Seq(Nat)
  BY <1>3
<1>5. Texts(u) = [k \in 1..n + 1 |-> F[k]]
  BY <1>1 DEF Texts
<1>6. Texts(rows) = [k \in 1..n |-> F[k]]
  BY <1>1 DEF Texts, n
<1>7. F[n + 1] = r.text
  BY <1>1
<1> HIDE DEF F
<1>8. FlattenSeq([k \in 1..n + 1 |-> F[k]]) = FlattenSeq([k \in 1..n |-> F[k]]) \o F[n + 1]
  BY <1>1, <1>4, FlattenGrows
<1> QED BY <1>5, <1>6, <1>7, <1>8 DEF Flat, u

LEMMA FlatNone == Flat(<<>>) = <<>>
<1>1. Texts(<<>>) = <<>>
  BY DEF Texts
<1>2. FlattenSeq(<<>>) = <<>>
  BY DEF FlattenSeq
<1> QED BY <1>1, <1>2 DEF Flat

-----------------------------------------------------------------------------
(* Reading the cues of the track. *)

Cues == [start : Int, end : Int, text : Seq(Nat)]
Readings == [open : BOOLEAN, cues : Seq(Cues), cue : Cues]

(* The timings above a place with no blank line between. *)
OpenBy(i) ==
  {t \in 1..i : IsTiming(track[t]) /\ \A k \in t + 1..i : track[k].kind # "blank"}

LEMMA LineCases ==
  ASSUME track \in Seq(Line), NEW i \in DOMAIN track
  PROVE  /\ track[i] \in Line
         /\ IsTiming(track[i]) => /\ track[i].start \in Int /\ track[i].end \in Int
                                  /\ track[i].kind # "blank"
<1>1. track[i] \in Line
  BY ElementOf
<1>2. CASE track[i] \in [kind : {"blank", "text"}]
  BY <1>1, <1>2 DEF IsTiming
<1>3. CASE track[i] \in [kind : {"timing"}, ok : {FALSE}]
  BY <1>1, <1>3 DEF IsTiming
<1>4. CASE track[i] \in [kind : {"timing"}, ok : {TRUE}, start : Int, end : Int]
  BY <1>1, <1>4 DEF IsTiming
<1> QED BY <1>1, <1>2, <1>3, <1>4 DEF Line

LEMMA OpenStep ==
  ASSUME track \in Seq(Line), NEW i \in DOMAIN track
  PROVE  /\ track[i].kind = "blank" => Above(i) = {} /\ OpenBy(i) = {}
         /\ track[i].kind # "blank" =>
              /\ Above(i) = OpenBy(i - 1)
              /\ OpenBy(i) = OpenBy(i - 1) \cup (IF IsTiming(track[i]) THEN {i} ELSE {})
<1>1. i \in Nat /\ i >= 1
  OBVIOUS
<1>2. IsTiming(track[i]) => track[i].kind # "blank"
  BY LineCases
<1>3. CASE track[i].kind = "blank"
  <2>1. ASSUME NEW t \in 1..i - 1 PROVE ~ \A k \in t + 1..i : track[k].kind # "blank"
    <3>1. i \in t + 1..i
      BY <1>1
    <3> QED BY <1>3, <3>1
  <2>2. Above(i) = {}
    BY <2>1 DEF Above
  <2>3. ASSUME NEW t \in 1..i, IsTiming(track[t]) PROVE ~ \A k \in t + 1..i : track[k].kind # "blank"
    <3>1. t # i
      BY <1>2, <1>3, <2>3
    <3>2. t \in 1..i - 1
      BY <1>1, <3>1
    <3> QED BY <2>1, <3>2
  <2>4. OpenBy(i) = {}
    BY <2>3 DEF OpenBy
  <2> QED BY <1>3, <2>2, <2>4
<1>4. CASE track[i].kind # "blank"
  <2>1. ASSUME NEW t \in 1..i - 1
        PROVE  (\A k \in t + 1..i : track[k].kind # "blank")
                 <=> \A k \in t + 1..i - 1 : track[k].kind # "blank"
    <3>1. \A k \in t + 1..i : k = i \/ k \in t + 1..i - 1
      BY <1>1
    <3>2. \A k \in t + 1..i - 1 : k \in t + 1..i
      BY <1>1
    <3> QED BY <1>4, <3>1, <3>2
  <2>2. Above(i) = OpenBy(i - 1)
    BY <2>1 DEF Above, OpenBy
  <2>3. ASSUME NEW t \in OpenBy(i) PROVE t \in OpenBy(i - 1) \/ (t = i /\ IsTiming(track[i]))
    <3>1. t \in 1..i /\ IsTiming(track[t]) /\ \A k \in t + 1..i : track[k].kind # "blank"
      BY DEF OpenBy
    <3>2. t = i \/ t \in 1..i - 1
      BY <1>1, <3>1
    <3> QED BY <2>1, <3>1, <3>2 DEF OpenBy
  <2>4. ASSUME NEW t \in OpenBy(i - 1) PROVE t \in OpenBy(i)
    <3>1. t \in 1..i - 1 /\ t \in 1..i
      BY <1>1 DEF OpenBy
    <3> QED BY <2>1, <3>1 DEF OpenBy
  <2>5. IsTiming(track[i]) => i \in OpenBy(i)
    <3>1. i \in 1..i /\ i + 1..i = {}
      BY <1>1
    <3> QED BY <3>1 DEF OpenBy
  <2>6. OpenBy(i) = OpenBy(i - 1) \cup (IF IsTiming(track[i]) THEN {i} ELSE {})
    BY <2>3, <2>4, <2>5
  <2> QED BY <1>4, <2>2, <2>6
<1> QED BY <1>3, <1>4

(* The first of them stays the first. *)
LEMMA FirstStays ==
  ASSUME track \in Seq(Line), NEW i \in DOMAIN track, track[i].kind # "blank",
         OpenBy(i - 1) # {}
  PROVE  /\ OpenBy(i) # {} /\ Min(OpenBy(i)) = Min(OpenBy(i - 1))
         /\ Min(OpenBy(i - 1)) \in OpenBy(i - 1) /\ TimingLine(i) = Min(OpenBy(i - 1))
<1> DEFINE S == OpenBy(i - 1)
           T == OpenBy(i)
<1>1. T = S \cup (IF IsTiming(track[i]) THEN {i} ELSE {}) /\ TimingLine(i) = Min(S)
  BY OpenStep DEF TimingLine
<1>2. S \in SUBSET Nat /\ T \in SUBSET Nat /\ \A t \in S : t < i
  BY DEF OpenBy
<1>3. Min(S) \in S /\ \A x \in S : Min(S) <= x
  <2>1. S # {}
    OBVIOUS
  <2> HIDE DEF S
  <2> QED BY <1>2, <2>1, MinMember
<1>4. T # {}
  BY <1>1
<1>5. Min(T) \in T /\ \A x \in T : Min(T) <= x
  <2> HIDE DEF T
  <2> QED BY <1>2, <1>4, MinMember
<1>6. Min(S) \in Nat /\ Min(T) \in Nat /\ i \in Nat
  BY <1>2, <1>3, <1>5
<1>7. Min(T) <= Min(S)
  BY <1>1, <1>3, <1>5
<1>8. Min(S) <= Min(T)
  <2>1. CASE Min(T) \in S
    BY <1>3, <2>1
  <2>2. CASE Min(T) = i
    BY <1>2, <1>3, <1>6, <2>2
  <2> HIDE DEF S, T
  <2> QED BY <1>1, <1>5, <2>1, <2>2
<1>9. Min(S) = Min(T)
  BY <1>6, <1>7, <1>8
<1> QED BY <1>1, <1>3, <1>4, <1>9

(* A cue is of lines that are spoken, under one timing. *)
OfCue(c) ==
  /\ c.text # <<>>
  /\ \A j \in ToSet(c.text) :
       /\ j \in Spoken /\ Timing(j).start = c.start /\ Timing(j).end = c.end
       /\ \A l \in ToSet(c.text) : TimingLine(l) = TimingLine(j)

Read(f) == Flat(f.cues) \o (IF f.open THEN f.cue.text ELSE <<>>)

(* What has been read before a line. *)
ReadTo(f, i) ==
  /\ f \in Readings
  /\ f.open <=> OpenBy(i) # {}
  /\ f.open => /\ f.cue.start = track[Min(OpenBy(i))].start
               /\ f.cue.end = track[Min(OpenBy(i))].end
               /\ \A j \in ToSet(f.cue.text) : j \in Spoken /\ TimingLine(j) = Min(OpenBy(i))
  /\ \A k \in DOMAIN f.cues : OfCue(f.cues[k])
  /\ ToSet(Read(f)) = {j \in Spoken : j <= i} /\ Increasing(Read(f))

LEMMA CuesHaveText == \A r \in Cues : r.text \in Seq(Nat)
BY DEF Cues

LEMMA ReadTyped ==
  ASSUME NEW f \in Readings
  PROVE  /\ f.open \in BOOLEAN /\ f.cues \in Seq(Cues) /\ f.cue \in Cues
         /\ f.cue.text \in Seq(Nat) /\ Flat(f.cues) \in Seq(Nat) /\ Read(f) \in Seq(Nat)
         /\ f.open => Read(f) = Flat(f.cues) \o f.cue.text
         /\ ~f.open => Read(f) = Flat(f.cues)
<1>1. f.open \in BOOLEAN /\ f.cues \in Seq(Cues) /\ f.cue \in Cues /\ f.cue.text \in Seq(Nat)
  BY DEF Readings, Cues
<1>2. Flat(f.cues) \in Seq(Nat)
  BY <1>1, CuesHaveText, FlatTyped
<1>3. CASE f.open
  <2>1. Read(f) = Flat(f.cues) \o f.cue.text
    BY <1>3 DEF Read
  <2>2. Flat(f.cues) \o f.cue.text \in Seq(Nat)
    BY <1>1, <1>2, Members
  <2> QED BY <1>1, <1>2, <1>3, <2>1, <2>2
<1>4. CASE ~f.open
  <2>1. Read(f) = Flat(f.cues) \o <<>>
    BY <1>4 DEF Read
  <2>2. Read(f) = Flat(f.cues)
    BY <1>2, <2>1, ConcatEmptySeq
  <2> QED BY <1>1, <1>2, <1>4, <2>2
<1> QED BY <1>1, <1>3, <1>4

LEMMA Closing ==
  ASSUME NEW f, NEW i, ReadTo(f, i)
  PROVE  /\ Closed(f) \in Seq(Cues) /\ Flat(Closed(f)) = Read(f)
         /\ \A k \in DOMAIN Closed(f) : OfCue(Closed(f)[k])
<1>1. /\ f.open \in BOOLEAN /\ f.cues \in Seq(Cues) /\ f.cue \in Cues
      /\ f.cue.text \in Seq(Nat) /\ Flat(f.cues) \in Seq(Nat) /\ Read(f) \in Seq(Nat)
      /\ f.open => Read(f) = Flat(f.cues) \o f.cue.text
      /\ ~f.open => Read(f) = Flat(f.cues)
  BY ReadTyped DEF ReadTo
<1>2. CASE f.open /\ f.cue.text # <<>>
  <2> DEFINE u == Append(f.cues, f.cue)
  <2>1. Closed(f) = u
    BY <1>2 DEF Closed
  <2>2. u \in Seq(Cues)
    BY <1>1
  <2>3. Flat(u) = Flat(f.cues) \o f.cue.text
    BY <1>1, CuesHaveText, FlatGrows
  <2>4. OfCue(f.cue)
    <3>1. \A j \in ToSet(f.cue.text) :
            /\ j \in Spoken /\ TimingLine(j) = Min(OpenBy(i))
            /\ f.cue.start = track[Min(OpenBy(i))].start
            /\ f.cue.end = track[Min(OpenBy(i))].end
      BY <1>2 DEF ReadTo
    <3> QED BY <1>2, <3>1 DEF OfCue, Timing
  <2>5. ASSUME NEW k \in DOMAIN u PROVE OfCue(u[k])
    <3>1. (k \in DOMAIN f.cues /\ u[k] = f.cues[k]) \/ u[k] = f.cue
      BY <1>1
    <3> HIDE DEF u
    <3> QED BY <2>4, <3>1 DEF ReadTo
  <2> HIDE DEF u
  <2> QED BY <1>1, <1>2, <2>1, <2>2, <2>3, <2>5
<1>3. CASE f.open /\ f.cue.text = <<>>
  <2>1. Closed(f) = f.cues
    BY <1>3 DEF Closed
  <2>2. Flat(f.cues) = Read(f)
    BY <1>1, <1>3, ConcatEmptySeq
  <2> QED BY <1>1, <2>1, <2>2 DEF ReadTo
<1>4. CASE ~f.open
  BY <1>1, <1>4 DEF Closed, ReadTo
<1> QED BY <1>1, <1>2, <1>3, <1>4


LEMMA ReadStarts ==
  ASSUME track \in Seq(Line)
  PROVE  NothingRead \in Readings /\ ReadTo(NothingRead, 0)
<1>1. NothingRead \in Readings
  BY DEF NothingRead, Readings, Cues
<1>2. OpenBy(0) = {}
  BY DEF OpenBy
<1>3. Read(NothingRead) = <<>>
  <2>1. Flat(<<>>) = <<>>
    BY FlatNone
  <2>2. NothingRead.cues = <<>> /\ NothingRead.open = FALSE
    BY DEF NothingRead
  <2> QED BY <2>1, <2>2, <1>1, ReadTyped
<1>4. {j \in Spoken : j <= 0} = {}
  <2>1. \A j \in Spoken : j \in Nat /\ j >= 1
    BY DEF Spoken
  <2> QED BY <2>1
<1>5. ToSet(<<>>) = {} /\ Increasing(<<>>)
  BY DEF ToSet, Increasing
<1> QED BY <1>1, <1>2, <1>3, <1>4, <1>5 DEF ReadTo, NothingRead

(* The lines spoken so far, with one more. *)
LEMMA SpokenStep ==
  ASSUME track \in Seq(Line), NEW i \in DOMAIN track
  PROVE  /\ i \in Spoken => {j \in Spoken : j <= i} = {j \in Spoken : j <= i - 1} \cup {i}
         /\ i \notin Spoken => {j \in Spoken : j <= i} = {j \in Spoken : j <= i - 1}
<1>1. i \in Nat /\ \A j \in Spoken : j \in Nat
  BY DEF Spoken
<1>2. \A j \in Nat : j <= i <=> j <= i - 1 \/ j = i
  BY <1>1
<1> QED BY <1>1, <1>2

LEMMA AppendLast ==
  ASSUME NEW s \in Seq(Nat), NEW t \in Seq(Nat), NEW x \in Nat
  PROVE  /\ s \o Append(t, x) = Append(s \o t, x)
         /\ Append(t, x) = t \o <<x>> /\ <<x>> \in Seq(Nat)
<1>1. Append(t, x) = t \o <<x>> /\ <<x>> \in Seq(Nat)
  OBVIOUS
<1>2. s \o t \in Seq(Nat)
  OBVIOUS
<1>3. Append(s \o t, x) = (s \o t) \o <<x>>
  BY <1>2
<1>4. (s \o t) \o <<x>> = s \o (t \o <<x>>)
  BY <1>1, Reassociate
<1> QED BY <1>1, <1>3, <1>4

LEMMA ShutTo ==
  ASSUME NEW f \in Readings, NEW i, ~f.open, OpenBy(i) = {},
         \A k \in DOMAIN f.cues : OfCue(f.cues[k]),
         ToSet(Read(f)) = {j \in Spoken : j <= i}, Increasing(Read(f))
  PROVE  ReadTo(f, i)
BY DEF ReadTo

LEMMA OpenTo ==
  ASSUME NEW f \in Readings, NEW i, f.open, OpenBy(i) # {}, NEW m, m = Min(OpenBy(i)),
         f.cue.start = track[m].start, f.cue.end = track[m].end,
         \A j \in ToSet(f.cue.text) : j \in Spoken /\ TimingLine(j) = m,
         \A k \in DOMAIN f.cues : OfCue(f.cues[k]),
         ToSet(Read(f)) = {j \in Spoken : j <= i}, Increasing(Read(f))
  PROVE  ReadTo(f, i)
BY DEF ReadTo

LEMMA ReadStep ==
  ASSUME track \in Seq(Line), NEW i \in DOMAIN track, NEW f, ReadTo(f, i - 1)
  PROVE  ReadTo(ReadLine(f, track[i], i), i)
<1> DEFINE g == ReadLine(f, track[i], i)
           m == Min(OpenBy(i - 1))
<1>1. /\ f.open \in BOOLEAN /\ f.cues \in Seq(Cues) /\ f.cue \in Cues
      /\ f.cue.text \in Seq(Nat) /\ Flat(f.cues) \in Seq(Nat) /\ Read(f) \in Seq(Nat)
      /\ f.open => Read(f) = Flat(f.cues) \o f.cue.text
      /\ ~f.open => Read(f) = Flat(f.cues)
  BY ReadTyped DEF ReadTo
<1>2. i \in Nat /\ track[i] \in Line
  BY LineCases
<1>3. /\ f \in Readings /\ (f.open <=> OpenBy(i - 1) # {})
      /\ ToSet(Read(f)) = {j \in Spoken : j <= i - 1} /\ Increasing(Read(f))
      /\ \A k \in DOMAIN f.cues : OfCue(f.cues[k])
  BY DEF ReadTo
<1>4. CASE f.open /\ track[i].kind = "blank"
  <2>1. g = [f EXCEPT !.cues = Closed(f), !.open = FALSE]
    BY <1>4 DEF ReadLine
  <2>2. Closed(f) \in Seq(Cues) /\ Flat(Closed(f)) = Read(f)
        /\ \A k \in DOMAIN Closed(f) : OfCue(Closed(f)[k])
    BY Closing
  <2>3. g \in Readings /\ ~g.open /\ g.cues = Closed(f)
    BY <1>3, <2>1, <2>2 DEF Readings
  <2> HIDE DEF g
  <2>4. Read(g) = Read(f)
    BY <2>2, <2>3, ReadTyped
  <2>5. OpenBy(i) = {} /\ i \notin Spoken
    BY <1>4, OpenStep DEF Spoken
  <2>6. ToSet(Read(g)) = {j \in Spoken : j <= i}
    BY <1>3, <2>4, <2>5, SpokenStep
  <2>7. Increasing(Read(g))
    BY <1>3, <2>4
  <2>8. \A k \in DOMAIN g.cues : OfCue(g.cues[k])
    BY <2>2, <2>3
  <2>9. ReadTo(g, i)
    BY <2>3, <2>5, <2>6, <2>7, <2>8, ShutTo
  <2> QED BY <2>9 DEF g
<1>5. CASE f.open /\ track[i].kind # "blank"
  <2> DEFINE text == Append(f.cue.text, i)
  <2>1. g = [f EXCEPT !.cue.text = text]
    BY <1>5 DEF ReadLine
  <2>2. text \in Seq(Nat)
    BY <1>1, <1>2
  <2>3. /\ g \in Readings /\ g.open /\ g.cues = f.cues
        /\ g.cue.start = f.cue.start /\ g.cue.end = f.cue.end /\ g.cue.text = text
    <3> DEFINE cue == [f.cue EXCEPT !.text = text]
    <3>1. g = [f EXCEPT !.cue = cue]
      BY <2>1
    <3> HIDE DEF text
    <3>2. /\ cue \in Cues /\ cue.text = text
          /\ cue.start = f.cue.start /\ cue.end = f.cue.end
      BY <1>1, <2>2 DEF Cues
    <3> HIDE DEF cue, g
    <3>3. g \in Readings /\ g.open = f.open /\ g.cues = f.cues /\ g.cue = cue
      BY <1>3, <3>1, <3>2 DEF Readings
    <3> QED BY <1>5, <3>2, <3>3
  <2> HIDE DEF g
  <2>4. Read(g) = Append(Read(f), i)
    <3>1. Read(g) = Flat(f.cues) \o text
      BY <2>3, ReadTyped
    <3>2. Flat(f.cues) \o Append(f.cue.text, i) = Append(Flat(f.cues) \o f.cue.text, i)
      BY ONLY <1>1, <1>2, AppendLast
    <3> QED BY <1>1, <1>5, <3>1, <3>2
  <2>5. /\ OpenBy(i - 1) # {} /\ OpenBy(i) # {} /\ Min(OpenBy(i)) = m /\ TimingLine(i) = m
        /\ Above(i) = OpenBy(i - 1)
    BY <1>3, <1>5, FirstStays, OpenStep
  <2>6. i \in Spoken
    BY <2>5 DEF Spoken
  <2>7. \A y \in ToSet(Read(f)) : y < i
    BY <1>2, <1>3 DEF Spoken
  <2>8. ToSet(Read(g)) = ToSet(Read(f)) \cup {i} /\ Increasing(Read(g))
    BY <1>1, <1>2, <1>3, <2>4, <2>7, Longer
  <2>9. ToSet(Read(g)) = {j \in Spoken : j <= i}
    BY <1>3, <2>6, <2>8, SpokenStep
  <2>10. ToSet(text) = ToSet(f.cue.text) \cup {i}
    <3>1. text = f.cue.text \o <<i>> /\ <<i>> \in Seq(Nat)
      BY <1>1, <1>2, AppendLast
    <3>2. ToSet(<<i>>) = {i}
      BY DEF ToSet
    <3>3. ToSet(f.cue.text \o <<i>>) = ToSet(f.cue.text) \cup ToSet(<<i>>)
      BY ONLY <1>1, <3>1, Members
    <3> QED BY <3>1, <3>2, <3>3
  <2>11. \A j \in ToSet(f.cue.text) : j \in Spoken /\ TimingLine(j) = m
    BY <1>5 DEF ReadTo
  <2>12. \A j \in ToSet(g.cue.text) : j \in Spoken /\ TimingLine(j) = m
    BY <2>3, <2>5, <2>6, <2>10, <2>11
  <2>13. g.cue.start = track[m].start /\ g.cue.end = track[m].end
    BY <1>5, <2>3 DEF ReadTo
  <2>14. \A k \in DOMAIN g.cues : OfCue(g.cues[k])
    BY <1>3, <2>3
  <2>15. m = Min(OpenBy(i))
    BY <2>5
  <2> HIDE DEF m
  <2>16. ReadTo(g, i)
    BY <2>3, <2>5, <2>8, <2>9, <2>12, <2>13, <2>14, <2>15, OpenTo
  <2> QED BY <2>16 DEF g
<1>6. CASE ~f.open /\ IsTiming(track[i])
  <2> DEFINE cue == [start |-> track[i].start, end |-> track[i].end, text |-> <<>>]
  <2>1. g = [f EXCEPT !.open = TRUE, !.cue = cue]
    BY <1>6 DEF ReadLine
  <2>2. track[i].start \in Int /\ track[i].end \in Int /\ track[i].kind # "blank"
    BY <1>6, LineCases
  <2>3. cue \in Cues
    BY <2>2 DEF Cues
  <2>4. g \in Readings /\ g.open /\ g.cues = f.cues /\ g.cue = cue
    <3> HIDE DEF cue
    <3> QED BY <1>3, <2>1, <2>3 DEF Readings
  <2> HIDE DEF g
  <2>5. Read(g) = Read(f)
    <3>1. Read(g) = Flat(f.cues) \o <<>>
      BY <2>4 DEF Read
    <3> QED BY <1>1, <1>6, <3>1, ConcatEmptySeq
  <2>6. OpenBy(i) = {i} /\ Above(i) = {}
    BY <1>3, <1>6, <2>2, OpenStep
  <2>7. i \notin Spoken
    BY <2>6 DEF Spoken
  <2>8. ToSet(Read(g)) = {j \in Spoken : j <= i} /\ Increasing(Read(g))
    BY <1>3, <2>5, <2>7, SpokenStep
  <2>9. Min(OpenBy(i)) = i
    <3>1. {i} \in SUBSET Nat /\ {i} # {}
      BY <1>2
    <3>2. Min({i}) \in {i}
      BY <3>1, MinMember
    <3> QED BY <2>6, <3>2
  <2>10. ToSet(g.cue.text) = {}
    BY <2>4 DEF ToSet
  <2>11. \A j \in ToSet(g.cue.text) : j \in Spoken /\ TimingLine(j) = i
    BY <2>10
  <2>12. g.cue.start = track[i].start /\ g.cue.end = track[i].end
    BY <2>4
  <2>13. \A k \in DOMAIN g.cues : OfCue(g.cues[k])
    BY <1>3, <2>4
  <2>14. OpenBy(i) # {} /\ i = Min(OpenBy(i))
    BY <2>6, <2>9
  <2>15. ReadTo(g, i)
    BY <2>4, <2>8, <2>11, <2>12, <2>13, <2>14, OpenTo
  <2> QED BY <2>15 DEF g
<1>7. CASE ~f.open /\ ~IsTiming(track[i])
  <2>1. g = f
    BY <1>7 DEF ReadLine
  <2>2. OpenBy(i) = {} /\ i \notin Spoken
    BY <1>3, <1>7, OpenStep DEF Spoken
  <2> HIDE DEF g
  <2>3. ToSet(Read(g)) = {j \in Spoken : j <= i}
    BY <1>3, <2>1, <2>2, SpokenStep
  <2>4. g \in Readings /\ ~g.open /\ \A k \in DOMAIN g.cues : OfCue(g.cues[k])
    BY <1>3, <1>7, <2>1
  <2>5. Increasing(Read(g))
    BY <1>3, <2>1
  <2>6. ReadTo(g, i)
    BY <2>2, <2>3, <2>4, <2>5, ShutTo
  <2> QED BY <2>6 DEF g
<1> HIDE DEF g
<1>8. CASE f.open
  BY <1>4, <1>5, <1>8 DEF g
<1>9. CASE ~f.open
  BY <1>6, <1>7, <1>9 DEF g
<1> QED BY <1>8, <1>9


LEMMA ReadLineTyped ==
  ASSUME NEW f \in Readings, NEW line \in Line, NEW i \in Nat
  PROVE  ReadLine(f, line, i) \in Readings
<1>1. f.open \in BOOLEAN /\ f.cues \in Seq(Cues) /\ f.cue \in Cues /\ f.cue.text \in Seq(Nat)
  BY ReadTyped
<1>2. Closed(f) \in Seq(Cues)
  BY <1>1 DEF Closed
<1>3. CASE f.open /\ line.kind = "blank"
  BY <1>2, <1>3 DEF ReadLine, Readings
<1>4. CASE f.open /\ line.kind # "blank"
  <2> DEFINE text == Append(f.cue.text, i)
             cue == [f.cue EXCEPT !.text = text]
  <2>1. ReadLine(f, line, i) = [f EXCEPT !.cue = cue]
    BY <1>4 DEF ReadLine
  <2>2. text \in Seq(Nat)
    BY <1>1
  <2> HIDE DEF text
  <2>3. cue \in Cues
    BY <1>1, <2>2 DEF Cues
  <2> HIDE DEF cue
  <2> QED BY <2>1, <2>3 DEF Readings
<1>5. CASE ~f.open /\ IsTiming(line)
  <2> DEFINE cue == [start |-> line.start, end |-> line.end, text |-> <<>>]
  <2>1. ReadLine(f, line, i) = [f EXCEPT !.open = TRUE, !.cue = cue]
    BY <1>5 DEF ReadLine
  <2>2. line.start \in Int /\ line.end \in Int
    BY <1>5 DEF IsTiming, Line
  <2>3. cue \in Cues
    BY <2>2 DEF Cues
  <2> HIDE DEF cue
  <2> QED BY <2>1, <2>3 DEF Readings
<1>6. CASE ~f.open /\ ~IsTiming(line)
  BY <1>6 DEF ReadLine
<1> QED BY <1>1, <1>3, <1>4, <1>5, <1>6

LEMMA CuesRead ==
  ASSUME track \in Seq(Line)
  PROVE  /\ ParseCues(track) \in Seq(Cues)
         /\ \A k \in DOMAIN ParseCues(track) : OfCue(ParseCues(track)[k])
         /\ ToSet(Flat(ParseCues(track))) = Spoken /\ Increasing(Flat(ParseCues(track)))
<1> DEFINE n == Len(track)
           c == CHOOSE g : g = [i \in 0..n |-> IF i = 0 THEN NothingRead
                                               ELSE ReadLine(g[i - 1], track[i], i)]
           step == [i \in 1..n |-> [f \in Readings |-> ReadLine(f, track[i], i)]]
           K == {k \in Nat : k <= n => ReadTo(c[k], k)}
<1>1. n \in Nat /\ DOMAIN track = 1..n
  OBVIOUS
<1>2. ParseCues(track) = Closed(c[n])
  BY DEF ParseCues
<1>3. c[0] = NothingRead /\ \A i \in 1..n : c[i] = ReadLine(c[i - 1], track[i], i)
  <2>1. step \in [1..n -> [Readings -> Readings]]
    <3>1. \A i \in 1..n : track[i] \in Line /\ i \in Nat
      BY <1>1, ElementOf
    <3>2. \A i \in 1..n : \A f \in Readings : ReadLine(f, track[i], i) \in Readings
      BY <3>1, ReadLineTyped
    <3> QED BY <3>2
  <2>2. PICK h \in [0..n -> Readings] :
          h[0] = NothingRead /\ \A i \in 1..n : h[i] = step[i][h[i - 1]]
    <3>1. NothingRead \in Readings
      BY ReadStarts
    <3> HIDE DEF n, step
    <3>2. Recursion(Readings, NothingRead, n, step) # {}
      BY <1>1, <2>1, <3>1, RecursionExists
    <3> QED BY <3>2 DEF Recursion
  <2> DEFINE Rec(g) == g = [i \in 0..n |-> IF i = 0 THEN NothingRead
                                           ELSE ReadLine(g[i - 1], track[i], i)]
  <2>3. Rec(h)
    <3>1. \A i \in 0..n : i # 0 => i \in 1..n /\ i - 1 \in 0..n
      BY <1>1
    <3>2. \A i \in 1..n : h[i] = ReadLine(h[i - 1], track[i], i)
      <4> TAKE i \in 1..n
      <4>1. h[i - 1] \in Readings
        <5>1. i - 1 \in 0..n
          BY <1>1
        <5> QED BY <2>2, <5>1
      <4>2. step[i][h[i - 1]] = ReadLine(h[i - 1], track[i], i)
        BY <4>1
      <4> QED BY <2>2, <4>2
    <3>3. \A i \in 0..n : h[i] = IF i = 0 THEN NothingRead
                                 ELSE ReadLine(h[i - 1], track[i], i)
      BY <2>2, <3>1, <3>2
    <3> QED BY <2>2, <3>3
  <2>4. Rec(c)
    <3>1. c = CHOOSE g : Rec(g)
      OBVIOUS
    <3> HIDE DEF Rec, c
    <3> QED BY <2>3, <3>1
  <2>5. \A i \in 0..n : c[i] = IF i = 0 THEN NothingRead ELSE ReadLine(c[i - 1], track[i], i)
    <3> HIDE DEF c
    <3> QED BY <2>4
  <2>6. 0 \in 0..n /\ \A i \in 1..n : i \in 0..n /\ i # 0
    BY <1>1
  <2> HIDE DEF c
  <2> QED BY <2>5, <2>6
<1> HIDE DEF c
<1>4. 0 \in K
  BY <1>3, ReadStarts
<1>5. ASSUME NEW k \in K PROVE k + 1 \in K
  <2> SUFFICES ASSUME k + 1 <= n PROVE ReadTo(c[k + 1], k + 1)
    OBVIOUS
  <2>1. k \in Nat /\ k + 1 \in 1..n /\ (k + 1) - 1 = k /\ ReadTo(c[k], k)
    BY <1>1
  <2>2. c[k + 1] = ReadLine(c[k], track[k + 1], k + 1)
    BY <1>3, <2>1
  <2> HIDE DEF n
  <2> QED BY <1>1, <2>1, <2>2, ReadStep
<1>6. K = Nat
  <2>1. K \in SUBSET Nat
    OBVIOUS
  <2> HIDE DEF K
  <2> QED BY <1>4, <1>5, <2>1, SetInduction
<1>7. ReadTo(c[n], n)
  BY <1>1, <1>6
<1>8. /\ ParseCues(track) \in Seq(Cues) /\ Flat(ParseCues(track)) = Read(c[n])
      /\ \A k \in DOMAIN ParseCues(track) : OfCue(ParseCues(track)[k])
  BY <1>2, <1>7, Closing
<1>9. {j \in Spoken : j <= n} = Spoken
  BY <1>1 DEF Spoken
<1>10. ToSet(Read(c[n])) = {j \in Spoken : j <= n} /\ Increasing(Read(c[n]))
  BY <1>7 DEF ReadTo
<1> HIDE DEF n
<1>11. ToSet(Flat(ParseCues(track))) = Spoken /\ Increasing(Flat(ParseCues(track)))
  BY <1>8, <1>9, <1>10
<1> QED BY <1>8, <1>11

-----------------------------------------------------------------------------
(* Gathering the cues into chunks. *)

Chunks == [index : Nat, start : Int, end : Int, text : Seq(Nat)]
Windows == [out : Seq(Chunks), text : Seq(Nat), start : Int, end : Int]

(* The first cues of a track, as the lines they hold. *)
Said(cues, k) == FlattenSeq([j \in 1..k |-> cues[j].text])

Seeks(r) ==
  /\ r.text # <<>> /\ r.start = Timing(Head(r.text)).start
  /\ r.end = Timing(Last(r.text)).end

(* A line that reaches the length asked for is under the last timing. *)
EndsInTime(chunk, span) ==
  \A i \in ToSet(chunk.text) :
    Timing(i).end - chunk.start >= span => TimingLine(i) = TimingLine(Last(chunk.text))

Whole(chunk, c, span) == chunk.index = c - 1 /\ Seeks(chunk) /\ EndsInTime(chunk, span)

(* What has been gathered of the first cues. *)
GatheredTo(f, cues, k, span) ==
  /\ f \in Windows
  /\ \A c \in DOMAIN f.out : Whole(f.out[c], c, span) /\ f.out[c].end - f.out[c].start >= span
  /\ f.text # <<>> => Seeks(f) /\ \A i \in ToSet(f.text) : ~(Timing(i).end - f.start >= span)
  /\ Flat(f.out) \o f.text = Said(cues, k)

LEMMA ChunksHaveText == \A r \in Chunks : r.text \in Seq(Nat)
BY DEF Chunks

LEMMA WindowTyped ==
  ASSUME NEW f \in Windows
  PROVE  /\ f.out \in Seq(Chunks) /\ f.text \in Seq(Nat) /\ f.start \in Int /\ f.end \in Int
         /\ Len(f.out) \in Nat /\ Flat(f.out) \in Seq(Nat)
<1>1. f.out \in Seq(Chunks) /\ f.text \in Seq(Nat) /\ f.start \in Int /\ f.end \in Int
  BY DEF Windows
<1>2. Len(f.out) \in Nat
  BY <1>1
<1>3. Flat(f.out) \in Seq(Nat)
  BY <1>1, ChunksHaveText, FlatTyped
<1> QED BY <1>1, <1>2, <1>3

(* A window that is whole becomes the next chunk. *)
LEMMA FlushWhole ==
  ASSUME NEW f \in Windows, NEW span, f.text # <<>>, Seeks(f), EndsInTime(f, span)
  PROVE  LET g == Flush(f)
             n == Len(f.out)
         IN /\ g \in Windows /\ g.text = <<>> /\ Len(g.out) = n + 1
            /\ \A c \in 1..n : g.out[c] = f.out[c]
            /\ Whole(g.out[n + 1], n + 1, span)
            /\ g.out[n + 1].end = f.end /\ g.out[n + 1].start = f.start
            /\ Flat(g.out) = Flat(f.out) \o f.text
<1> DEFINE n == Len(f.out)
           chunk == [index |-> n, start |-> f.start, end |-> f.end, text |-> f.text]
           out == Append(f.out, chunk)
           g == Flush(f)
<1>1. /\ f.out \in Seq(Chunks) /\ f.text \in Seq(Nat) /\ f.start \in Int /\ f.end \in Int
      /\ n \in Nat /\ Flat(f.out) \in Seq(Nat)
  BY WindowTyped
<1>2. /\ chunk \in Chunks /\ chunk.index = n /\ chunk.start = f.start
      /\ chunk.end = f.end /\ chunk.text = f.text
  BY <1>1 DEF Chunks
<1>3. g = [f EXCEPT !.text = <<>>, !.out = out]
  BY DEF Flush
<1>4. Whole(chunk, n + 1, span)
  <2>1. chunk.index = (n + 1) - 1
    BY <1>1, <1>2
  <2> HIDE DEF chunk, n
  <2> QED BY <1>2, <2>1 DEF Whole, Seeks, EndsInTime
<1>5. Flat(out) = Flat(f.out) \o f.text
  <2> HIDE DEF chunk
  <2> QED BY <1>1, <1>2, ChunksHaveText, FlatGrows
<1>6. /\ out \in Seq(Chunks) /\ Len(out) = n + 1 /\ out[n + 1] = chunk
      /\ \A c \in 1..n : out[c] = f.out[c]
  <2> HIDE DEF chunk
  <2> QED BY <1>1, <1>2
<1> HIDE DEF chunk, out, g
<1>7. g \in Windows /\ g.text = <<>> /\ g.out = out
  <2>1. g = [out |-> out, text |-> <<>>, start |-> f.start, end |-> f.end]
    BY <1>3 DEF Windows
  <2>2. <<>> \in Seq(Nat)
    OBVIOUS
  <2> QED BY <1>1, <1>6, <2>1, <2>2 DEF Windows
<1> HIDE DEF n
<1>8. /\ Len(g.out) = n + 1 /\ \A c \in 1..n : g.out[c] = f.out[c]
      /\ Whole(g.out[n + 1], n + 1, span)
      /\ g.out[n + 1].end = f.end /\ g.out[n + 1].start = f.start
      /\ Flat(g.out) = Flat(f.out) \o f.text
  BY <1>2, <1>4, <1>5, <1>6, <1>7
<1> QED BY <1>7, <1>8 DEF g, n

LEMMA TextsJoin == \A x, y, z \in Seq(Nat) : (x \o y) \o z = x \o (y \o z)
BY Reassociate

LEMMA GatherStep ==
  ASSUME NEW cues \in Seq(Cues), NEW k \in Nat, k + 1 \in 1..Len(cues), NEW span,
         OfCue(cues[k + 1]), NEW f, GatheredTo(f, cues, k, span)
  PROVE  GatheredTo(Gather(f, cues[k + 1], span), cues, k + 1, span)
<1> DEFINE cue == cues[k + 1]
           text == f.text \o cue.text
           start == IF f.text = <<>> THEN cue.start ELSE f.start
           w == [f EXCEPT !.start = start, !.end = cue.end, !.text = text]
           g == Gather(f, cue, span)
           n == Len(f.out)
<1>1. /\ f \in Windows /\ f.out \in Seq(Chunks) /\ f.text \in Seq(Nat) /\ f.start \in Int
      /\ f.end \in Int /\ n \in Nat /\ Flat(f.out) \in Seq(Nat)
  BY WindowTyped DEF GatheredTo
<1>2. cue \in Cues /\ cue.text \in Seq(Nat) /\ cue.start \in Int /\ cue.end \in Int
  <2>1. cue \in Cues
    BY ElementOf
  <2> HIDE DEF cue
  <2> QED BY <2>1 DEF Cues
<1>3. /\ cue.text # <<>>
      /\ \A i \in ToSet(cue.text) :
           /\ Timing(i).start = cue.start /\ Timing(i).end = cue.end
           /\ \A l \in ToSet(cue.text) : TimingLine(l) = TimingLine(i)
  BY DEF OfCue
<1>4. Said(cues, k + 1) = Said(cues, k) \o cue.text
  <2> DEFINE F == [j \in 1..k + 1 |-> cues[j].text]
  <2>1. \A j \in 1..k + 1 : F[j] \in Seq(Nat)
    <3>1. \A j \in 1..k + 1 : j \in 1..Len(cues)
      OBVIOUS
    <3>2. \A j \in 1..k + 1 : cues[j] \in Cues
      BY <3>1, ElementOf
    <3> QED BY <3>2 DEF Cues
  <2>2. [j \in 1..k + 1 |-> F[j]] = F /\ [j \in 1..k |-> F[j]] = [j \in 1..k |-> cues[j].text]
    OBVIOUS
  <2>3. F[k + 1] = cue.text
    OBVIOUS
  <2> HIDE DEF F, cue
  <2>4. FlattenSeq([j \in 1..k + 1 |-> F[j]]) = FlattenSeq([j \in 1..k |-> F[j]]) \o F[k + 1]
    BY <2>1, FlattenGrows
  <2> QED BY <2>2, <2>3, <2>4 DEF Said, F
<1>5. g = IF w.end - w.start >= span THEN Flush(w) ELSE w
  BY DEF Gather
<1> HIDE DEF cue
<1>6. text \in Seq(Nat) /\ ToSet(text) = ToSet(f.text) \cup ToSet(cue.text)
  BY <1>1, <1>2, Members
<1>7. /\ text # <<>> /\ Last(cue.text) \in ToSet(cue.text) /\ Last(text) = Last(cue.text)
      /\ f.text # <<>> => Head(text) = Head(f.text)
      /\ f.text = <<>> => Head(text) = Head(cue.text) /\ Head(cue.text) \in ToSet(cue.text)
  BY <1>1, <1>2, <1>3, Ends
<1>8. Flat(f.out) \o text = Said(cues, k + 1)
  <2>1. Flat(f.out) \o f.text = Said(cues, k)
    BY DEF GatheredTo
  <2>2. (Flat(f.out) \o f.text) \o cue.text = Flat(f.out) \o (f.text \o cue.text)
    <3>1. Flat(f.out) \in Seq(Nat) /\ f.text \in Seq(Nat) /\ cue.text \in Seq(Nat)
      BY <1>1, <1>2
    <3> QED BY ONLY <3>1, TextsJoin, Zenon
  <2> QED BY <1>4, <2>1, <2>2
<1>9. start \in Int
  BY <1>1, <1>2
<1>10. start = Timing(Head(text)).start /\ cue.end = Timing(Last(text)).end
  <2>1. CASE f.text = <<>>
    BY <1>3, <1>7, <2>1
  <2>2. CASE f.text # <<>>
    <3>1. f.start = Timing(Head(f.text)).start
      BY <2>2 DEF GatheredTo, Seeks
    <3> QED BY <1>3, <1>7, <2>2, <3>1
  <2> QED BY <2>1, <2>2
<1>11. \A i \in ToSet(f.text) : ~(Timing(i).end - start >= span)
  <2>1. CASE f.text = <<>>
    <3>1. ToSet(f.text) = {}
      BY <2>1 DEF ToSet
    <3> QED BY <3>1
  <2>2. CASE f.text # <<>>
    BY <2>2 DEF GatheredTo
  <2> QED BY <2>1, <2>2
<1>12. \A c \in 1..n : Whole(f.out[c], c, span) /\ f.out[c].end - f.out[c].start >= span
  BY <1>1 DEF GatheredTo
<1> HIDE DEF text, start
<1>13. /\ w \in Windows /\ w.out = f.out /\ w.text = text /\ w.start = start
       /\ w.end = cue.end
  BY <1>1, <1>2, <1>6, <1>9 DEF Windows
<1> HIDE DEF w, g
<1>14. Seeks(w)
  BY <1>7, <1>10, <1>13 DEF Seeks
<1>15. CASE cue.end - start >= span
  <2>1. g = Flush(w)
    BY <1>5, <1>13, <1>15
  <2>2. EndsInTime(w, span)
    BY <1>3, <1>6, <1>7, <1>11, <1>13 DEF EndsInTime
  <2>3. /\ g \in Windows /\ g.text = <<>> /\ Len(g.out) = n + 1
        /\ \A c \in 1..n : g.out[c] = f.out[c]
        /\ Whole(g.out[n + 1], n + 1, span)
        /\ g.out[n + 1].end = cue.end /\ g.out[n + 1].start = start
        /\ Flat(g.out) = Flat(f.out) \o text
    BY <1>7, <1>13, <1>14, <2>1, <2>2, FlushWhole
  <2>4. ASSUME NEW c \in DOMAIN g.out
        PROVE  Whole(g.out[c], c, span) /\ g.out[c].end - g.out[c].start >= span
    <3>1. g.out \in Seq(Chunks)
      BY <2>3, WindowTyped
    <3>2. c \in 1..n + 1
      BY <2>3, <3>1
    <3>3. c \in 1..n \/ c = n + 1
      BY <1>1, <3>2
    <3> QED BY <1>12, <1>15, <2>3, <3>3
  <2>5. Flat(g.out) \o g.text = Said(cues, k + 1)
    <3>1. Flat(g.out) \in Seq(Nat)
      BY <2>3, WindowTyped
    <3>2. Flat(g.out) \o g.text = Flat(g.out)
      BY <2>3, <3>1, ConcatEmptySeq
    <3> QED BY <1>8, <2>3, <3>2
  <2>6. GatheredTo(g, cues, k + 1, span)
    BY <2>3, <2>4, <2>5 DEF GatheredTo
  <2> QED BY <2>6 DEF g, cue
<1>16. CASE ~(cue.end - start >= span)
  <2>1. g = w
    BY <1>5, <1>13, <1>16
  <2>2. \A i \in ToSet(w.text) : ~(Timing(i).end - w.start >= span)
    BY <1>3, <1>6, <1>11, <1>13, <1>16
  <2>3. \A c \in DOMAIN w.out : Whole(w.out[c], c, span) /\ w.out[c].end - w.out[c].start >= span
    BY <1>13 DEF GatheredTo
  <2>4. GatheredTo(w, cues, k + 1, span)
    BY <1>8, <1>13, <1>14, <2>2, <2>3 DEF GatheredTo
  <2> QED BY <2>1, <2>4 DEF g, cue
<1> QED BY <1>15, <1>16

LEMMA FlushTyped ==
  ASSUME NEW f \in Windows
  PROVE  Flush(f) \in Windows
<1> DEFINE chunk == [index |-> Len(f.out), start |-> f.start, end |-> f.end, text |-> f.text]
           out == Append(f.out, chunk)
<1>1. /\ f.out \in Seq(Chunks) /\ f.text \in Seq(Nat) /\ f.start \in Int /\ f.end \in Int
      /\ Len(f.out) \in Nat
  BY WindowTyped
<1>2. chunk \in Chunks
  BY <1>1 DEF Chunks
<1>3. out \in Seq(Chunks)
  <2> HIDE DEF chunk
  <2> QED BY <1>1, <1>2
<1>4. Flush(f) = f \/ Flush(f) = [f EXCEPT !.text = <<>>, !.out = out]
  BY DEF Flush
<1>5. <<>> \in Seq(Nat)
  OBVIOUS
<1> HIDE DEF out
<1> QED BY <1>1, <1>3, <1>4, <1>5 DEF Windows

LEMMA GatherTyped ==
  ASSUME NEW f \in Windows, NEW cue \in Cues, NEW span
  PROVE  Gather(f, cue, span) \in Windows
<1> DEFINE text == f.text \o cue.text
           start == IF f.text = <<>> THEN cue.start ELSE f.start
           w == [f EXCEPT !.start = start, !.end = cue.end, !.text = text]
<1>1. f.text \in Seq(Nat) /\ f.start \in Int
  BY WindowTyped
<1>2. cue.text \in Seq(Nat) /\ cue.start \in Int /\ cue.end \in Int
  BY DEF Cues
<1>3. text \in Seq(Nat) /\ start \in Int
  BY <1>1, <1>2, Members
<1>4. Gather(f, cue, span) = w \/ Gather(f, cue, span) = Flush(w)
  BY DEF Gather
<1> HIDE DEF text, start
<1>5. w \in Windows
  BY <1>2, <1>3 DEF Windows
<1> HIDE DEF w
<1> QED BY <1>4, <1>5, FlushTyped

LEMMA GatherStarts ==
  ASSUME NEW cues, NEW span
  PROVE  NothingGathered \in Windows /\ GatheredTo(NothingGathered, cues, 0, span)
<1>1. NothingGathered \in Windows
  BY DEF NothingGathered, Windows
<1>2. Said(cues, 0) = <<>>
  <2>1. [j \in 1..0 |-> cues[j].text] = <<>>
    OBVIOUS
  <2> QED BY <2>1 DEF Said, FlattenSeq
<1>3. Flat(<<>>) \o <<>> = <<>>
  BY FlatNone
<1>4. NothingGathered.out = <<>> /\ NothingGathered.text = <<>>
  BY DEF NothingGathered
<1> HIDE DEF GatheredTo
<1>5. \A c \in DOMAIN NothingGathered.out :
        /\ Whole(NothingGathered.out[c], c, span)
        /\ NothingGathered.out[c].end - NothingGathered.out[c].start >= span
  BY <1>4
<1> QED BY <1>1, <1>2, <1>3, <1>4, <1>5 DEF GatheredTo

(* What the index is: whole chunks of the spoken lines, all but the last long. *)
Indexed(out, cues, span) ==
  /\ out \in Seq(Chunks) /\ Flat(out) = Said(cues, Len(cues))
  /\ \A c \in DOMAIN out : /\ Whole(out[c], c, span)
                           /\ c < Len(out) => out[c].end - out[c].start >= span

LEMMA LastIndexed ==
  ASSUME NEW cues, NEW span, NEW f, GatheredTo(f, cues, Len(cues), span)
  PROVE  Indexed(LastFlush(f), cues, span)
<1> DEFINE n == Len(f.out)
           g == Flush(f)
<1>1. /\ f \in Windows /\ f.out \in Seq(Chunks) /\ f.text \in Seq(Nat) /\ f.start \in Int
      /\ f.end \in Int /\ n \in Nat /\ Flat(f.out) \in Seq(Nat)
  BY WindowTyped DEF GatheredTo
<1>2. /\ Flat(f.out) \o f.text = Said(cues, Len(cues))
      /\ \A c \in DOMAIN f.out : Whole(f.out[c], c, span) /\ f.out[c].end - f.out[c].start >= span
  BY DEF GatheredTo
<1>3. LastFlush(f) = g.out
  BY DEF LastFlush
<1>4. CASE f.text = <<>>
  <2>1. g = f
    BY <1>4 DEF Flush
  <2>2. Flat(f.out) = Said(cues, Len(cues))
    BY <1>1, <1>2, <1>4, ConcatEmptySeq
  <2> QED BY <1>1, <1>2, <1>3, <2>1, <2>2 DEF Indexed
<1>5. CASE f.text # <<>>
  <2>1. Seeks(f) /\ \A i \in ToSet(f.text) : ~(Timing(i).end - f.start >= span)
    BY <1>5 DEF GatheredTo
  <2>2. EndsInTime(f, span)
    BY <2>1 DEF EndsInTime
  <2>3. /\ g \in Windows /\ Len(g.out) = n + 1
        /\ \A c \in 1..n : g.out[c] = f.out[c]
        /\ Whole(g.out[n + 1], n + 1, span)
        /\ Flat(g.out) = Flat(f.out) \o f.text
    BY <1>1, <1>5, <2>1, <2>2, FlushWhole
  <2>4. g.out \in Seq(Chunks)
    BY <2>3, WindowTyped
  <2>5. ASSUME NEW c \in DOMAIN g.out
        PROVE  Whole(g.out[c], c, span) /\ (c < n + 1 => g.out[c].end - g.out[c].start >= span)
    <3>1. c \in 1..n + 1 /\ DOMAIN f.out = 1..n
      BY <1>1, <2>3, <2>4
    <3>2. c \in 1..n \/ c = n + 1
      BY <1>1, <3>1
    <3>3. CASE c \in 1..n
      <4>1. Whole(f.out[c], c, span) /\ f.out[c].end - f.out[c].start >= span
        BY <1>2, <3>1, <3>3
      <4>2. g.out[c] = f.out[c]
        BY <2>3, <3>3
      <4> HIDE DEF g, n
      <4> QED BY <4>1, <4>2
    <3>4. CASE c = n + 1
      <4>1. ~(c < n + 1)
        BY <1>1, <3>4
      <4> HIDE DEF g, n
      <4> QED BY <2>3, <3>4, <4>1
    <3> QED BY <3>2, <3>3, <3>4
  <2> QED BY <1>2, <1>3, <2>3, <2>4, <2>5 DEF Indexed
<1> QED BY <1>4, <1>5

LEMMA ChunksIndexed ==
  ASSUME NEW cues \in Seq(Cues), \A k \in DOMAIN cues : OfCue(cues[k]), NEW span, NEW c,
         c = CHOOSE g : g = [k \in 0..Len(cues) |-> IF k = 0 THEN NothingGathered
                                                   ELSE Gather(g[k - 1], cues[k], span)]
  PROVE  Indexed(LastFlush(c[Len(cues)]), cues, span)
<1> DEFINE n == Len(cues)
           step == [k \in 1..n |-> [f \in Windows |-> Gather(f, cues[k], span)]]
           K == {k \in Nat : k <= n => GatheredTo(c[k], cues, k, span)}
<1>1. n \in Nat /\ DOMAIN cues = 1..n
  OBVIOUS
<1>2. c[0] = NothingGathered /\ \A k \in 1..n : c[k] = Gather(c[k - 1], cues[k], span)
  <2>1. step \in [1..n -> [Windows -> Windows]]
    <3>1. \A k \in 1..n : cues[k] \in Cues
      BY <1>1, ElementOf
    <3>2. \A k \in 1..n : \A f \in Windows : Gather(f, cues[k], span) \in Windows
      BY <3>1, GatherTyped
    <3> QED BY <3>2
  <2>2. PICK h \in [0..n -> Windows] :
          h[0] = NothingGathered /\ \A k \in 1..n : h[k] = step[k][h[k - 1]]
    <3>1. NothingGathered \in Windows
      BY GatherStarts
    <3> HIDE DEF n, step
    <3>2. Recursion(Windows, NothingGathered, n, step) # {}
      BY <1>1, <2>1, <3>1, RecursionExists
    <3> QED BY <3>2 DEF Recursion
  <2> DEFINE Rec(g) == g = [k \in 0..n |-> IF k = 0 THEN NothingGathered
                                           ELSE Gather(g[k - 1], cues[k], span)]
  <2>3. Rec(h)
    <3>1. \A k \in 0..n : k # 0 => k \in 1..n /\ k - 1 \in 0..n
      BY <1>1
    <3>2. \A k \in 1..n : h[k] = Gather(h[k - 1], cues[k], span)
      <4> TAKE k \in 1..n
      <4>1. h[k - 1] \in Windows
        <5>1. k - 1 \in 0..n
          BY <1>1
        <5> QED BY <2>2, <5>1
      <4>2. step[k][h[k - 1]] = Gather(h[k - 1], cues[k], span)
        BY <4>1
      <4> QED BY <2>2, <4>2
    <3>3. \A k \in 0..n : h[k] = IF k = 0 THEN NothingGathered
                                 ELSE Gather(h[k - 1], cues[k], span)
      BY <2>2, <3>1, <3>2
    <3> QED BY <2>2, <3>3
  <2>4. Rec(c)
    <3>1. c = CHOOSE g : Rec(g)
      OBVIOUS
    <3> HIDE DEF Rec
    <3> QED BY <2>3, <3>1
  <2>5. \A k \in 0..n : c[k] = IF k = 0 THEN NothingGathered
                               ELSE Gather(c[k - 1], cues[k], span)
    BY <2>4
  <2>6. 0 \in 0..n /\ \A k \in 1..n : k \in 0..n /\ k # 0
    BY <1>1
  <2> QED BY <2>5, <2>6
<1>3. 0 \in K
  BY <1>2, GatherStarts
<1>4. ASSUME NEW k \in K PROVE k + 1 \in K
  <2> SUFFICES ASSUME k + 1 <= n PROVE GatheredTo(c[k + 1], cues, k + 1, span)
    OBVIOUS
  <2>1. k \in Nat /\ k + 1 \in 1..n /\ (k + 1) - 1 = k /\ GatheredTo(c[k], cues, k, span)
    BY <1>1
  <2>2. c[k + 1] = Gather(c[k], cues[k + 1], span)
    BY <1>2, <2>1
  <2>3. OfCue(cues[k + 1])
    BY <1>1, <2>1
  <2> QED BY <2>1, <2>2, <2>3, GatherStep
<1>5. K = Nat
  <2>1. K \in SUBSET Nat
    OBVIOUS
  <2> HIDE DEF K
  <2> QED BY <1>3, <1>4, <2>1, SetInduction
<1>6. GatheredTo(c[n], cues, n, span)
  BY <1>1, <1>5
<1> QED BY <1>6, LastIndexed

(* Every spoken line is in the index. *)
LEMMA IndexCovers ==
  ASSUME track \in Seq(Line), chunks = ParseAndChunk(track, chunkSeconds)
  PROVE  ChunksCoverSpeech
<1> DEFINE cues == ParseCues(track)
           span == Span(chunkSeconds)
           c == CHOOSE g : g = [k \in 0..Len(cues) |-> IF k = 0 THEN NothingGathered
                                                       ELSE Gather(g[k - 1], cues[k], span)]
<1>1. /\ cues \in Seq(Cues) /\ \A k \in DOMAIN cues : OfCue(cues[k])
      /\ ToSet(Flat(cues)) = Spoken /\ Increasing(Flat(cues))
  BY CuesRead
<1>2. chunks = LastFlush(c[Len(cues)])
  BY DEF ParseAndChunk
<1> HIDE DEF cues, span
<1>3. Indexed(LastFlush(c[Len(cues)]), cues, span)
  BY <1>1, ChunksIndexed
<1> HIDE DEF c
<1>4. Indexed(chunks, cues, span)
  BY <1>2, <1>3
<1>5. Said(cues, Len(cues)) = Flat(cues)
  BY DEF Said, Flat, Texts
<1>6. chunks \in Seq(Chunks) /\ Flat(chunks) = Flat(cues)
  BY <1>4, <1>5 DEF Indexed
<1>7. FlattenSeq([k \in DOMAIN chunks |-> chunks[k].text]) = Flat(cues)
  <2>1. DOMAIN chunks = 1..Len(chunks)
    BY <1>6
  <2> QED BY <1>6, <2>1 DEF Flat, Texts
<1>8. ASSUME NEW k \in DOMAIN chunks
      PROVE  /\ chunks[k].index = k - 1 /\ chunks[k].text # <<>>
             /\ chunks[k].start = Timing(Head(chunks[k].text)).start
             /\ chunks[k].end = Timing(Last(chunks[k].text)).end
             /\ k < Len(chunks) => chunks[k].end - chunks[k].start >= span
             /\ \A i \in ToSet(chunks[k].text) :
                  Timing(i).end - chunks[k].start >= span
                    => TimingLine(i) = TimingLine(Last(chunks[k].text))
  BY <1>4 DEF Indexed, Whole, Seeks, EndsInTime
<1> QED BY <1>1, <1>7, <1>8 DEF ChunksCoverSpeech, span

-----------------------------------------------------------------------------
(* The chapters in turn. *)

Before(raw, some, i) == {j \in some : Sooner(raw, j, i)}

LEMMA SoonerOrders ==
  ASSUME NEW raw \in Seq(Proposal), NEW i \in DOMAIN raw, NEW j \in DOMAIN raw
  PROVE  /\ ~Sooner(raw, i, i) /\ raw[i] \in Proposal /\ raw[i].start \in Int
         /\ i # j => Sooner(raw, i, j) \/ Sooner(raw, j, i)
         /\ Sooner(raw, i, j) => ~Sooner(raw, j, i) /\ raw[i].start <= raw[j].start
         /\ \A k \in DOMAIN raw :
              Sooner(raw, k, i) /\ Sooner(raw, i, j) => Sooner(raw, k, j)
<1>1. \A k \in DOMAIN raw : raw[k] \in Proposal /\ raw[k].start \in Int /\ k \in Nat
  <2> TAKE k \in DOMAIN raw
  <2>1. raw[k] \in Proposal /\ k \in Nat
    BY ElementOf
  <2> QED BY <2>1 DEF Proposal
<1>2. i \in DOMAIN raw /\ j \in DOMAIN raw
  OBVIOUS
<1> QED BY ONLY <1>1, <1>2 DEF Sooner

LEMMA BeforeGrows ==
  ASSUME NEW raw \in Seq(Proposal), NEW some \in SUBSET DOMAIN raw, IsFiniteSet(some),
         NEW i \in some
  PROVE  /\ Cardinality(Before(raw, some, i)) \in 0..(Cardinality(some) - 1)
         /\ \A j \in some : Sooner(raw, i, j) =>
              Cardinality(Before(raw, some, i)) < Cardinality(Before(raw, some, j))
<1> DEFINE B == Before(raw, some, i)
<1>0. \A k \in some : k \in DOMAIN raw
  OBVIOUS
<1>1. IsFiniteSet(B) /\ Cardinality(B) \in Nat
  BY FS_Subset, FS_CardinalityType DEF Before
<1>2. IsFiniteSet(B \cup {i}) /\ Cardinality(B \cup {i}) = Cardinality(B) + 1
  <2>1. i \notin B
    BY <1>0, SoonerOrders DEF Before
  <2> QED BY <1>1, <2>1, FS_AddElement
<1>3. B \cup {i} \subseteq some
  BY DEF Before
<1> HIDE DEF B
<1>4. ASSUME NEW T \in SUBSET some, B \cup {i} \subseteq T
      PROVE  Cardinality(B) < Cardinality(T) /\ Cardinality(T) \in Nat
  <2>1. IsFiniteSet(T)
    BY FS_Subset
  <2>2. Cardinality(B \cup {i}) <= Cardinality(T)
    BY <1>4, <2>1, FS_Subset
  <2> QED BY <1>1, <1>2, <2>1, <2>2, FS_CardinalityType
<1>5. Cardinality(B) < Cardinality(some) /\ Cardinality(some) \in Nat
  BY <1>3, <1>4
<1>6. ASSUME NEW j \in some, Sooner(raw, i, j)
      PROVE  Cardinality(B) < Cardinality(Before(raw, some, j))
  <2>1. ASSUME NEW k \in some, Sooner(raw, k, i) PROVE Sooner(raw, k, j)
    BY <1>0, <1>6, <2>1, SoonerOrders
  <2>2. Before(raw, some, j) \in SUBSET some /\ B \cup {i} \subseteq Before(raw, some, j)
    BY <1>6, <2>1 DEF Before, B
  <2> QED BY <1>4, <2>2
<1> QED BY <1>1, <1>5, <1>6 DEF B

LEMMA NthBegins ==
  ASSUME NEW raw \in Seq(Proposal), NEW some \in SUBSET DOMAIN raw, IsFiniteSet(some),
         NEW k \in 1..Cardinality(some)
  PROVE  \E i \in some : Cardinality(Before(raw, some, i)) = k - 1
<1> DEFINE T == 0..(Cardinality(some) - 1)
           f == [i \in some |-> Cardinality(Before(raw, some, i))]
<1>1. Cardinality(some) \in Nat
  BY FS_CardinalityType
<1>2. IsFiniteSet(T) /\ Cardinality(T) = Cardinality(some)
  <2>1. 0 \in Int /\ Cardinality(some) - 1 \in Int /\ 0 <= Cardinality(some) - 1
    BY <1>1
  <2> QED BY <1>1, <2>1, FS_Interval
<1>3. f \in [some -> T]
  BY BeforeGrows
<1>4. ASSUME NEW i \in some, NEW j \in some, f[i] = f[j] PROVE i = j
  <2>1. f[i] \in Nat /\ f[j] \in Nat
    BY <1>1, <1>3
  <2>2. Sooner(raw, i, j) => f[i] < f[j]
    BY BeforeGrows
  <2>3. Sooner(raw, j, i) => f[j] < f[i]
    BY BeforeGrows
  <2>4. i # j => Sooner(raw, i, j) \/ Sooner(raw, j, i)
    <3>1. i \in DOMAIN raw /\ j \in DOMAIN raw
      OBVIOUS
    <3> QED BY <3>1, SoonerOrders
  <2> HIDE DEF f
  <2> QED BY <1>4, <2>1, <2>2, <2>3, <2>4
<1>5. f \in Injection(some, T)
  <2> HIDE DEF f, T
  <2> QED BY <1>3, <1>4 DEF Injection, IsInjective
<1>6. f \in Surjection(some, T)
  <2> HIDE DEF f, T
  <2> QED BY <1>2, <1>5, FS_Injection
<1>7. \A t \in T : \E i \in some : f[i] = t
  <2> HIDE DEF f, T
  <2> QED BY <1>6 DEF Surjection
<1>8. k - 1 \in T
  BY <1>1
<1> QED BY <1>7, <1>8

LEMMA InTurnSorts ==
  ASSUME NEW raw \in Seq(Proposal), NEW some \in SUBSET DOMAIN raw, IsFiniteSet(some)
  PROVE  LET n == Cardinality(some)
             t == InTurn(raw, some)
         IN /\ n \in Nat /\ \A k \in 1..n : t[k] \in some
            /\ \A k \in 1..n, l \in 1..n : k < l => raw[t[k]].start <= raw[t[l]].start
<1> DEFINE n == Cardinality(some)
           t == InTurn(raw, some)
<1>1. n \in Nat
  BY FS_CardinalityType
<1>2. \A k \in 1..n : t[k] = CHOOSE i \in some : Cardinality(Before(raw, some, i)) = k - 1
  BY DEF InTurn, Before
<1>3. \A k \in 1..n : t[k] \in some /\ Cardinality(Before(raw, some, t[k])) = k - 1
  <2> TAKE k \in 1..n
  <2>1. \E i \in some : Cardinality(Before(raw, some, i)) = k - 1
    BY NthBegins
  <2> HIDE DEF t
  <2> QED BY <1>2, <2>1
<1> HIDE DEF t, n
<1>4. ASSUME NEW k \in 1..n, NEW l \in 1..n, k < l
      PROVE  raw[t[k]].start <= raw[t[l]].start
  <2> DEFINE low(i) == Cardinality(Before(raw, some, i))
  <2>1. /\ t[k] \in some /\ t[l] \in some /\ low(t[k]) = k - 1 /\ low(t[l]) = l - 1
        /\ t[k] \in DOMAIN raw /\ t[l] \in DOMAIN raw
    BY <1>3
  <2>2. Sooner(raw, t[l], t[k]) => low(t[l]) < low(t[k])
    BY <2>1, BeforeGrows
  <2>3. k - 1 # l - 1 /\ ~(l - 1 < k - 1)
    BY <1>1, <1>4
  <2>4. t[k] # t[l] /\ ~Sooner(raw, t[l], t[k])
    BY <2>1, <2>2, <2>3
  <2>5. Sooner(raw, t[k], t[l])
    BY <2>1, <2>4, SoonerOrders
  <2> QED BY <2>1, <2>5, SoonerOrders
<1> QED BY <1>1, <1>3, <1>4 DEF t, n

LEMMA ChaptersInTurn ==
  ASSUME NEW raw \in Seq(Proposal), NEW seconds \in Nat
  PROVE  LET cs == Chapters(raw, seconds)
         IN /\ cs \in Seq(Proposal)
            /\ \A i \in DOMAIN cs : /\ cs[i].title # "" /\ cs[i].start >= 0
                                    /\ seconds > 0 => cs[i].start <= seconds
            /\ \A i, j \in DOMAIN cs : i < j => cs[i].start <= cs[j].start
<1> DEFINE good == {i \in DOMAIN raw : /\ raw[i].title # "" /\ raw[i].start >= 0
                                       /\ seconds > 0 => raw[i].start <= seconds}
           n == Cardinality(good)
           t == InTurn(raw, good)
           cs == [k \in 1..n |-> raw[t[k]]]
<1>1. good \in SUBSET DOMAIN raw /\ IsFiniteSet(good)
  <2>1. DOMAIN raw = 1..Len(raw) /\ Len(raw) \in Nat
    OBVIOUS
  <2>2. IsFiniteSet(1..Len(raw))
    BY <2>1, FS_Interval
  <2> QED BY <2>1, <2>2, FS_Subset
<1>2. \A i \in good : /\ raw[i] \in Proposal /\ raw[i].title # "" /\ raw[i].start >= 0
                      /\ seconds > 0 => raw[i].start <= seconds
  <2>1. \A i \in DOMAIN raw : raw[i] \in Proposal
    BY ElementOf
  <2> QED BY <2>1
<1>3. Chapters(raw, seconds) = cs
  BY DEF Chapters
<1> HIDE DEF good
<1>4. /\ n \in Nat /\ \A k \in 1..n : t[k] \in good
      /\ \A k \in 1..n, l \in 1..n : k < l => raw[t[k]].start <= raw[t[l]].start
  BY <1>1, InTurnSorts
<1> HIDE DEF n, t
<1>5. cs \in [1..n -> Proposal]
  BY <1>2, <1>4
<1>6. cs \in Seq(Proposal) /\ DOMAIN cs = 1..n
  BY <1>4, <1>5, SeqOfFunction
<1>7. \A i \in 1..n : /\ cs[i].title # "" /\ cs[i].start >= 0
                      /\ seconds > 0 => cs[i].start <= seconds
  BY <1>2, <1>4
<1>8. \A i \in 1..n, j \in 1..n : i < j => cs[i].start <= cs[j].start
  BY <1>4
<1> HIDE DEF cs
<1> QED BY <1>3, <1>6, <1>7, <1>8

LEMMA TrackFollows ==
  ASSUME proposed \in Seq(Proposal), duration \in Nat,
         chapters = ChaptersVTT(Chapters(proposed, duration), duration)
  PROVE  ChaptersFollow
<1> DEFINE cs == Chapters(proposed, duration)
           n == Len(cs)
           To(i) == LET end == IF i < n THEN cs[i + 1].start ELSE duration
                    IN IF end <= cs[i].start THEN cs[i].start + 1 ELSE end
<1>1. /\ cs \in Seq(Proposal)
      /\ \A i \in DOMAIN cs : /\ cs[i].title # "" /\ cs[i].start >= 0
                              /\ duration > 0 => cs[i].start <= duration
      /\ \A i, j \in DOMAIN cs : i < j => cs[i].start <= cs[j].start
  BY ChaptersInTurn
<1>2. chapters = [i \in DOMAIN cs |-> [from |-> cs[i].start, title |-> cs[i].title, to |-> To(i)]]
  BY DEF ChaptersVTT
<1> HIDE DEF cs
<1>3. n \in Nat /\ DOMAIN cs = 1..n
  <2>1. cs \in Seq(Proposal)
    BY <1>1
  <2> QED BY ONLY <2>1
<1>4. \A i \in 1..n : cs[i].start \in Int
  <2>1. \A i \in 1..n : cs[i] \in Proposal
    BY <1>1, <1>3, ElementOf
  <2> QED BY <2>1 DEF Proposal
<1> HIDE DEF n, To
<1>5. /\ DOMAIN chapters = 1..n /\ Len(chapters) = n
      /\ \A i \in 1..n : /\ chapters[i].from = cs[i].start /\ chapters[i].title = cs[i].title
                         /\ chapters[i].to = To(i)
  <2>1. DOMAIN chapters = 1..n
    BY <1>2, <1>3
  <2>2. Len(chapters) = n
    <3>1. chapters \in [1..n -> {chapters[i] : i \in 1..n}]
      BY <1>2, <2>1
    <3> QED BY <1>3, <3>1, SeqOfFunction
  <2> QED BY <1>2, <1>3, <2>1, <2>2
<1>6. ASSUME NEW i \in 1..n
      PROVE  /\ chapters[i].title # "" /\ chapters[i].from >= 0
             /\ chapters[i].to > chapters[i].from
             /\ i < n => \/ chapters[i].to = chapters[i + 1].from
                         \/ /\ chapters[i].from = chapters[i + 1].from
                            /\ chapters[i].to = chapters[i].from + 1
             /\ i = n /\ duration > 0 =>
                  chapters[i].from <= duration /\ chapters[i].to >= duration
  <2>1. /\ cs[i].title # "" /\ cs[i].start >= 0 /\ cs[i].start \in Int
        /\ duration > 0 => cs[i].start <= duration
    BY <1>1, <1>3, <1>4
  <2>2. /\ chapters[i].from = cs[i].start /\ chapters[i].title = cs[i].title
        /\ chapters[i].to = To(i)
    BY <1>5
  <2> DEFINE s == cs[i].start
             ch == chapters[i]
  <2>3. s \in Int /\ s >= 0 /\ ch.from = s
    BY <2>1, <2>2
  <2>4. CASE i < n
    <3>1. i + 1 \in 1..n /\ i < i + 1
      BY <1>3, <2>4
    <3>2. cs[i].start <= cs[i + 1].start /\ cs[i + 1].start \in Int
      BY <1>1, <1>3, <1>4, <3>1
    <3>3. chapters[i].to = IF cs[i + 1].start <= cs[i].start THEN cs[i].start + 1 ELSE cs[i + 1].start
      BY <2>2, <2>4 DEF To
    <3>4. chapters[i + 1].from = cs[i + 1].start
      BY <1>5, <3>1
    <3>5. i # n
      BY <1>3, <2>4
    <3> DEFINE r == cs[i + 1].start
    <3>6. r \in Int /\ s <= r /\ ch.to = IF r <= s THEN s + 1 ELSE r
      BY <3>2, <3>3
    <3> HIDE DEF s, r, ch
    <3>7. ch.to > ch.from
      BY <2>3, <3>6
    <3>8. ch.to = r \/ (ch.from = r /\ ch.to = ch.from + 1)
      BY <2>3, <3>6
    <3> QED BY <2>1, <2>2, <3>4, <3>5, <3>7, <3>8 DEF r, ch
  <2>5. CASE ~(i < n)
    <3>1. chapters[i].to = IF duration <= cs[i].start THEN cs[i].start + 1 ELSE duration
      BY <2>2, <2>5 DEF To
    <3>2. duration \in Nat
      OBVIOUS
    <3> HIDE DEF s, ch
    <3>3. ch.to = IF duration <= s THEN s + 1 ELSE duration
      BY <3>1 DEF s, ch
    <3>4. ch.to > ch.from
      BY ONLY <2>3, <3>2, <3>3
    <3>5. ch.to >= duration
      BY ONLY <2>3, <3>2, <3>3
    <3> QED BY <2>1, <2>2, <2>5, <3>4, <3>5 DEF ch
  <2> QED BY <2>4, <2>5
<1> QED BY <1>5, <1>6 DEF ChaptersFollow

-----------------------------------------------------------------------------

(* What is stored is what was made of the track and of the proposal. *)
TranscriptInv ==
  /\ track \in Seq(Line) /\ proposed \in Seq(Proposal) /\ duration \in Nat
  /\ indexed => chunks = ParseAndChunk(track, chunkSeconds)
  /\ \/ chapters = <<>>
     \/ chapters = ChaptersVTT(Chapters(proposed, duration), duration)

(* For every track, length of chunk and proposal, the index holds every spoken  *)
(* line once, in order and in chunks that seek to their first line, and the     *)
(* chapters follow one another to the end of the video (search/chunk.go:        *)
(* ParseAndChunk; llm/generate.go: Chapters; video/chapters.go: ChaptersVTT).   *)
THEOREM TranscriptCovered == TranscriptSpec => []TranscriptIsCovered
<1>1. TranscriptInit => TranscriptInv
  BY TranscriptAssumption DEF TranscriptInit, TranscriptStart, TranscriptInv
<1>2. TranscriptInv /\ [TranscriptNext]_transcriptVars => TranscriptInv'
  <2> SUFFICES ASSUME TranscriptInv, [TranscriptNext]_transcriptVars PROVE TranscriptInv'
    OBVIOUS
  <2>1. CASE BuildSearchIndex
    BY <2>1 DEF BuildSearchIndex, TranscriptInv
  <2>2. CASE GenerateAIContent
    BY <2>2 DEF GenerateAIContent, TranscriptInv
  <2>3. CASE UNCHANGED transcriptVars
    BY <2>3 DEF transcriptVars, TranscriptInv
  <2> QED BY <2>1, <2>2, <2>3 DEF TranscriptNext
<1>3. TranscriptInv => TranscriptIsCovered
  <2> SUFFICES ASSUME TranscriptInv PROVE TranscriptIsCovered
    OBVIOUS
  <2>1. ChunksCoverSpeech
    <3>1. CASE indexed
      BY <3>1, IndexCovers DEF TranscriptInv
    <3>2. CASE ~indexed
      BY <3>2 DEF ChunksCoverSpeech
    <3> QED BY <3>1, <3>2
  <2>2. ChaptersFollow
    <3>1. CASE chapters = <<>>
      <4>1. DOMAIN chapters = {}
        BY <3>1
      <4> QED BY <4>1 DEF ChaptersFollow
    <3>2. CASE chapters = ChaptersVTT(Chapters(proposed, duration), duration)
      BY <3>2, TrackFollows DEF TranscriptInv
    <3> QED BY <3>1, <3>2 DEF TranscriptInv
  <2> QED BY <2>1, <2>2 DEF TranscriptIsCovered
<1> QED BY <1>1, <1>2, <1>3, PTL DEF TranscriptSpec
=============================================================================
