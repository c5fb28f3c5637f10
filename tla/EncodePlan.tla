------------------------------- MODULE EncodePlan -------------------------------
(***************************************************************************)
(* What the pipeline asks of ffmpeg for one video: which rungs of the ladder, *)
(* which cuts and turns, which audio, which poster and previews. Four builds  *)
(* come from the same source, in different jobs and by different paths: the   *)
(* H.264 ladder, its MP4 fallback, an extra codec's ladder, and the encrypted *)
(* ladder. A rung is its height, times are in half seconds, sizes of a crop   *)
(* in quarters of the frame, and a file is the sequence of the source's half  *)
(* seconds it holds.                                                          *)
(***************************************************************************)
EXTENDS Integers, SequencesExt

CONSTANT Asked   (* what a video may be created with: its source, its edit  *)
                 (* and the library's settings                              *)

AllRungs == {240, 360, 480, 720, 1080, 1440, 2160}
RungWidth == [r \in AllRungs |-> IF r = 480 THEN 854 ELSE (r * 16) \div 9]
DefaultRungs == {360, 480, 720, 1080}
WholeFrame == [x |-> 0, y |-> 0, w |-> 4, h |-> 4]
NoEdit == [segments |-> <<>>, crop |-> WholeFrame, rotate |-> 0, flip |-> "none"]
Builds == {"h264", "mp4", "codec", "encrypted"}

ASSUME AskedAssumption == \A q \in Asked :
  /\ {q.width, q.height, q.halves} \subseteq Nat \ {0} /\ q.tracks \in Nat
  /\ q.rungs \subseteq Nat /\ q.multi \in BOOLEAN
  /\ q.edit \in [segments : Seq([start : Int, end : Int]), rotate : Nat,
                 crop : [x : Int, y : Int, w : Int, h : Int], flip : STRING]

VARIABLES
  asked,     (* the source, the request to create it and the settings       *)
  row,       (* its row: the edit kept, what was recorded of the transcode  *)
  built      (* per build, what ffmpeg was asked for                        *)

encodeVars == <<asked, row, built>>

(* The numbers of a finite set, the smallest first.                          *)
Nth(S, i) == CHOOSE n \in S : Cardinality({m \in S : m < n}) = i - 1
Ascending(S) == [i \in 1..Cardinality(S) |-> Nth(S, i)]

---------------------------------------------------------------------------
(* The edit a request carries, checked and kept.                             *)

HasCrop(e) == e.crop # WholeFrame
IsIdentity(e) == ~HasCrop(e) /\ e.rotate = 0 /\ e.flip = "none" /\ e.segments = <<>>
IsTemporal(e) == Len(e.segments) > 1
Trims(e) == Len(e.segments) = 1

Validate(e) ==
  /\ e.rotate \in {0, 90, 180, 270} /\ e.flip \in {"none", "h", "v"}
  /\ e.crop.w > 0 /\ e.crop.h > 0 /\ e.crop.x >= 0 /\ e.crop.y >= 0
  /\ e.crop.x + e.crop.w <= 4 /\ e.crop.y + e.crop.h <= 4
  /\ \A s \in ToSet(e.segments) : 0 <= s.start /\ s.start < s.end
  /\ \A i, j \in DOMAIN e.segments :
       i # j => \/ e.segments[i].end <= e.segments[j].start
                \/ e.segments[j].end <= e.segments[i].start

(* Normalize that leaves the segments as they came.                          *)
AsRequested(e) == e

(* Normalize: what is valid has no two segments with one start.              *)
Normalize(e) ==
  LET starts == Ascending({s.start : s \in ToSet(e.segments)})
  IN [e EXCEPT !.segments =
        [i \in DOMAIN starts |-> CHOOSE s \in ToSet(e.segments) : s.start = starts[i]]]

(* Config.Normalize, for the resolutions: unknown names drop out, and an      *)
(* empty list is the default.                                                *)
Settings(rungs) ==
  IF rungs \cap AllRungs = {} THEN DefaultRungs ELSE rungs \cap AllRungs

---------------------------------------------------------------------------
(* The ladder.                                                               *)

Fitting(height) == {r \in AllRungs : r <= height}

(* selectRungs that keeps the enabled rungs when none of them fits.          *)
EnabledAnyway(height, enabled) ==
  IF enabled \cap Fitting(height) # {} THEN enabled \cap Fitting(height) ELSE enabled

SelectRungs(height, enabled) ==
  IF enabled \cap Fitting(height) # {} THEN enabled \cap Fitting(height)
  ELSE IF Fitting(height) # {} THEN {Max(Fitting(height))} ELSE {Min(AllRungs)}

MP4FallbackRung(height, enabled) ==
  LET low == {r \in SelectRungs(height, enabled) : r <= 1080}
  IN IF low # {} THEN Max(low) ELSE 1080

CodecLevel(height) == IF height > 1440 THEN 3 ELSE IF height > 1080 THEN 2 ELSE 1

(* The level that is written beside an extra codec's variants: it comes from *)
(* the settings, not from what was encoded.                                  *)
CodecsTag(enabled) == CodecLevel(Max(enabled))

PlanAudio(tracks, multi) ==
  IF tracks > 1 /\ multi THEN [hasAudio |-> TRUE, group |-> tracks]
  ELSE [hasAudio |-> tracks > 0, group |-> 0]

(* The source track of each audio output.                                    *)
AudioMaps(n, am) ==
  IF am.group > 0 THEN [k \in 1..am.group |-> k]
  ELSE IF am.hasAudio THEN [i \in 1..n |-> 1] ELSE <<>>

(* One entry per playlist: its video output and its audio output, 0 for none. *)
VarStreamMap(n, am) ==
  [i \in 1..n |-> [v |-> i, default |-> FALSE,
                   a |-> IF am.group = 0 /\ am.hasAudio THEN i ELSE 0]]
  \o [k \in 1..am.group |-> [v |-> 0, a |-> k, default |-> k = 1]]

---------------------------------------------------------------------------
(* What is done to the picture and to time.                                  *)

EditVideoChain(e) ==
  (IF HasCrop(e) THEN <<"crop">> ELSE <<>>)
  \o (CASE e.rotate = 90 -> <<"clock">> [] e.rotate = 180 -> <<"cclock", "cclock">>
        [] e.rotate = 270 -> <<"cclock">> [] OTHER -> <<>>)
  \o (CASE e.flip = "h" -> <<"hflip">> [] e.flip = "v" -> <<"vflip">> [] OTHER -> <<>>)

Even(n) == n - (n % 2)
AtLeast2(n) == IF n < 2 THEN 2 ELSE n

(* A row without an edit records the frame as it was probed.                  *)
EditedDimensions(w, h, e) ==
  LET cw == Even(AtLeast2((w * e.crop.w) \div 4))
      ch == Even(AtLeast2((h * e.crop.h) \div 4))
  IN IF e = NoEdit THEN <<w, h>>
     ELSE IF e.rotate \in {90, 270} THEN <<ch, cw>> ELSE <<cw, ch>>

Source(q) == [i \in 1..q.halves |-> i - 1]

(* The half seconds of a file from start up to end, as far as it goes.        *)
Cut(file, s) == SubSeq(file, s.start + 1, Min({s.end, Len(file)}))

(* trimInputArgs: -ss and -t, for a single segment.                          *)
TrimInput(file, e) == IF Trims(e) THEN Cut(file, e.segments[1]) ELSE file

BuildEditedSource(file, e) ==
  FlattenSeq([i \in DOMAIN e.segments |-> Cut(file, e.segments[i])])

SpatialOnly(e) == [e EXCEPT !.segments = <<>>]

(* Both pipelines prepare their input so: several segments are cut into a     *)
(* file first, a single one is left to the seek of the encode.               *)
Prepared(file, e) ==
  IF IsTemporal(e)
  THEN [file |-> BuildEditedSource(file, e), edit |-> SpatialOnly(e)]
  ELSE [file |-> file, edit |-> e]

(* The duration recorded: that of the file, probed, unless a trim shortens    *)
(* what is made of it.                                                       *)
DurationSeconds(file, e) ==
  (IF Trims(e) THEN e.segments[1].end - e.segments[1].start ELSE Len(file)) \div 2

(* Three seconds into what is kept, or its middle when that is too short.     *)
PosterTime(e) ==
  IF ~Trims(e) THEN 6
  ELSE LET s == e.segments[1]
       IN IF s.start + 6 >= s.end THEN (s.start + s.end) \div 2 ELSE s.start + 6

(* The number of tiles, rounded down.                                        *)
TileCountDown(n, each) == n \div each

TileCount(n, each) == (n + each - 1) \div each

(* The sheet of seek previews and the cues that point into it.                *)
Thumbnails(seconds) ==
  LET interval == IF seconds \div 100 < 2 THEN 2 ELSE seconds \div 100
      count == Max({1, TileCount(seconds, interval)})
  IN [interval |-> interval, rows |-> (count + 9) \div 10,
      cues |-> [i \in 1..count |->
        [from |-> (i - 1) * interval, to |-> Min({i * interval, seconds}),
         x |-> (i - 1) % 10, y |-> (i - 1) \div 10]]]

---------------------------------------------------------------------------
(* The builds.                                                               *)

NoPlan == [there |-> FALSE]

(* buildArgs and makeVariantDirs: the outputs in the order of -map, the        *)
(* playlists, and the form of the segments.                                  *)
BuildArgs(q, file, e, multi, key) ==
  LET rungs == SelectRungs(q.height, Settings(q.rungs))
      n == Cardinality(rungs)
      am == PlanAudio(q.tracks, multi)
  IN [there |-> TRUE, rungs |-> rungs, video |-> Ascending(rungs),
      audio |-> AudioMaps(n, am),
      streams |-> VarStreamMap(n, am), dirs |-> n + am.group,
      shows |-> TrimInput(file, e), chain |-> EditVideoChain(e),
      segments |-> IF key THEN "mpegts" ELSE "fmp4", poster |-> -1, tiles |-> {}]

(* BuildHLS: the ladder, then the poster and, unless it is encrypted, the      *)
(* previews from its lowest rendition.                                       *)
BuildHLS(q, file, e, seconds, key) ==
  [BuildArgs(q, file, e, q.multi, key) EXCEPT
     !.poster = IF PosterTime(e) < Len(file) THEN file[PosterTime(e) + 1] ELSE -1,
     !.tiles = IF key \/ seconds = 0 THEN {} ELSE {Thumbnails(seconds)}]

(* BuildCodec: one audio track in each variant.                              *)
BuildCodec(q, file, e) == BuildArgs(q, file, e, FALSE, FALSE)

BuildMP4Fallback(q, file, e) ==
  LET rung == MP4FallbackRung(q.height, Settings(q.rungs))
  IN [there |-> TRUE, rungs |-> {rung}, shows |-> TrimInput(file, e),
      chain |-> EditVideoChain(e)]

(* adminCreateVideo.                                                         *)
Create ==
  /\ ~row.there /\ Validate(asked.edit)
  /\ row' = [row EXCEPT !.there = TRUE,
       !.edit = IF IsIdentity(asked.edit) THEN NoEdit ELSE Normalize(asked.edit)]
  /\ UNCHANGED <<asked, built>>

(* Worker.process, from the probe to SetFinished.                            *)
Transcode ==
  /\ row.there
  /\ LET in == Prepared(Source(asked), row.edit)
         seconds == DurationSeconds(in.file, in.edit)
     IN /\ built' = [built EXCEPT
             !["h264"] = BuildHLS(asked, in.file, in.edit, seconds, FALSE),
             !["mp4"] = BuildMP4Fallback(asked, in.file, in.edit)]
        /\ row' = [row EXCEPT !.seconds = seconds,
             !.frame = EditedDimensions(asked.width, asked.height, row.edit)]
  /\ UNCHANGED asked

(* handleCodecBackfill, for a codec that is not there.                       *)
Backfill ==
  /\ built["h264"].there
  /\ LET in == Prepared(Source(asked), row.edit)
     IN built' = [built EXCEPT !["codec"] = BuildCodec(asked, in.file, in.edit)]
  /\ UNCHANGED <<asked, row>>

(* handleEncrypt loads the settings and not the edit.                        *)
Encrypted ==
  /\ built["h264"].there
  /\ built' = [built EXCEPT !["encrypted"] =
       BuildHLS(asked, Source(asked), NoEdit, asked.halves \div 2, TRUE)]
  /\ UNCHANGED <<asked, row>>

EncodeStart ==
  /\ row = [there |-> FALSE, edit |-> NoEdit, seconds |-> 0, frame |-> <<0, 0>>]
  /\ built = [b \in Builds |-> NoPlan]

EncodeInit == asked \in Asked /\ EncodeStart

EncodeNext == Create \/ Transcode \/ Backfill \/ Encrypted

EncodeSpec == EncodeInit /\ [][EncodeNext]_encodeVars

---------------------------------------------------------------------------
(* Properties.                                                               *)

Once(seq, i) == Cardinality({j \in DOMAIN seq : seq[j] = i}) = 1

(* The half seconds of the source that a request keeps.                       *)
Kept == {t \in 0..asked.halves - 1 :
  asked.edit.segments # <<>> =>
    \E s \in ToSet(asked.edit.segments) : s.start <= t /\ t < s.end}

InOrder(file) == \A i \in 1..Len(file) - 1 : file[i] < file[i + 1]

WithinSource == \A s \in ToSet(asked.edit.segments) : s.end <= asked.halves

(* What one filter does to the frame and by how much it turns it.             *)
Filtered(op, frame) ==
  CASE op = "crop" -> <<Even((frame[1] * asked.edit.crop.w) \div 4),
                        Even((frame[2] * asked.edit.crop.h) \div 4)>>
    [] op \in {"clock", "cclock"} -> <<frame[2], frame[1]>>
    [] OTHER -> frame

Turn(op) == CASE op = "clock" -> 90 [] op = "cclock" -> 270 [] OTHER -> 0

(* What a chain of filters makes of the frame, one after the other.           *)
FrameAfter(chain) ==
  LET after[i \in 0..Len(chain)] ==
        IF i = 0 THEN <<asked.width, asked.height>>
        ELSE Filtered(chain[i], after[i - 1])
  IN after[Len(chain)]

(* A frame is fitted into the box of its rung and keeps its aspect: it grows   *)
(* when it is smaller than the box both ways.                                 *)
Enlarges(r, frame) == RungWidth[r] > frame[1] /\ r > frame[2]

Reshaped(e) == HasCrop(e) \/ e.rotate \in {90, 270}

(* No rung but the smallest is higher than the source, and none is made by     *)
(* enlarging a frame that is neither cropped nor laid on its side: the rungs   *)
(* are chosen from the source, and a crop or a quarter turn comes after them    *)
(* and before the scaling, so that such a frame may be enlarged after all. None *)
(* is empty while a rung fits and none leaves out an enabled rung that fits;   *)
(* the codec level written for the extra codecs covers what they encode; and    *)
(* every playlist has its directory, every output its playlist (transcode.go:  *)
(* selectRungs, videoFilterComplex, mp4FallbackRung, CodecsTag, varStreamMap). *)
LadderFitsSource ==
  \A b \in Builds : built[b].there =>
    LET p == built[b]
        usable == Settings(asked.rungs) \cap 0..asked.height
    IN /\ p.rungs # {}
       /\ \A r \in p.rungs \ {240} :
            /\ r <= asked.height
            /\ Enlarges(r, FrameAfter(p.chain)) => b # "encrypted" /\ Reshaped(asked.edit)
       /\ b # "mp4" => /\ usable # {} => p.rungs = usable
                       /\ p.dirs = Len(p.streams)
                       /\ \A i \in DOMAIN p.video : Once([j \in DOMAIN p.streams |-> p.streams[j].v], i)
                       /\ \A i \in DOMAIN p.audio : Once([j \in DOMAIN p.streams |-> p.streams[j].a], i)
                       /\ \A s \in ToSet(p.streams) :
                            s.v \in 0..Len(p.video) /\ s.a \in 0..Len(p.audio)
       /\ b = "mp4" => Max(p.rungs) <= 1080
       /\ b = "codec" => CodecLevel(Max(p.rungs)) <= CodecsTag(Settings(asked.rungs))

TurnedBy(chain) ==
  LET turned[i \in 0..Len(chain)] ==
        IF i = 0 THEN 0 ELSE (turned[i - 1] + Turn(chain[i])) % 360
  IN turned[Len(chain)]

(* Whether the cuts are made beforehand or by the seek of the encode, every   *)
(* build but the encrypted one shows what the request kept, once and in order; *)
(* the row's duration and frame are those of what is shown, as long as a crop *)
(* leaves a side of two pixels; and the poster is of it, unless it is too short *)
(* (worker.go: process, av1.go, editspec.go).                                 *)
EditIsHonoured ==
  /\ \A b \in Builds \ {"encrypted"} : built[b].there =>
       /\ WithinSource => ToSet(built[b].shows) = Kept /\ InOrder(built[b].shows)
       /\ TurnedBy(built[b].chain) = asked.edit.rotate
  /\ built["h264"].there =>
       /\ WithinSource => row.seconds = Cardinality(Kept) \div 2
       /\ LET f == FrameAfter(built["h264"].chain)
          IN \A i \in 1..2 : f[i] >= 2 => Even(row.frame[i]) = Even(f[i])
       /\ WithinSource =>
            \/ built["h264"].poster \in Kept
            \/ ~Trims(asked.edit) /\ Cardinality(Kept) <= 6

(* Every second of a video has one preview, the one grabbed for its stretch    *)
(* of time, and every preview lies on the sheet (transcode.go: thumbnails).   *)
EverySecondHasOneTile ==
  built["h264"].there => \A t \in built["h264"].tiles :
    /\ \A i \in DOMAIN t.cues : /\ t.cues[i].x < 10 /\ t.cues[i].y < t.rows
                                /\ t.cues[i].to > t.cues[i].from
                                /\ t.cues[i].y * 10 + t.cues[i].x = t.cues[i].from \div t.interval
    /\ \A second \in 0..row.seconds - 1 :
         Cardinality({i \in DOMAIN t.cues : t.cues[i].from <= second /\ second < t.cues[i].to}) = 1
    /\ Len(t.cues) <= 150

(* encrypt.go:76-77: the ladder is encoded anew 'with the same                *)
(* resolutions/watermark/multi-audio the video was originally built with so    *)
(* the encrypted ladder matches'.                                             *)
EncryptedLadderMatches ==
  built["encrypted"].there =>
    /\ built["encrypted"].streams = built["h264"].streams
    /\ built["encrypted"].shows = built["h264"].shows
=============================================================================
