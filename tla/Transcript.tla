------------------------------- MODULE Transcript -------------------------------
(***************************************************************************)
(* From the lines of a caption track to the chunks of the search index, and    *)
(* from the chapters a model proposes to those stored with the video and the   *)
(* cues of their track. A line is blank, text, or a timing; a text is its       *)
(* place in the file. Seconds are whole.                                      *)
(***************************************************************************)
EXTENDS Integers, SequencesExt

CONSTANTS
  Tracks,        (* caption tracks: sequences of lines                       *)
  ChunkSeconds,  (* lengths the index may be asked for                       *)
  Proposals,     (* chapters the model may propose                           *)
  Durations      (* durations of a video, 0 when unknown                     *)

DefaultChunkSeconds == 30

Line == [kind : {"blank", "text"}] \cup [kind : {"timing"}, ok : {FALSE}]
          \cup [kind : {"timing"}, ok : {TRUE}, start : Int, end : Int]
Proposal == [start : Int, title : STRING]

ASSUME TranscriptAssumption ==
  /\ Tracks \subseteq Seq(Line) /\ ChunkSeconds \subseteq Int
  /\ Proposals \subseteq Seq(Proposal) /\ Durations \subseteq Nat

VARIABLES
  track, chunkSeconds, chunks, indexed, (* buildSearchIndex                  *)
  proposed, duration, chapters          (* generateAIContent                 *)

transcriptVars == <<track, chunkSeconds, chunks, indexed, proposed, duration, chapters>>

IsTiming(line) == line.kind = "timing" /\ line.ok

(* The cue being read, once a line closes it: a cue with no text is skipped.   *)
Closed(f) ==
  IF f.open /\ f.cue.text # <<>> THEN Append(f.cues, f.cue) ELSE f.cues

NothingRead ==
  [open |-> FALSE, cues |-> <<>>, cue |-> [start |-> 0, end |-> 0, text |-> <<>>]]

(* A timing that parses opens a cue, the lines after it are its text whatever   *)
(* they look like, and a blank line closes it.                                *)
ReadLine(f, line, i) ==
  IF f.open
  THEN IF line.kind = "blank" THEN [f EXCEPT !.cues = Closed(f), !.open = FALSE]
       ELSE [f EXCEPT !.cue.text = Append(@, i)]
  ELSE IF IsTiming(line)
       THEN [f EXCEPT !.open = TRUE,
                      !.cue = [start |-> line.start, end |-> line.end, text |-> <<>>]]
       ELSE f

ParseCues(lines) ==
  LET read[i \in 0..Len(lines)] ==
        IF i = 0 THEN NothingRead ELSE ReadLine(read[i - 1], lines[i], i)
  IN Closed(read[Len(lines)])

(* flush: what the window holds becomes a chunk.                              *)
Flush(f) ==
  IF f.text = <<>> THEN f
  ELSE [f EXCEPT !.text = <<>>,
          !.out = Append(@, [index |-> Len(f.out), start |-> f.start, end |-> f.end,
                             text |-> f.text])]

(* The end of the loop without its flush.                                     *)
LoseWindow(f) == f.out

LastFlush(f) == Flush(f).out

(* A cue joins the window, which is full when it spans the asked seconds.       *)
Gather(f, cue, span) ==
  LET g == [f EXCEPT !.start = IF f.text = <<>> THEN cue.start ELSE @, !.end = cue.end,
                     !.text = @ \o cue.text]
  IN IF g.end - g.start >= span THEN Flush(g) ELSE g

NothingGathered == [out |-> <<>>, text |-> <<>>, start |-> 0, end |-> 0]

Span(asked) == IF asked <= 0 THEN DefaultChunkSeconds ELSE asked

ParseAndChunk(lines, asked) ==
  LET cues == ParseCues(lines)
      pass[k \in 0..Len(cues)] ==
        IF k = 0 THEN NothingGathered ELSE Gather(pass[k - 1], cues[k], Span(asked))
  IN LastFlush(pass[Len(cues)])

(* sort.SliceStable: of chapters that begin together the one proposed first.    *)
Sooner(raw, i, j) ==
  raw[i].start < raw[j].start \/ (raw[i].start = raw[j].start /\ i < j)

InTurn(raw, some) ==
  [k \in 1..Cardinality(some) |->
     CHOOSE i \in some : Cardinality({j \in some : Sooner(raw, j, i)}) = k - 1]

(* Client.Chapters, on the model's answer: untitled chapters, and those before *)
(* the start or past a known duration, are dropped; the rest is sorted.         *)
Chapters(raw, seconds) ==
  LET good == {i \in DOMAIN raw : /\ raw[i].title # "" /\ raw[i].start >= 0
                                  /\ seconds > 0 => raw[i].start <= seconds}
  IN [k \in 1..Cardinality(good) |-> raw[InTurn(raw, good)[k]]]

(* ChaptersVTT: each cue runs to the next chapter, the last to the end of the  *)
(* video, and none is shorter than a second.                                  *)
ChaptersVTT(cs, seconds) ==
  [i \in DOMAIN cs |->
     LET end == IF i < Len(cs) THEN cs[i + 1].start ELSE seconds
     IN [from |-> cs[i].start, title |-> cs[i].title,
         to |-> IF end <= cs[i].start THEN cs[i].start + 1 ELSE end]]

BuildSearchIndex ==
  /\ chunks' = ParseAndChunk(track, chunkSeconds) /\ indexed' = TRUE
  /\ UNCHANGED <<track, chunkSeconds, proposed, duration, chapters>>

GenerateAIContent ==
  /\ Chapters(proposed, duration) # <<>>
  /\ chapters' = ChaptersVTT(Chapters(proposed, duration), duration)
  /\ UNCHANGED <<track, chunkSeconds, chunks, indexed, proposed, duration>>

TranscriptStart == chunks = <<>> /\ indexed = FALSE /\ chapters = <<>>

TranscriptInit ==
  /\ track \in Tracks /\ chunkSeconds \in ChunkSeconds
  /\ proposed \in Proposals /\ duration \in Durations
  /\ TranscriptStart

TranscriptNext == BuildSearchIndex \/ GenerateAIContent

TranscriptSpec == TranscriptInit /\ [][TranscriptNext]_transcriptVars

---------------------------------------------------------------------------
(* Properties.                                                               *)

Increasing(s) == \A a, b \in DOMAIN s : a < b => s[a] < s[b]

(* A line is spoken when a timing stands above it with no blank line between.  *)
Above(i) == {t \in 1..i - 1 : IsTiming(track[t]) /\ \A k \in t + 1..i : track[k].kind # "blank"}
Spoken == {i \in DOMAIN track : Above(i) # {}}
TimingLine(i) == Min(Above(i))
Timing(i) == track[TimingLine(i)]

(* The index holds every spoken line of the track once and in order, in chunks *)
(* numbered from 0 that seek to the timing of their first line and end with     *)
(* that of their last; only the last may be short of the asked length, and none *)
(* goes on after it is reached (chunk.go: ParseAndChunk, ParseCues).           *)
ChunksCoverSpeech ==
  LET span == Span(chunkSeconds)
      said == FlattenSeq([c \in DOMAIN chunks |-> chunks[c].text])
  IN indexed =>
     /\ ToSet(said) = Spoken /\ Increasing(said)
     /\ \A c \in DOMAIN chunks :
          LET chunk == chunks[c]
          IN /\ chunk.index = c - 1 /\ chunk.text # <<>>
             /\ chunk.start = Timing(Head(chunk.text)).start
             /\ chunk.end = Timing(Last(chunk.text)).end
             /\ c < Len(chunks) => chunk.end - chunk.start >= span
             /\ \A i \in ToSet(chunk.text) :
                  Timing(i).end - chunk.start >= span => TimingLine(i) = TimingLine(Last(chunk.text))

(* The chapters of a track follow one another: each titled, of positive length, *)
(* the next beginning where it ends unless two begin together, the last         *)
(* reaching the end of the video (llm/generate.go: Chapters; chapters.go).      *)
ChaptersFollow ==
  \A i \in DOMAIN chapters :
    /\ chapters[i].title # "" /\ chapters[i].from >= 0 /\ chapters[i].to > chapters[i].from
    /\ i < Len(chapters) =>
         \/ chapters[i].to = chapters[i + 1].from
         \/ chapters[i].from = chapters[i + 1].from /\ chapters[i].to = chapters[i].from + 1
    /\ i = Len(chapters) /\ duration > 0 =>
         chapters[i].from <= duration /\ chapters[i].to >= duration

(* Both: what the player seeks by, and what it shows as chapters.              *)
TranscriptIsCovered == ChunksCoverSpeech /\ ChaptersFollow
=============================================================================
