------------------------------- MODULE MCLibrary -------------------------------
(* Small instances of what a library keeps beside its videos, and of what is   *)
(* planned or computed for one: folders, viewer progress, quotas, rollups,     *)
(* settings, encodes, master playlists, transcripts. They share no state, so   *)
(* that a behaviour in which all of them move shows nothing that one in which  *)
(* a single one moves does not: the first state settles which.                *)
EXTENDS Library, RateLimit, PlaybackAnalytics, MCEncodePlan, MasterPlaylist,
        Transcript

CONSTANTS f1, f2, f3, r1, r2, e1, e2, v, w, movie, tab1, tab2, A, B

VARIABLE focus

libraryVars == <<treeVars, progressVars, limitVars, analyticsVars, encodeVars,
                 masterVars, transcriptVars, settingsVars, focus>>

(* Two videos: one in the library of the folders, one in another.             *)
MCLibraryOf == (w :> B) @@ [x \in Folders \cup {v} |-> A]
MCTenantOf == (movie :> A)

(* Two page loads in one browser, two videos of which a second is no whole     *)
(* number of bytes, playheads before the start, in a video and past its end.   *)
MCVisitorOf == (tab1 :> A) @@ (tab2 :> A)
MCDurationOf == (v :> 4) @@ (w :> 2)
MCSizePerSecond == (v :> 3) @@ (w :> 2)
MCBeacons == {[type |-> "start", position |-> NoPosition]}
               \cup [type : {"progress"}, position : {-1, 1, 5}]

(* Playlists as ffmpeg writes them: a header, the audio renditions of a base,  *)
(* and variants, with or without other lines between.                         *)
Variant(i, codecs) ==
  <<Stream(codecs), [kind |-> "uri", name |-> i, under |-> <<>>]>>

MCBases ==
  {Header \o media \o Variant(1, "avc") \o between \o more :
     media \in {<<>>, <<[kind |-> "media", track |-> 1], [kind |-> "media", track |-> 2]>>},
     between \in {<<>>, <<[kind |-> "blank"]>>, <<[kind |-> "tag"]>>},
     more \in {<<>>, Variant(2, "avc")}}

Ladder(codec, between, two) ==
  Header \o between \o Variant(1, "") \o between
    \o (IF two THEN Variant(2, codec) ELSE <<>>)

MCLadders(codec) ==
  {Ladder(codec, between, two) : between \in {<<>>, <<[kind |-> "blank"]>>}, two \in BOOLEAN}

MCPublished ==
  UNION {{[base |-> b, ladders |-> l] :
            b \in MCBases,
            l \in {l \in [cs -> UNION {MCLadders(c) : c \in cs}] :
                     \A c \in cs : l[c] \in MCLadders(c)}} :
           cs \in SUBSET {"hevc", "av1", "vp9"}}

MCCodecOrder == <<"hevc", "av1", "vp9">>

Lines ==
  {[kind |-> "blank"], [kind |-> "text"], [kind |-> "timing", ok |-> FALSE],
   [kind |-> "timing", ok |-> TRUE, start |-> 0, end |-> 2],
   [kind |-> "timing", ok |-> TRUE, start |-> 3, end |-> 40]}

MCTracks == UNION {[1..n -> Lines] : n \in 0..5}
MCProposals == UNION {[1..n -> [start : {-1, 0, 4, 6, 9}, title : {"", "a"}]] : n \in 0..3}

(* The equals of three of the parts change places together.                   *)
Swap(a, b) == (a :> b) @@ (b :> a)
Symmetry ==
  Permutations(Folders) \cup {Swap(r1, r2) @@ Swap(e1, e2) @@ Swap(tab1, tab2)}

NoMaster == [base |-> Header, ladders |-> <<>>]
NoTrack == track = <<>> /\ chunkSeconds = 0
NoProposal == proposed = <<>> /\ duration = 0

(* A part that is not looked at starts in one state.                          *)
Init ==
  /\ focus \in {"folders", "progress", "quota", "analytics", "settings", "encodes",
               "masters", "transcripts", "chapters"}
  /\ TreeInit /\ ProgressInit /\ LimitInit /\ AnalyticsInit /\ SettingsInit
  /\ IF focus = "encodes" THEN EncodeInit ELSE asked = Plain /\ EncodeStart
  /\ IF focus = "masters" THEN MasterInit ELSE stored = NoMaster /\ MasterStart
  /\ CASE focus = "transcripts" ->
             /\ track \in Tracks /\ chunkSeconds \in ChunkSeconds /\ NoProposal
             /\ TranscriptStart
       [] focus = "chapters" ->
             /\ proposed \in Proposals /\ duration \in Durations /\ NoTrack
             /\ TranscriptStart
       [] OTHER -> NoTrack /\ NoProposal /\ TranscriptStart

Others(mine) ==
  /\ mine # "folders" => UNCHANGED treeVars
  /\ mine # "progress" => UNCHANGED progressVars
  /\ mine # "quota" => UNCHANGED limitVars
  /\ mine # "analytics" => UNCHANGED analyticsVars
  /\ mine # "settings" => UNCHANGED settingsVars
  /\ mine # "encodes" => UNCHANGED encodeVars
  /\ mine # "masters" => UNCHANGED masterVars
  /\ mine \notin {"transcripts", "chapters"} => UNCHANGED transcriptVars

Next ==
  /\ UNCHANGED focus
  /\ \/ focus = "folders" /\ TreeNext
     \/ focus = "progress" /\ ProgressNext
     \/ focus = "quota" /\ LimitNext
     \/ focus = "analytics" /\ AnalyticsNext
     \/ focus = "settings" /\ SettingsNext
     \/ focus = "encodes" /\ EncodeNext
     \/ focus = "masters" /\ FoldCodec
     \/ focus \in {"transcripts", "chapters"} /\ TranscriptNext
  /\ Others(focus)

Spec == Init /\ [][Next]_libraryVars
=============================================================================
