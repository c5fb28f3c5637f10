----------------------------- MODULE LibrarySettings -----------------------------
(***************************************************************************)
(* The encoding defaults of a library, and what becomes of them in a video. *)
(* The defaults are one row, read and written whole by three handlers; the   *)
(* watermark is one object, put and removed apart from the row that names it. *)
(* A video takes a copy of the row at its creation and keeps it, the object  *)
(* stays where it was. Of the settings, those that the form alone changes    *)
(* are one value, the rungs; codecs are added per video.                     *)
(***************************************************************************)
EXTENDS FiniteSets

CONSTANTS
  Rungs,         (* the choices the form offers                            *)
  UsualRungs,
  Images,        (* the pictures an administrator has                       *)
  NoImage,       (* nothing is stored, or nothing is laid over the picture  *)
  Codecs,        (* beyond H.264                                            *)
  LibraryVideos,
  Editors        (* pages and requests that are under way at the same time  *)

CONSTANTS Uncreated, Unbuilt, Requested, Failed

Rows == [rungs : Rungs, codecs : SUBSET Codecs, named : BOOLEAN, enabled : BOOLEAN]
Encodings == [rungs : Rungs, mark : Images \cup {NoImage}]
BuildKinds == {"h264", "encrypted"} \cup Codecs

ASSUME SettingsAssumption ==
  /\ UsualRungs \in Rungs /\ NoImage \notin Images
  /\ {"h264", "encrypted"} \cap Codecs = {}
  /\ Uncreated \notin Rows /\ {Unbuilt, Requested, Failed} \cap Encodings = {}
  /\ Failed \notin {Unbuilt, Requested}

VARIABLES
  library,       (* libraries.encoding_config                               *)
  image,         (* the object library/<id>/watermark.png                   *)
  editor,        (* per page or request: its next call, the row in its      *)
                 (* hands, and as history whether another has written since *)
                 (* it began                                                *)
  slip,          (* history: the row names an object that is not there, for *)
                 (* an overtaken request saved it, or a removal was cut off  *)
                 (* between the object and the row                          *)
  settings,      (* videos.encode_settings                                  *)
  created,       (* history: the defaults when the video was created        *)
  ladder         (* per video and build, what the last encode shows         *)

settingsVars == <<library, image, editor, slip, settings, created, ladder>>

DefaultConfig ==
  [rungs |-> UsualRungs, codecs |-> {}, named |-> FALSE, enabled |-> FALSE]

NormalizeConfig(row) == [row EXCEPT !.enabled = @ /\ row.named]

Idle == [at |-> "idle", row |-> DefaultConfig, overtaken |-> FALSE]

SettingsInit ==
  /\ library = DefaultConfig /\ image = NoImage
  /\ editor = [r \in Editors |-> Idle] /\ slip = FALSE
  /\ settings = [v \in LibraryVideos |-> Uncreated] /\ created = settings
  /\ ladder = [v \in LibraryVideos |-> [b \in BuildKinds |-> Unbuilt]]

---------------------------------------------------------------------------
(* The calls of the handlers.                                                *)

Goes(r, at) == editor' = [editor EXCEPT ![r].at = at]

(* A write of the row or of the object, by r: it overtakes whoever else is at *)
(* work.                                                                     *)
Overtakes(r, next) ==
  editor' = [s \in Editors |->
               IF s = r THEN next
               ELSE [editor[s] EXCEPT !.overtaken = editor[s].at # "idle"]]

GetEncodingConfig(r) == library

SetEncodingConfig(r, row) ==
  /\ library' = NormalizeConfig(row)
  /\ slip' = (row.named /\ image = NoImage /\ (slip \/ editor[r].overtaken))
  /\ Overtakes(r, Idle)
  /\ UNCHANGED <<image, settings, created, ladder>>

(* adminGetEncodingSettings: the page is opened, and holds what it was shown   *)
(* until it is saved.                                                        *)
OpenForm(r) ==
  /\ editor[r].at = "idle"
  /\ editor' = [editor EXCEPT ![r] = [at |-> "form", row |-> library, overtaken |-> FALSE]]
  /\ UNCHANGED <<library, image, slip, settings, created, ladder>>

(* adminSetEncodingSettings. The page sends all it holds, of which one thing   *)
(* was changed. It then shows the answer, as if opened anew.                  *)
SaveForm(r) ==
  /\ editor[r].at = "form"
  /\ \/ \E q \in Rungs : SetEncodingConfig(r, [editor[r].row EXCEPT !.rungs = q])
     \/ SetEncodingConfig(r, [editor[r].row EXCEPT !.enabled = ~@])

(* adminUploadWatermark: the object, then the row that names it.              *)
StartUpload(r) ==
  /\ editor[r].at = "idle"
  /\ editor' = [editor EXCEPT ![r] = [Idle EXCEPT !.at = "put"]]
  /\ UNCHANGED <<library, image, slip, settings, created, ladder>>

(* PutWatermark that does not look at the error.                              *)
PutOrNot(r) ==
  /\ editor[r].at = "put"
  /\ \E i \in Images : image' \in {i, image}
  /\ slip' = FALSE /\ Overtakes(r, [editor[r] EXCEPT !.at = "get"])
  /\ UNCHANGED <<library, settings, created, ladder>>

PutWatermark(r) ==
  /\ editor[r].at = "put"
  /\ image' \in Images
  /\ slip' = FALSE /\ Overtakes(r, [editor[r] EXCEPT !.at = "get"])
  /\ UNCHANGED <<library, settings, created, ladder>>

ReadForUpload(r) ==
  /\ editor[r].at = "get"
  /\ editor' = [editor EXCEPT ![r].at = "name", ![r].row = GetEncodingConfig(r)]
  /\ UNCHANGED <<library, image, slip, settings, created, ladder>>

NameWatermark(r) ==
  /\ editor[r].at = "name"
  /\ SetEncodingConfig(r, [editor[r].row EXCEPT !.named = TRUE, !.enabled = TRUE])

(* adminDeleteWatermark: the row, the object it names, the row again. An error *)
(* of the removal is ignored.                                                *)
StartDelete(r) ==
  /\ editor[r].at = "idle"
  /\ LET row == GetEncodingConfig(r)
     IN editor' = [editor EXCEPT ![r] = [at |-> IF row.named THEN "remove" ELSE "unname",
                                         row |-> row, overtaken |-> FALSE]]
  /\ UNCHANGED <<library, image, slip, settings, created, ladder>>

RemoveWatermark(r) ==
  /\ editor[r].at = "remove"
  /\ \/ image' = NoImage /\ Overtakes(r, [editor[r] EXCEPT !.at = "unname"])
     \/ UNCHANGED image /\ Goes(r, "unname")
  /\ UNCHANGED <<library, slip, settings, created, ladder>>

UnnameWatermark(r) ==
  /\ editor[r].at = "unname"
  /\ SetEncodingConfig(r, [editor[r].row EXCEPT !.named = FALSE, !.enabled = FALSE])

(* A call fails or the request is gone, a page is closed: nothing is undone.   *)
GiveUp(r) ==
  /\ editor[r].at # "idle"
  /\ editor' = [editor EXCEPT ![r] = Idle]
  /\ slip' = (slip \/ (editor[r].at = "unname" /\ library.named /\ image = NoImage))
  /\ UNCHANGED <<library, image, settings, created, ladder>>

---------------------------------------------------------------------------
(* The videos.                                                               *)

(* One statement: the row is inserted with the defaults it finds.             *)
CreateVideo(v) ==
  /\ settings[v] = Uncreated
  /\ settings' = [settings EXCEPT ![v] = library]
  /\ created' = [created EXCEPT ![v] = library]
  /\ UNCHANGED <<library, image, editor, slip, ladder>>

WithCodec(row, c) == NormalizeConfig([row EXCEPT !.codecs = @ \cup {c}])

(* IsReady, which comes with the status behind prepareWatermark.              *)
IsReady(v) == ladder[v]["h264"] \in Encodings

(* Its read and its write are apart, which concerns the codecs only           *)
(* (CodecBackfill takes them apart).                                         *)
AddVideoCodec(v, c) ==
  /\ settings[v] # Uncreated /\ IsReady(v)
  /\ settings' = [settings EXCEPT ![v] = WithCodec(@, c)]
  /\ UNCHANGED <<library, image, editor, slip, created, ladder>>

AskEncrypt(v) ==
  /\ settings[v] # Uncreated /\ IsReady(v) /\ ladder[v]["encrypted"] = Unbuilt
  /\ ladder' = [ladder EXCEPT ![v]["encrypted"] = Requested]
  /\ UNCHANGED <<library, image, editor, slip, settings, created>>

GetEncodeSettings(v) == settings[v]

(* prepareWatermark and encodeOptions: the picture laid over the video.       *)
PrepareWatermark(row) == IF row.enabled /\ row.named THEN image ELSE NoImage

WatermarkMissing(row) == row.enabled /\ row.named /\ image = NoImage

(* A retranscode and an encryption start over, at any time once they were      *)
(* asked for; a codec that is there is not built again.                      *)
MayBuild(v, b) ==
  /\ settings[v] # Uncreated
  /\ b \in Codecs => b \in settings[v].codecs /\ ladder[v][b] \notin Encodings
  /\ b = "encrypted" => ladder[v][b] # Unbuilt

(* handleTranscode, handleCodecBackfill, handleEncrypt, as far as the settings *)
(* decide what comes out.                                                    *)
Build(v, b) ==
  /\ MayBuild(v, b)
  /\ LET row == GetEncodeSettings(v)
     IN ladder' = [ladder EXCEPT ![v][b] =
                     IF WatermarkMissing(row) THEN Failed
                     ELSE [rungs |-> row.rungs, mark |-> PrepareWatermark(row)]]
  /\ UNCHANGED <<library, image, editor, slip, settings, created>>

---------------------------------------------------------------------------
Edit(r) ==
  \/ OpenForm(r) \/ SaveForm(r)
  \/ StartUpload(r) \/ PutWatermark(r) \/ ReadForUpload(r) \/ NameWatermark(r)
  \/ StartDelete(r) \/ RemoveWatermark(r) \/ UnnameWatermark(r)
  \/ GiveUp(r)

SettingsNext ==
  \/ \E r \in Editors : Edit(r)
  \/ \E v \in LibraryVideos : \/ CreateVideo(v)
                       \/ \E c \in Codecs : AddVideoCodec(v, c)
                       \/ AskEncrypt(v)
                       \/ \E b \in BuildKinds : Build(v, b)

SettingsSpec == SettingsInit /\ [][SettingsNext]_settingsVars

---------------------------------------------------------------------------
(* Properties *)

(* Types; a row that turns the watermark on names one, in the library as in    *)
(* the videos (Config.Normalize).                                            *)
SettingsTypeOK ==
  /\ library \in Rows /\ image \in Images \cup {NoImage} /\ slip \in BOOLEAN
  /\ editor \in [Editors -> [at : {"idle", "form", "put", "get", "name", "remove", "unname"},
                             row : Rows, overtaken : BOOLEAN]]
  /\ settings \in [LibraryVideos -> Rows \cup {Uncreated}]
  /\ created \in [LibraryVideos -> Rows \cup {Uncreated}]
  /\ ladder \in [LibraryVideos -> [BuildKinds -> Encodings \cup {Unbuilt, Requested, Failed}]]
  /\ library.enabled => library.named
  /\ \A v \in LibraryVideos : settings[v] \in Rows /\ settings[v].enabled => settings[v].named

Removing(r) == editor[r].at = "unname"

(* A row that names a watermark finds it in the bucket, unless a removal is    *)
(* between the two, or was cut off there, or a request that another overtook    *)
(* has saved what it knew: those leave a row that makes every encode of new      *)
(* videos fail, until an image is put or a removal ends. Nothing else does:      *)
(* not a failed call of an upload, not an upload or a removal that ends, not a   *)
(* save of the form beside them that they do not overtake, in whatever order     *)
(* they follow each other and whatever went wrong before (encoding_settings.go).*)
NamedImageExists ==
  library.named /\ image = NoImage => slip \/ \E r \in Editors : Removing(r)

(* The defaults at the time of its creation decide what a video is encoded     *)
(* with, whatever becomes of them later and whatever codecs are added: no      *)
(* encode of it has other rungs, and none shows a watermark, or fails for want *)
(* of one, where the watermark was off.                                      *)
SnapshotDecides ==
  \A v \in LibraryVideos, b \in BuildKinds :
    /\ ladder[v][b] \in Encodings =>
         /\ ladder[v][b].rungs = created[v].rungs
         /\ ladder[v][b].mark # NoImage <=> created[v].enabled
    /\ ladder[v][b] = Failed => created[v].enabled

(* What a request did not mean to change it changes only when another wrote    *)
(* between its read and its save: an upload or a removal of the watermark      *)
(* keeps the other settings, and the form keeps whether there is an image.      *)
Undoes(r) ==
  \/ NameWatermark(r) /\ library'.rungs # library.rungs
  \/ UnnameWatermark(r) /\ library'.rungs # library.rungs
  \/ SaveForm(r) /\ library'.named # library.named

OnlyOvertakenSavesUndo ==
  [][\A r \in Editors : Undoes(r) => editor[r].overtaken]_settingsVars
=============================================================================
