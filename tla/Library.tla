------------------------------- MODULE Library -------------------------------
(***************************************************************************)
(* What a library keeps beside its videos, in rows of its own: the folders, *)
(* the viewers' progress and the encoding defaults. They share no state.    *)
(***************************************************************************)
EXTENDS FolderTree, ViewerProgress, LibrarySettings

(* The type invariants of the three parts: every row is one that the schema    *)
(* and the handlers can write (db.go, folders.go, progress.go, settings.go).   *)
TypesOK == TreeTypeOK /\ ProgressTypeOK /\ SettingsTypeOK

(* Each part lives its own life beside the others.                            *)
LibrarySpec == TreeSpec /\ ProgressSpec /\ SettingsSpec
=============================================================================
