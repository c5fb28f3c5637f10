------------------------------ MODULE FolderTree ------------------------------
(***************************************************************************)
(* The folders of the libraries: a tree kept as a parent_id per row, and the *)
(* folder a video lies in. A request makes several statements, each of them *)
(* a transaction of its own, so that requests interleave between the check  *)
(* of a parent, the walk up from it and the write. Names are left out.      *)
(***************************************************************************)
EXTENDS FiniteSets

CONSTANTS
  Folders,       (* the ids CreateFolder can draw, each used once           *)
  Videos,
  Libraries,
  LibraryOf,     (* the library of a video, and of a folder from its birth  *)
  FolderRequests (* HTTP requests served at the same time                   *)

CONSTANTS
  Root,          (* parent_id NULL: at the root of the library              *)
  Unborn,        (* no row yet                                              *)
  Gone           (* the row was deleted                                     *)

ASSUME TreeAssumption ==
  /\ LibraryOf \in [Folders \cup Videos -> Libraries]
  /\ {Root, Unborn, Gone} \cap Folders = {}
  /\ Root \notin {Unborn, Gone} /\ Unborn # Gone

VARIABLES
  parent,        (* folders.parent_id                                       *)
  folderOf,      (* videos.folder_id                                        *)
  freq           (* per request: its step, its folder or video, its target, *)
                 (* the place of its walk, and as history whether a move    *)
                 (* was written since the target was checked                *)

treeVars == <<parent, folderOf, freq>>

Places == Folders \cup {Root}

NoRequest == [at |-> "idle", id |-> Root, to |-> Root, cur |-> Root,
              overtaken |-> FALSE]

Present(f) == f \in Folders /\ parent[f] \notin {Unborn, Gone}

-----------------------------------------------------------------------------
(* Statements *)

FolderInLibrary(library, f) == Present(f) /\ LibraryOf[f] = library

(* ON DELETE CASCADE: the rows a delete takes with it.                        *)
ClosedDown(S) == \A g \in Folders : Present(g) /\ parent[g] \in S => g \in S

Subtree(f) ==
  {g \in Folders : \A S \in SUBSET Folders : f \in S /\ ClosedDown(S) => g \in S}

(* Every folder hangs, through its parents, under the root.                  *)
Forest ==
  \A S \in SUBSET Folders :
    S # {} => \E g \in S : ~Present(g) \/ parent[g] \notin S

-----------------------------------------------------------------------------
(* Requests *)

Begin(r, at, id, to, cur) ==
  /\ freq[r].at = "idle"
  /\ freq' = [freq EXCEPT ![r] = [at |-> at, id |-> id, to |-> to, cur |-> cur,
                                  overtaken |-> FALSE]]
  /\ UNCHANGED <<parent, folderOf>>

End(r) == freq' = [freq EXCEPT ![r] = NoRequest]

(* GoodTarget in whatever library.                                           *)
AnyTarget(id, to) == to = Root \/ Present(to)

(* A parent that is not in the library ends the request with ErrInvalidFolder *)
(* before anything is written.                                               *)
GoodTarget(id, to) == to = Root \/ FolderInLibrary(LibraryOf[id], to)

(* The id is fresh: a request never draws one another request has drawn.     *)
CreateFolder(r) ==
  \E f \in Folders, p \in Places :
    /\ parent[f] = Unborn
    /\ \A q \in FolderRequests : freq[q].at = "insert" => freq[q].id # f
    /\ GoodTarget(f, p)
    /\ Begin(r, "insert", f, p, Root)

(* The foreign key refuses a parent that has gone since.                     *)
InsertFolder(r) ==
  /\ freq[r].at = "insert"
  /\ parent' = IF freq[r].to = Root \/ Present(freq[r].to)
               THEN [parent EXCEPT ![freq[r].id] = freq[r].to]
               ELSE parent
  /\ End(r)
  /\ UNCHANGED folderOf

(* CheckTarget that leaves the walk out.                                      *)
TrustTarget(r, f, to) ==
  /\ to # f /\ GoodTarget(f, to)
  /\ Begin(r, "write", f, to, to)

CheckTarget(r, f, to) ==
  /\ to # f /\ GoodTarget(f, to)
  /\ Begin(r, IF to = Root THEN "write" ELSE "walk", f, to, to)

(* The id comes from the URL: it may name no folder any more. A move to the *)
(* root is written without a walk.                                           *)
UpdateFolder(r) ==
  \E f \in Folders, to \in Places :
    /\ parent[f] # Unborn
    /\ CheckTarget(r, f, to)

(* One round of the loop: the walk stops at the folder itself, at the root   *)
(* and where a row is missing.                                               *)
WalkUp(r) ==
  LET cur == freq[r].cur IN
  /\ freq[r].at = "walk"
  /\ \/ cur = freq[r].id /\ End(r)
     \/ /\ cur # freq[r].id
        /\ FolderInLibrary(LibraryOf[freq[r].id], cur)
        /\ freq' = IF parent[cur] = Root
                   THEN [freq EXCEPT ![r].at = "write", ![r].cur = Root]
                   ELSE [freq EXCEPT ![r].cur = parent[cur]]
     \/ /\ cur # freq[r].id
        /\ ~FolderInLibrary(LibraryOf[freq[r].id], cur)
        /\ freq' = [freq EXCEPT ![r].at = "write", ![r].cur = Root]
  /\ UNCHANGED <<parent, folderOf>>

CanHang(r) ==
  /\ Present(freq[r].id)
  /\ freq[r].to = Root \/ Present(freq[r].to)

WriteParent(r) ==
  /\ freq[r].at = "write"
  /\ IF CanHang(r)
     THEN /\ parent' = [parent EXCEPT ![freq[r].id] = freq[r].to]
          /\ freq' = [q \in FolderRequests |->
                        IF q = r THEN NoRequest
                        ELSE [freq[q] EXCEPT !.overtaken =
                                freq[q].at \in {"walk", "write"}]]
     ELSE UNCHANGED parent /\ End(r)
  /\ UNCHANGED folderOf

(* DELETE of one row; the foreign keys remove the subfolders and set the     *)
(* folder of the videos inside to NULL.                                      *)
DeleteFolder(f) ==
  /\ Present(f)
  /\ parent' = [g \in Folders |-> IF g \in Subtree(f) THEN Gone ELSE parent[g]]
  /\ folderOf' = [v \in Videos |->
                    IF folderOf[v] \in Subtree(f) THEN Root ELSE folderOf[v]]
  /\ UNCHANGED freq

MoveVideo(r) ==
  \E v \in Videos, to \in Places :
    /\ GoodTarget(v, to)
    /\ Begin(r, "writeVideo", v, to, Root)

WriteVideoFolder(r) ==
  /\ freq[r].at = "writeVideo"
  /\ folderOf' = IF freq[r].to = Root \/ Present(freq[r].to)
                 THEN [folderOf EXCEPT ![freq[r].id] = freq[r].to]
                 ELSE folderOf
  /\ End(r)
  /\ UNCHANGED parent

(* The client has gone: the next statement fails with the request's context. *)
Abandon(r) ==
  /\ freq[r].at # "idle"
  /\ End(r)
  /\ UNCHANGED <<parent, folderOf>>

-----------------------------------------------------------------------------
TreeInit ==
  /\ parent = [f \in Folders |-> Unborn]
  /\ folderOf = [v \in Videos |-> Root]
  /\ freq = [r \in FolderRequests |-> NoRequest]

TreeRequest(r) ==
  \/ CreateFolder(r) \/ InsertFolder(r)
  \/ UpdateFolder(r) \/ WalkUp(r) \/ WriteParent(r)
  \/ MoveVideo(r) \/ WriteVideoFolder(r)
  \/ Abandon(r)

TreeNext ==
  \/ \E r \in FolderRequests : TreeRequest(r)
  \/ \E f \in Folders : DeleteFolder(f)

TreeSpec == TreeInit /\ [][TreeNext]_treeVars

-----------------------------------------------------------------------------
(* Properties *)

Steps == {"idle", "insert", "walk", "write", "writeVideo"}

(* The types of the folder rows and of the requests on them.                 *)
TreeTypeOK ==
  /\ parent \in [Folders -> Places \cup {Unborn, Gone}]
  /\ folderOf \in [Videos -> Places]
  /\ freq \in [FolderRequests ->
                 [at : Steps, id : Places \cup Videos, to : Places, cur : Places,
                  overtaken : BOOLEAN]]

(* Folders and videos hang under folders that exist and belong to the same   *)
(* library, whatever requests and deletes come between the check of a parent *)
(* and the write (db/folders.go: folderInLibrary and the foreign keys).       *)
StaysInLibrary ==
  /\ \A f \in Folders : Present(f) /\ parent[f] # Root =>
       Present(parent[f]) /\ LibraryOf[parent[f]] = LibraryOf[f]
  /\ \A v \in Videos : folderOf[v] # Root =>
       Present(folderOf[v]) /\ LibraryOf[folderOf[v]] = LibraryOf[v]

(* A cycle comes only from a move that another move has overtaken between    *)
(* the check of its target and its write (db/folders.go: MoveFolder).         *)
OnlyOvertakenMovesTangle ==
  [][Forest => Forest' \/ \E r \in FolderRequests :
                            freq[r].at = "write" /\ freq[r].overtaken]_treeVars
=============================================================================
