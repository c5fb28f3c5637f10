---------------------------- MODULE LibraryProofs ----------------------------
(***************************************************************************)
(* Proofs about what a library keeps: its folders, for any folders, videos, *)
(* libraries and number of requests at a time; its viewers' progress, for   *)
(* any viewers, videos, lengths, positions, times to live and retention;     *)
(* its encoding defaults, for any editors, images, codecs and rungs; what a  *)
(* credential may ask of it, for any burst, refill, idle time and number of  *)
(* ticks, provided that an idle bucket is full again before it is dropped;   *)
(* and the rollups of what was watched, for any videos, sessions, countries, *)
(* beacons, days and numbers of them.                                        *)
(***************************************************************************)
EXTENDS Library, RateLimit, PlaybackAnalytics, DataLemmas

-----------------------------------------------------------------------------
(* Folders: type correctness. *)

Freqs == [at : Steps, id : Places \cup Videos, to : Places, cur : Places,
          overtaken : BOOLEAN]

LEMMA IdleTyped == NoRequest \in Freqs
  BY DEF NoRequest, Freqs, Steps, Places

LEMMA WalkTyped ==
  ASSUME NEW q \in Freqs, NEW a \in Steps, NEW c \in Places
  PROVE  /\ [q EXCEPT !.at = a, !.cur = c] \in Freqs
         /\ [q EXCEPT !.cur = c] \in Freqs
  BY DEF Freqs

LEMMA OvertakenTyped ==
  ASSUME NEW q \in Freqs, NEW b \in BOOLEAN
  PROVE  [q EXCEPT !.overtaken = b] \in Freqs
  BY DEF Freqs

LEMMA OvertakenOnly ==
  ASSUME NEW q \in Freqs, NEW b \in BOOLEAN, NEW z,
         z = [q EXCEPT !.overtaken = b]
  PROVE  /\ z.at = q.at /\ z.id = q.id /\ z.to = q.to /\ z.cur = q.cur
         /\ b => z.overtaken
  BY DEF Freqs

LEMMA EndTyped ==
  ASSUME TreeTypeOK, NEW r \in FolderRequests, End(r)
  PROVE  freq' \in [FolderRequests -> Freqs]
  BY IdleTyped DEF TreeTypeOK, End, Freqs

LEMMA BeginTyped ==
  ASSUME TreeTypeOK, NEW r \in FolderRequests, NEW at \in Steps,
         NEW id \in Folders \cup Videos, NEW to \in Places, NEW cur \in Places,
         Begin(r, at, id, to, cur)
  PROVE  TreeTypeOK'
  BY DEF TreeTypeOK, Begin, Places

(* A folder that is there has a place for its parent. *)
LEMMA PresentHangs ==
  ASSUME TreeTypeOK, NEW f, Present(f)
  PROVE  f \in Folders /\ parent[f] \in Places
  BY DEF TreeTypeOK, Present

LEMMA TreeRequestTyped ==
  ASSUME TreeTypeOK, NEW r \in FolderRequests, TreeRequest(r)
  PROVE  TreeTypeOK'
<1>1. CASE CreateFolder(r)
  BY <1>1, BeginTyped DEF CreateFolder, Steps, Places
<1>2. CASE InsertFolder(r)
  BY <1>2, EndTyped DEF InsertFolder, TreeTypeOK, Freqs
<1>3. CASE UpdateFolder(r)
  <2>1. PICK f \in Folders, to \in Places : CheckTarget(r, f, to)
    BY <1>3 DEF UpdateFolder
  <2>2. (IF to = Root THEN "write" ELSE "walk") \in Steps
    BY DEF Steps
  <2> QED BY <2>1, <2>2, BeginTyped DEF CheckTarget
<1>4. CASE WalkUp(r)
  <2>1. freq[r].cur \in Places
    BY DEF TreeTypeOK
  <2>2. freq' \in [FolderRequests -> Freqs]
    <3>1. CASE End(r)
      BY <3>1, EndTyped
    <3>2. ASSUME NEW c \in Places,
                 \/ freq' = [freq EXCEPT ![r].at = "write", ![r].cur = c]
                 \/ freq' = [freq EXCEPT ![r].cur = c]
          PROVE  freq' \in [FolderRequests -> Freqs]
      <4>1. freq \in [FolderRequests -> Freqs] /\ "write" \in Steps
        BY DEF TreeTypeOK, Freqs, Steps
      <4>2. /\ [freq[r] EXCEPT !.at = "write", !.cur = c] \in Freqs
            /\ [freq[r] EXCEPT !.cur = c] \in Freqs
        BY <4>1, <3>2, WalkTyped
      <4> QED BY <3>2, <4>1, <4>2
    <3>3. Root \in Places
      BY DEF Places
    <3>4. FolderInLibrary(LibraryOf[freq[r].id], freq[r].cur)
            => parent[freq[r].cur] \in Places
      BY PresentHangs DEF FolderInLibrary
    <3> QED BY <1>4, <3>1, <3>2, <3>3, <3>4 DEF WalkUp
  <2> QED BY <1>4, <2>2 DEF WalkUp, TreeTypeOK, Freqs
<1>5. CASE WriteParent(r)
  <2>1. freq' \in [FolderRequests -> Freqs]
    <3>1. \A q \in FolderRequests :
            [freq[q] EXCEPT !.overtaken = freq[q].at \in {"walk", "write"}] \in Freqs
      <4> SUFFICES ASSUME NEW q \in FolderRequests
                   PROVE  [freq[q] EXCEPT !.overtaken =
                             freq[q].at \in {"walk", "write"}] \in Freqs
        OBVIOUS
      <4>1. freq[q] \in Freqs
        BY DEF TreeTypeOK, Freqs
      <4>2. (freq[q].at \in {"walk", "write"}) \in BOOLEAN
        OBVIOUS
      <4> QED BY <4>1, <4>2, OvertakenTyped, Zenon
    <3>2. CASE CanHang(r)
      <4>1. freq' = [q \in FolderRequests |->
                      IF q = r THEN NoRequest
                      ELSE [freq[q] EXCEPT !.overtaken =
                              freq[q].at \in {"walk", "write"}]]
        BY <1>5, <3>2 DEF WriteParent
      <4> QED BY <3>1, <4>1, IdleTyped
    <3>3. CASE ~CanHang(r)
      BY <1>5, <3>3, EndTyped DEF WriteParent
    <3> QED BY <3>2, <3>3
  <2>2. parent' \in [Folders -> Places \cup {Unborn, Gone}]
    BY <1>5 DEF WriteParent, TreeTypeOK
  <2> QED BY <1>5, <2>1, <2>2 DEF WriteParent, TreeTypeOK, Freqs
<1>6. CASE MoveVideo(r)
  BY <1>6, BeginTyped DEF MoveVideo, Steps, Places
<1>7. CASE WriteVideoFolder(r)
  BY <1>7, EndTyped DEF WriteVideoFolder, TreeTypeOK, Freqs
<1>8. CASE Abandon(r)
  BY <1>8, EndTyped DEF Abandon, TreeTypeOK, Freqs
<1> QED BY <1>1, <1>2, <1>3, <1>4, <1>5, <1>6, <1>7, <1>8 DEF TreeRequest

LEMMA DeleteTyped ==
  ASSUME TreeTypeOK, NEW f \in Folders, DeleteFolder(f)
  PROVE  TreeTypeOK'
  BY DEF TreeTypeOK, DeleteFolder, Places

(* The rows of the folders and the requests on them keep their types, for any *)
(* folders, libraries and requests (db/folders.go).                           *)
THEOREM TreeTypesCorrect == TreeSpec => []TreeTypeOK
<1>1. TreeInit => TreeTypeOK
  BY IdleTyped DEF TreeInit, TreeTypeOK, Freqs, Places
<1>2. TreeTypeOK /\ [TreeNext]_treeVars => TreeTypeOK'
  <2> SUFFICES ASSUME TreeTypeOK, [TreeNext]_treeVars PROVE TreeTypeOK'
    OBVIOUS
  <2>1. CASE UNCHANGED treeVars
    BY <2>1 DEF treeVars, TreeTypeOK
  <2> QED BY <2>1, TreeRequestTyped, DeleteTyped DEF TreeNext
<1> QED BY <1>1, <1>2, PTL DEF TreeSpec

-----------------------------------------------------------------------------
(* What a request that has passed its checks still relies on. *)

(* The folder or video is of the library of the target. *)
Aimed(r) ==
  /\ freq[r].at \in {"insert", "walk", "write"} => freq[r].id \in Folders
  /\ freq[r].at = "writeVideo" => freq[r].id \in Videos
  /\ freq[r].at # "idle" /\ freq[r].to # Root =>
       LibraryOf[freq[r].to] = LibraryOf[freq[r].id]

(* An id drawn for a new folder is no one else's. *)
Fresh(r) ==
  freq[r].at = "insert" =>
    /\ parent[freq[r].id] = Unborn
    /\ \A q \in FolderRequests \ {r} :
         freq[q].at = "insert" => freq[q].id # freq[r].id

(* The places of a walk: folders born before, in the library. *)
Walking(r) ==
  /\ freq[r].at = "walk" =>
       /\ freq[r].cur \in Folders
       /\ parent[freq[r].cur] # Unborn
       /\ LibraryOf[freq[r].cur] = LibraryOf[freq[r].id]
  /\ freq[r].at = "write" => freq[r].cur = Root

(* C is what a walk from the folder to, now at cur, has left behind: without  *)
(* the folder id, and closed upwards but for cur.                             *)
Climbed(C, id, to, cur) ==
  /\ id \notin C
  /\ to \in C \cup {cur}
  /\ \A g \in C : /\ parent[g] # Unborn
                  /\ parent[g] \in Folders => parent[g] \in C \cup {cur}

(* As long as no move came in between, the walk has left such a set behind.   *)
Climbing(r) ==
  freq[r].at \in {"walk", "write"} /\ ~freq[r].overtaken =>
    \E C \in SUBSET Folders : Climbed(C, freq[r].id, freq[r].to, freq[r].cur)

Reliable(r) == Aimed(r) /\ Fresh(r) /\ Walking(r) /\ Climbing(r)

TreeInv == TreeTypeOK /\ StaysInLibrary /\ \A r \in FolderRequests : Reliable(r)

LEMMA InitReliable == TreeInit => TreeInv
<1> SUFFICES ASSUME TreeInit PROVE TreeInv
  OBVIOUS
<1>1. TreeTypeOK
  BY IdleTyped DEF TreeInit, TreeTypeOK, Freqs, Places
<1>2. StaysInLibrary
  BY DEF TreeInit, StaysInLibrary, Present
<1>3. \A r \in FolderRequests : Reliable(r)
  BY DEF TreeInit, NoRequest, Reliable, Aimed, Fresh, Walking, Climbing
<1> QED BY <1>1, <1>2, <1>3 DEF TreeInv

-----------------------------------------------------------------------------
(* Folders and videos stay in their library. *)

(* A folder hung, new or anew, under a folder of its library that is there. *)
LEMMA HangStays ==
  ASSUME TreeTypeOK, StaysInLibrary, NEW id \in Folders, NEW to \in Places,
         to = Root \/ Present(to),
         to # Root => LibraryOf[to] = LibraryOf[id],
         parent' = [parent EXCEPT ![id] = to], UNCHANGED folderOf
  PROVE  StaysInLibrary'
<1>1. \A g : Present(g) => Present(g)'
  BY TreeAssumption DEF TreeTypeOK, Present, Places
<1>2. ASSUME NEW f \in Folders, Present(f)', parent'[f] # Root
      PROVE  Present(parent[f])' /\ LibraryOf[parent'[f]] = LibraryOf[f]
  <2>1. CASE f = id
    <3>1. parent'[f] = to
      BY <2>1 DEF TreeTypeOK
    <3>2. Present(to)'
      BY <1>1, <1>2, <3>1
    <3> QED BY <1>2, <2>1, <3>1, <3>2 DEF Present
  <2>2. CASE f # id
    <3>1. parent'[f] = parent[f]
      BY <2>2 DEF TreeTypeOK
    <3>2. Present(f)
      BY <1>2, <3>1 DEF Present
    <3>3. Present(parent[f]) /\ LibraryOf[parent[f]] = LibraryOf[f]
      BY <1>2, <3>1, <3>2 DEF StaysInLibrary
    <3>4. PICK g : g = parent[f]
      OBVIOUS
    <3>5. Present(g)
      BY <3>3, <3>4 DEF Present
    <3>6. Present(g)'
      BY <3>5, <1>1
    <3> QED BY <3>1, <3>3, <3>4, <3>6 DEF Present
  <2> QED BY <2>1, <2>2
<1>3. ASSUME NEW v \in Videos, folderOf'[v] # Root
      PROVE  Present(folderOf[v])' /\ LibraryOf[folderOf'[v]] = LibraryOf[v]
  <2>1. PICK g : g = folderOf[v]
    OBVIOUS
  <2>2. Present(g) /\ LibraryOf[g] = LibraryOf[v]
    BY <1>3, <2>1 DEF StaysInLibrary, Present
  <2>3. Present(g)'
    BY <2>2, <1>1
  <2> QED BY <2>1, <2>2, <2>3 DEF Present
<1> QED BY <1>2, <1>3 DEF StaysInLibrary

(* What hangs under a removed folder is removed with it. *)
LEMMA SubtreeClosed ==
  ASSUME NEW f \in Folders, NEW g, Present(g), parent[g] \in Subtree(f)
  PROVE  g \in Subtree(f)
<1>1. g \in Folders
  BY DEF Present
<1>2. ASSUME NEW S \in SUBSET Folders, f \in S, ClosedDown(S)
      PROVE  g \in S
  <2>1. parent[g] \in S
    BY <1>2 DEF Subtree
  <2> QED BY <1>1, <1>2, <2>1 DEF ClosedDown
<1> QED BY <1>1, <1>2 DEF Subtree

LEMMA DeleteStays ==
  ASSUME TreeTypeOK, StaysInLibrary, NEW f \in Folders, DeleteFolder(f)
  PROVE  StaysInLibrary'
<1>1. \A g \in Folders : g \notin Subtree(f) => parent'[g] = parent[g]
  BY DEF DeleteFolder
<1>2. \A g \in Folders : Present(g)' => g \notin Subtree(f)
  BY DEF DeleteFolder, Present
<1>3. ASSUME NEW g \in Folders, Present(g)', parent'[g] # Root
      PROVE  Present(parent[g])' /\ LibraryOf[parent'[g]] = LibraryOf[g]
  <2>1. g \notin Subtree(f) /\ parent'[g] = parent[g]
    BY <1>1, <1>2, <1>3
  <2>2. Present(g)
    BY <1>3, <2>1 DEF Present
  <2>3. Present(parent[g]) /\ LibraryOf[parent[g]] = LibraryOf[g]
    BY <1>3, <2>1, <2>2 DEF StaysInLibrary
  <2>4. parent[g] \notin Subtree(f)
    BY <2>1, <2>2, SubtreeClosed
  <2>5. parent'[parent[g]] = parent[parent[g]] /\ parent[g] \in Folders
    BY <1>1, <2>3, <2>4 DEF Present
  <2> QED BY <2>1, <2>3, <2>5 DEF Present
<1>4. ASSUME NEW v \in Videos, folderOf'[v] # Root
      PROVE  Present(folderOf[v])' /\ LibraryOf[folderOf'[v]] = LibraryOf[v]
  <2>1. folderOf'[v] = folderOf[v] /\ folderOf[v] \notin Subtree(f)
    BY <1>4 DEF DeleteFolder
  <2>2. Present(folderOf[v]) /\ LibraryOf[folderOf[v]] = LibraryOf[v]
    BY <1>4, <2>1 DEF StaysInLibrary
  <2>3. parent'[folderOf[v]] = parent[folderOf[v]] /\ folderOf[v] \in Folders
    BY <1>1, <2>1, <2>2 DEF Present
  <2> QED BY <2>1, <2>2, <2>3 DEF Present
<1> QED BY <1>3, <1>4 DEF StaysInLibrary

LEMMA StepStays ==
  ASSUME TreeInv, [TreeNext]_treeVars
  PROVE  StaysInLibrary'
<1> USE DEF TreeInv
<1>1. CASE UNCHANGED parent /\ UNCHANGED folderOf
  BY <1>1 DEF StaysInLibrary, Present
<1>2. ASSUME NEW r \in FolderRequests, InsertFolder(r) PROVE StaysInLibrary'
  <2>1. CASE freq[r].to = Root \/ Present(freq[r].to)
    <3>1. PICK id \in Folders, to \in Places : id = freq[r].id /\ to = freq[r].to
      BY <1>2 DEF InsertFolder, Reliable, Aimed, TreeTypeOK
    <3>2. to = Root \/ Present(to)
      BY <2>1, <3>1 DEF Present
    <3>3. to # Root => LibraryOf[to] = LibraryOf[id]
      BY <1>2, <3>1 DEF InsertFolder, Reliable, Aimed
    <3>4. parent' = [parent EXCEPT ![id] = to] /\ UNCHANGED folderOf
      BY <1>2, <2>1, <3>1 DEF InsertFolder
    <3> QED BY <3>2, <3>3, <3>4, HangStays
  <2>2. CASE ~(freq[r].to = Root \/ Present(freq[r].to))
    BY <1>1, <1>2, <2>2 DEF InsertFolder
  <2> QED BY <2>1, <2>2
<1>3. ASSUME NEW r \in FolderRequests, WriteParent(r) PROVE StaysInLibrary'
  <2>1. CASE CanHang(r)
    <3>1. PICK id \in Folders, to \in Places : id = freq[r].id /\ to = freq[r].to
      BY <1>3 DEF WriteParent, Reliable, Aimed, TreeTypeOK
    <3>2. to = Root \/ Present(to)
      BY <2>1, <3>1 DEF CanHang, Present
    <3>3. to # Root => LibraryOf[to] = LibraryOf[id]
      BY <1>3, <3>1 DEF WriteParent, Reliable, Aimed
    <3>4. parent' = [parent EXCEPT ![id] = to] /\ UNCHANGED folderOf
      BY <1>3, <2>1, <3>1 DEF WriteParent
    <3> QED BY <3>2, <3>3, <3>4, HangStays
  <2>2. CASE ~CanHang(r)
    BY <1>1, <1>3, <2>2 DEF WriteParent
  <2> QED BY <2>1, <2>2
<1>4. ASSUME NEW r \in FolderRequests, WriteVideoFolder(r) PROVE StaysInLibrary'
  <2>1. CASE freq[r].to = Root \/ Present(freq[r].to)
    <3>1. folderOf' = [folderOf EXCEPT ![freq[r].id] = freq[r].to] /\ UNCHANGED parent
      BY <1>4, <2>1 DEF WriteVideoFolder
    <3>2. freq[r].id \in Videos
          /\ (freq[r].to # Root => LibraryOf[freq[r].to] = LibraryOf[freq[r].id])
      BY <1>4 DEF WriteVideoFolder, Reliable, Aimed
    <3> QED BY <2>1, <3>1, <3>2 DEF StaysInLibrary, Present, TreeTypeOK
  <2>2. CASE ~(freq[r].to = Root \/ Present(freq[r].to))
    BY <1>1, <1>4, <2>2 DEF WriteVideoFolder
  <2> QED BY <2>1, <2>2
<1>5. ASSUME NEW r \in FolderRequests,
             \/ CreateFolder(r) \/ UpdateFolder(r) \/ WalkUp(r) \/ MoveVideo(r)
             \/ Abandon(r)
      PROVE  StaysInLibrary'
  BY <1>1, <1>5 DEF CreateFolder, UpdateFolder, CheckTarget, WalkUp, MoveVideo,
     Abandon, Begin
<1> QED BY <1>1, <1>2, <1>3, <1>4, <1>5, DeleteStays
        DEF TreeNext, TreeRequest, treeVars

-----------------------------------------------------------------------------
(* The requests keep what they rely on. *)

(* A request that is over, or writes a video's folder, relies on little. *)
LEMMA IdleReliable ==
  ASSUME NEW r \in FolderRequests, freq[r].at = "idle"
  PROVE  Reliable(r)
  BY DEF Reliable, Aimed, Fresh, Walking, Climbing

(* A request that stands still keeps what it has, as long as no row it knows   *)
(* is moved, born or drawn.                                                   *)
LEMMA OtherReliable ==
  ASSUME NEW r \in FolderRequests, Reliable(r), freq'[r] = freq[r],
         \A g \in Folders : parent'[g] = parent[g] \/ parent'[g] = Gone,
         freq[r].at = "insert" =>
           /\ parent'[freq[r].id] = parent[freq[r].id]
           /\ \A q \in FolderRequests \ {r} :
                freq'[q].at = "insert" => freq'[q].id # freq[r].id
  PROVE  Reliable(r)'
<1>1. Aimed(r)'
  BY DEF Reliable, Aimed
<1>2. Fresh(r)'
  BY DEF Reliable, Fresh
<1>3. Walking(r)'
  BY TreeAssumption DEF Reliable, Walking
<1>4. Climbing(r)'
  <2> SUFFICES ASSUME freq[r].at \in {"walk", "write"}, ~freq[r].overtaken
               PROVE  (\E C \in SUBSET Folders :
                         Climbed(C, freq[r].id, freq[r].to, freq[r].cur))'
    BY DEF Climbing
  <2>1. PICK C \in SUBSET Folders :
          Climbed(C, freq[r].id, freq[r].to, freq[r].cur)
    BY DEF Reliable, Climbing
  <2>2. \A g \in C : parent'[g] # Unborn
                     /\ (parent'[g] \in Folders => parent'[g] \in C \cup {freq[r].cur})
    BY <2>1, TreeAssumption DEF Climbed
  <2> QED BY <2>1, <2>2 DEF Climbed
<1> QED BY <1>1, <1>2, <1>3, <1>4 DEF Reliable

LEMMA EndReliable ==
  ASSUME TreeInv, NEW r \in FolderRequests, End(r), UNCHANGED parent,
         NEW p \in FolderRequests
  PROVE  Reliable(p)'
<1>1. CASE p = r
  <2>1. freq'[p].at = "idle"
    BY <1>1 DEF TreeInv, TreeTypeOK, End, NoRequest
  <2> QED BY <2>1 DEF Reliable, Aimed, Fresh, Walking, Climbing
<1>2. CASE p # r
  <2>1. freq'[p] = freq[p]
    BY <1>2 DEF TreeInv, TreeTypeOK, End
  <2>2. \A q \in FolderRequests :
          freq'[q].at = "insert" => freq'[q] = freq[q]
    BY DEF TreeInv, TreeTypeOK, End, NoRequest
  <2> QED BY <2>1, <2>2, OtherReliable DEF TreeInv, Reliable, Fresh
<1> QED BY <1>1, <1>2

LEMMA CreateReliable ==
  ASSUME TreeInv, NEW r \in FolderRequests, CreateFolder(r),
         NEW p \in FolderRequests
  PROVE  Reliable(p)'
<1>1. PICK f \in Folders, to \in Places :
        /\ parent[f] = Unborn
        /\ \A q \in FolderRequests : freq[q].at = "insert" => freq[q].id # f
        /\ GoodTarget(f, to)
        /\ Begin(r, "insert", f, to, Root)
  BY DEF CreateFolder
<1>2. /\ freq' = [freq EXCEPT ![r] = [at |-> "insert", id |-> f, to |-> to,
                                      cur |-> Root, overtaken |-> FALSE]]
      /\ UNCHANGED parent
  BY <1>1 DEF Begin
<1>3. CASE p = r
  <2>1. to # Root => LibraryOf[to] = LibraryOf[f]
    BY <1>1 DEF GoodTarget, FolderInLibrary
  <2> QED BY <1>1, <1>2, <1>3, <2>1
          DEF TreeInv, TreeTypeOK, Reliable, Aimed, Fresh, Walking, Climbing
<1>4. CASE p # r
  BY <1>1, <1>2, <1>4, OtherReliable DEF TreeInv, TreeTypeOK, Reliable, Fresh
<1> QED BY <1>3, <1>4

LEMMA UpdateReliable ==
  ASSUME TreeInv, NEW r \in FolderRequests, UpdateFolder(r),
         NEW p \in FolderRequests
  PROVE  Reliable(p)'
<1>1. PICK f \in Folders, to \in Places :
        parent[f] # Unborn /\ CheckTarget(r, f, to)
  BY DEF UpdateFolder
<1>2. PICK at : /\ at = IF to = Root THEN "write" ELSE "walk"
                /\ freq' = [freq EXCEPT ![r] = [at |-> at, id |-> f, to |-> to,
                                                cur |-> to, overtaken |-> FALSE]]
                /\ UNCHANGED parent
  BY <1>1 DEF CheckTarget, Begin
<1>3. CASE p = r
  <2>1. freq'[p] = [at |-> at, id |-> f, to |-> to, cur |-> to, overtaken |-> FALSE]
    BY <1>2, <1>3 DEF TreeInv, TreeTypeOK
  <2>2. to # Root => /\ to \in Folders /\ parent[to] # Unborn
                     /\ LibraryOf[to] = LibraryOf[f]
    BY <1>1 DEF CheckTarget, GoodTarget, FolderInLibrary, Present
  <2>3. Climbed({}, f, to, to)'
    BY DEF Climbed
  <2>4. Climbing(p)'
    BY <2>1, <2>3 DEF Climbing
  <2>5. Aimed(p)' /\ Fresh(p)' /\ Walking(p)'
    BY <1>2, <2>1, <2>2 DEF Aimed, Fresh, Walking
  <2> QED BY <2>4, <2>5 DEF Reliable
<1>4. CASE p # r
  BY <1>2, <1>4, OtherReliable DEF TreeInv, TreeTypeOK, Reliable, Fresh
<1> QED BY <1>3, <1>4

LEMMA MoveVideoReliable ==
  ASSUME TreeInv, NEW r \in FolderRequests, MoveVideo(r),
         NEW p \in FolderRequests
  PROVE  Reliable(p)'
<1>1. PICK v \in Videos, to \in Places :
        GoodTarget(v, to) /\ Begin(r, "writeVideo", v, to, Root)
  BY DEF MoveVideo
<1>2. /\ freq' = [freq EXCEPT ![r] = [at |-> "writeVideo", id |-> v, to |-> to,
                                      cur |-> Root, overtaken |-> FALSE]]
      /\ UNCHANGED parent
  BY <1>1 DEF Begin
<1>3. CASE p = r
  <2>1. to # Root => LibraryOf[to] = LibraryOf[v]
    BY <1>1 DEF GoodTarget, FolderInLibrary
  <2> QED BY <1>1, <1>2, <1>3, <2>1
          DEF TreeInv, TreeTypeOK, Reliable, Aimed, Fresh, Walking, Climbing
<1>4. CASE p # r
  BY <1>2, <1>4, OtherReliable DEF TreeInv, TreeTypeOK, Reliable, Fresh
<1> QED BY <1>3, <1>4

(* One step up a walk: what it leaves behind grows by one folder. *)
LEMMA WalkReliable ==
  ASSUME TreeInv, NEW r \in FolderRequests, WalkUp(r), NEW p \in FolderRequests
  PROVE  Reliable(p)'
<1>1. CASE End(r)
  BY <1>1, EndReliable DEF WalkUp
<1>2. CASE ~End(r)
  <2>1. PICK id, cur \in Folders, to \in Places :
          id = freq[r].id /\ to = freq[r].to /\ cur = freq[r].cur
    BY DEF TreeInv, TreeTypeOK, Reliable, Aimed, Walking, WalkUp
  <2>2. /\ cur # id /\ parent[cur] # Unborn /\ LibraryOf[cur] = LibraryOf[id]
        /\ id \in Folders
    BY <1>2, <2>1 DEF TreeInv, Reliable, Walking, Aimed, WalkUp
  <2>3. Present(cur) => FolderInLibrary(LibraryOf[id], cur)
    BY <2>2 DEF FolderInLibrary
  <2>4. PICK next \in Places, at \in {"walk", "write"} :
          /\ freq' = [freq EXCEPT ![r].at = at, ![r].cur = next]
          /\ at = "write" => next = Root
          /\ at = "walk" => next \in Folders
          /\ parent[cur] \in Folders => next = parent[cur] /\ at = "walk"
          /\ at = "walk" => next = parent[cur] /\ Present(cur)
    <3>1. CASE ~FolderInLibrary(LibraryOf[id], cur)
      <4>1. freq' = [freq EXCEPT ![r].at = "write", ![r].cur = Root]
        BY <1>2, <2>1, <2>2, <3>1 DEF WalkUp
      <4>2. ~Present(cur) /\ parent[cur] \notin Folders
        BY <2>2, <2>3, <3>1, TreeAssumption DEF Present
      <4> QED BY <4>1, <4>2 DEF Places
    <3>2. CASE FolderInLibrary(LibraryOf[id], cur) /\ parent[cur] = Root
      <4>1. freq' = [freq EXCEPT ![r].at = "write", ![r].cur = Root]
        BY <1>2, <2>1, <2>2, <3>2 DEF WalkUp
      <4> QED BY <3>2, <4>1, TreeAssumption DEF Places
    <3>3. CASE FolderInLibrary(LibraryOf[id], cur) /\ parent[cur] # Root
      <4>1. Present(cur) /\ parent[cur] \in Folders
        BY <3>3, PresentHangs DEF FolderInLibrary, Places, TreeInv
      <4>2. freq' = [freq EXCEPT ![r].cur = parent[cur]] /\ freq[r].at = "walk"
        BY <1>2, <2>1, <2>2, <3>3 DEF WalkUp
      <4>3. freq' = [freq EXCEPT ![r].at = "walk", ![r].cur = parent[cur]]
        BY <4>2 DEF TreeInv, TreeTypeOK
      <4> QED BY <4>1, <4>3 DEF Places
    <3> QED BY <3>1, <3>2, <3>3
  <2>5. CASE p = r
    <3>1. /\ freq'[p].at = at /\ freq'[p].id = id /\ freq'[p].to = to
          /\ freq'[p].cur = next /\ (freq'[p].overtaken <=> freq[p].overtaken)
      <4>1. freq'[p] = [freq[p] EXCEPT !.at = at, !.cur = next]
        BY <2>4, <2>5 DEF TreeInv, TreeTypeOK
      <4>2. freq[p] \in Freqs /\ at \in Steps
        BY DEF TreeInv, TreeTypeOK, Freqs, Steps
      <4>3. /\ freq'[p].at = at /\ freq'[p].id = freq[p].id
            /\ freq'[p].to = freq[p].to /\ freq'[p].cur = next
            /\ freq'[p].overtaken <=> freq[p].overtaken
        BY <4>1, <4>2 DEF Freqs
      <4> QED BY <2>1, <2>5, <4>3
    <3>2. UNCHANGED parent /\ freq[p].at = "walk"
      BY <2>5 DEF WalkUp
    <3>3. at = "walk" => /\ parent[next] # Unborn
                         /\ LibraryOf[next] = LibraryOf[id]
      BY <2>2, <2>4, TreeAssumption DEF TreeInv, StaysInLibrary, Present
    <3>4. Aimed(p)' /\ Fresh(p)' /\ Walking(p)'
      BY <2>1, <2>2, <2>4, <2>5, <3>1, <3>2, <3>3
         DEF TreeInv, Reliable, Aimed, Fresh, Walking
    <3>5. Climbing(p)'
      <4> SUFFICES ASSUME ~freq[p].overtaken
                   PROVE  (\E C \in SUBSET Folders :
                             Climbed(C, freq[p].id, freq[p].to, freq[p].cur))'
        BY <3>1 DEF Climbing
      <4>1. PICK C \in SUBSET Folders : Climbed(C, id, to, cur)
        BY <2>1, <2>5, <3>2 DEF TreeInv, Reliable, Climbing
      <4>2. Climbed(C \cup {cur}, id, to, next)'
        BY <2>2, <2>4, <3>2, <4>1 DEF Climbed
      <4> QED BY <3>1, <4>2
    <3> QED BY <3>4, <3>5 DEF Reliable
  <2>6. CASE p # r
    BY <2>4, <2>6, OtherReliable DEF TreeInv, TreeTypeOK, Reliable, Fresh, WalkUp
  <2> QED BY <2>5, <2>6
<1> QED BY <1>1, <1>2

(* A new folder was in nobody's way. *)
LEMMA InsertReliable ==
  ASSUME TreeInv, NEW r \in FolderRequests, InsertFolder(r),
         NEW p \in FolderRequests
  PROVE  Reliable(p)'
<1>1. CASE UNCHANGED parent
  BY <1>1, EndReliable DEF InsertFolder
<1>2. CASE ~UNCHANGED parent
  <2>1. PICK id \in Folders, to \in Places :
          /\ id = freq[r].id /\ parent[id] = Unborn
          /\ parent' = [parent EXCEPT ![id] = to]
    BY <1>2 DEF InsertFolder, TreeInv, TreeTypeOK, Reliable, Aimed, Fresh
  <2>2. \A g \in Folders : parent[g] # Unborn => parent'[g] = parent[g]
    BY <2>1 DEF TreeInv, TreeTypeOK
  <2>3. CASE p = r
    <3>1. freq'[p].at = "idle"
      BY <2>3 DEF InsertFolder, TreeInv, TreeTypeOK, End, NoRequest
    <3> QED BY <3>1 DEF Reliable, Aimed, Fresh, Walking, Climbing
  <2>4. CASE p # r
    <3>1. freq'[p] = freq[p] /\ Reliable(p)
      BY <2>4 DEF InsertFolder, TreeInv, TreeTypeOK, End
    <3>2. Aimed(p)'
      BY <3>1 DEF Reliable, Aimed
    <3>3. Walking(p)'
      BY <2>2, <3>1 DEF Reliable, Walking
    <3>4. Fresh(p)'
      <4> SUFFICES ASSUME freq[p].at = "insert"
                   PROVE  /\ parent'[freq[p].id] = Unborn
                          /\ \A q \in FolderRequests \ {p} :
                               freq'[q].at = "insert" => freq'[q].id # freq[p].id
        BY <3>1 DEF Fresh
      <4>1. freq[p].id # id
        BY <2>1, <2>4, <3>1 DEF Reliable, Fresh, InsertFolder
      <4>2. parent'[freq[p].id] = Unborn
        BY <2>1, <3>1, <4>1 DEF TreeInv, TreeTypeOK, Reliable, Fresh, Aimed
      <4>3. \A q \in FolderRequests :
              freq'[q].at = "insert" => freq'[q] = freq[q]
        BY DEF InsertFolder, TreeInv, TreeTypeOK, End, NoRequest
      <4> QED BY <3>1, <4>2, <4>3 DEF Reliable, Fresh
    <3>5. Climbing(p)'
      <4> SUFFICES ASSUME freq[p].at \in {"walk", "write"}, ~freq[p].overtaken
                   PROVE  (\E C \in SUBSET Folders :
                             Climbed(C, freq[p].id, freq[p].to, freq[p].cur))'
        BY <3>1 DEF Climbing
      <4>1. PICK C \in SUBSET Folders :
              Climbed(C, freq[p].id, freq[p].to, freq[p].cur)
        BY <3>1 DEF Reliable, Climbing
      <4>2. \A g \in C : parent'[g] = parent[g]
        BY <2>2, <4>1 DEF Climbed
      <4> QED BY <3>1, <4>1, <4>2 DEF Climbed
    <3> QED BY <3>2, <3>3, <3>4, <3>5 DEF Reliable
  <2> QED BY <2>3, <2>4
<1> QED BY <1>1, <1>2

(* A move overtakes every other move that has passed its check. *)
LEMMA WriteReliable ==
  ASSUME TreeInv, NEW r \in FolderRequests, WriteParent(r),
         NEW p \in FolderRequests
  PROVE  Reliable(p)'
<1>1. CASE ~CanHang(r)
  BY <1>1, EndReliable DEF WriteParent
<1>2. CASE CanHang(r)
  <2>1. PICK id \in Folders, to \in Places :
          /\ parent[id] \notin {Unborn, Gone}
          /\ parent' = [parent EXCEPT ![id] = to]
          /\ to # Unborn
    <3>1. freq[r].to \in Places /\ freq[r].to # Unborn
      BY TreeAssumption DEF TreeInv, TreeTypeOK, Places
    <3> QED BY <1>2, <3>1 DEF WriteParent, CanHang, Present
  <2>2. \A g \in Folders : parent'[g] = Unborn <=> parent[g] = Unborn
    BY <2>1 DEF TreeInv, TreeTypeOK
  <2>3. \A q \in FolderRequests : q # r =>
          /\ freq'[q].at = freq[q].at /\ freq'[q].id = freq[q].id
          /\ freq'[q].to = freq[q].to /\ freq'[q].cur = freq[q].cur
          /\ freq[q].at \in {"walk", "write"} => freq'[q].overtaken
    <3> SUFFICES ASSUME NEW q \in FolderRequests, q # r
                 PROVE  /\ freq'[q].at = freq[q].at /\ freq'[q].id = freq[q].id
                        /\ freq'[q].to = freq[q].to /\ freq'[q].cur = freq[q].cur
                        /\ freq[q].at \in {"walk", "write"} => freq'[q].overtaken
      OBVIOUS
    <3>1. freq'[q] = [freq[q] EXCEPT !.overtaken = freq[q].at \in {"walk", "write"}]
      BY <1>2, Zenon DEF WriteParent
    <3>2. freq[q] \in Freqs
      BY DEF TreeInv, TreeTypeOK, Freqs
    <3>3. PICK b : b = (freq[q].at \in {"walk", "write"})
      OBVIOUS
    <3>4. b \in BOOLEAN
      BY <3>3
    <3>5. freq'[q] = [freq[q] EXCEPT !.overtaken = b]
      BY <3>1, <3>3, Zenon
    <3>6. /\ freq'[q].at = freq[q].at /\ freq'[q].id = freq[q].id
          /\ freq'[q].to = freq[q].to /\ freq'[q].cur = freq[q].cur
          /\ b => freq'[q].overtaken
      BY <3>2, <3>4, <3>5, OvertakenOnly
    <3> QED BY <3>3, <3>6
  <2>4. freq'[r].at = "idle"
    BY <1>2 DEF WriteParent, NoRequest
  <2>5. CASE p = r
    BY <2>4, <2>5 DEF Reliable, Aimed, Fresh, Walking, Climbing
  <2>6. CASE p # r
    <3>1. Aimed(p)'
      BY <2>3, <2>6 DEF TreeInv, Reliable, Aimed
    <3>2. Walking(p)'
      BY <2>2, <2>3, <2>6 DEF TreeInv, Reliable, Walking
    <3>3. Fresh(p)'
      <4>1. freq[p].at = "insert" => freq[p].id \in Folders
        BY DEF TreeInv, Reliable, Aimed
      <4> QED BY <2>2, <2>3, <2>4, <2>6, <4>1 DEF TreeInv, Reliable, Fresh
    <3>4. Climbing(p)'
      BY <2>3, <2>6 DEF Climbing
    <3> QED BY <3>1, <3>2, <3>3, <3>4 DEF Reliable
  <2> QED BY <2>5, <2>6
<1> QED BY <1>1, <1>2

LEMMA DeleteReliable ==
  ASSUME TreeInv, NEW f \in Folders, DeleteFolder(f), NEW p \in FolderRequests
  PROVE  Reliable(p)'
<1>1. freq' = freq /\ \A g \in Folders : parent'[g] = parent[g] \/ parent'[g] = Gone
  BY DEF DeleteFolder
<1>2. \A g \in Folders : parent[g] = Unborn => parent'[g] = Unborn
  <2> SUFFICES ASSUME NEW g \in Folders, parent[g] = Unborn, g \in Subtree(f)
               PROVE  FALSE
    BY DEF DeleteFolder
  <2> DEFINE S == {h \in Folders : h # g}
  <2>1. f \in S /\ S \in SUBSET Folders
    BY DEF DeleteFolder, Present
  <2>2. ClosedDown(S)
    BY DEF ClosedDown, Present
  <2> HIDE DEF S
  <2>3. g \in S
    BY <2>1, <2>2 DEF Subtree
  <2> QED BY <2>3 DEF S
<1>3. freq[p].at = "insert" => parent'[freq[p].id] = parent[freq[p].id]
  BY <1>2 DEF TreeInv, Reliable, Fresh, Aimed
<1> QED BY <1>1, <1>3, OtherReliable DEF TreeInv, Reliable, Fresh

LEMMA StepReliable ==
  ASSUME TreeInv, [TreeNext]_treeVars
  PROVE  TreeInv'
<1>1. TreeTypeOK'
  <2>1. CASE UNCHANGED treeVars
    BY <2>1 DEF treeVars, TreeInv, TreeTypeOK
  <2> QED BY <2>1, TreeRequestTyped, DeleteTyped DEF TreeNext, TreeInv
<1>2. StaysInLibrary'
  BY StepStays
<1>3. ASSUME NEW p \in FolderRequests PROVE Reliable(p)'
  <2>1. CASE UNCHANGED treeVars
    BY <2>1 DEF treeVars, TreeInv, Reliable, Aimed, Fresh, Walking, Climbing, Climbed
  <2>2. ASSUME NEW r \in FolderRequests, Abandon(r) \/ WriteVideoFolder(r)
        PROVE  Reliable(p)'
    BY <2>2, EndReliable DEF Abandon, WriteVideoFolder
  <2> QED BY <2>1, <2>2, CreateReliable, InsertReliable, UpdateReliable,
             WalkReliable, WriteReliable, MoveVideoReliable, DeleteReliable
          DEF TreeNext, TreeRequest
<1> QED BY <1>1, <1>2, <1>3 DEF TreeInv

LEMMA TreeInvariant == TreeSpec => []TreeInv
  BY InitReliable, StepReliable, PTL DEF TreeSpec

(* Whatever comes between the check of a parent and the write, a folder or a  *)
(* video hangs only under folders that are there and of its library           *)
(* (db/folders.go: folderInLibrary and the foreign keys).                      *)
THEOREM LibraryKept == TreeSpec => []StaysInLibrary
<1>1. TreeInv => StaysInLibrary
  BY DEF TreeInv
<1> QED BY <1>1, TreeInvariant, PTL

-----------------------------------------------------------------------------
(* Cycles. *)

(* A set of folders that all hang inside it: a forest has none. *)
Knot(S) ==
  S # {} /\ \A g \in S : Present(g) /\ parent[g] \in S

LEMMA ForestHasNoKnot == Forest <=> \A S \in SUBSET Folders : ~Knot(S)
  BY DEF Forest, Knot

(* A new folder closes no cycle: nothing hangs under it. *)
LEMMA InsertKeepsForest ==
  ASSUME TreeInv, NEW r \in FolderRequests, InsertFolder(r), Forest
  PROVE  Forest'
<1>1. CASE UNCHANGED parent
  BY <1>1 DEF Forest, Present
<1>2. CASE ~UNCHANGED parent
  <2>1. PICK id \in Folders, to \in Places :
          /\ parent[id] = Unborn /\ (to = Root \/ Present(to))
          /\ parent' = [parent EXCEPT ![id] = to]
    BY <1>2 DEF InsertFolder, TreeInv, TreeTypeOK, Reliable, Aimed, Fresh, Present
  <2> SUFFICES ASSUME NEW S \in SUBSET Folders, Knot(S)' PROVE FALSE
    BY DEF Forest, Knot
  <2> DEFINE T == S \ {id}
  <2>2. \A g \in T : parent'[g] = parent[g] /\ Present(g)
    BY <2>1 DEF Knot, Present, TreeInv, TreeTypeOK
  <2>3. \A g \in T : parent[g] # id
    BY <2>1, <2>2, TreeAssumption DEF TreeInv, StaysInLibrary, Present
  <2>4. \A g \in T : Present(g) /\ parent[g] \in T
    BY <2>2, <2>3 DEF Knot
  <2>5. T # {}
    <3>1. CASE id \in S
      <4>1. parent'[id] = to /\ to \in S
        BY <2>1, <3>1 DEF Knot, TreeInv, TreeTypeOK
      <4>2. to # id
        BY <2>1, <4>1, TreeAssumption DEF Present
      <4> QED BY <4>1, <4>2
    <3>2. CASE id \notin S
      BY <3>2 DEF Knot
    <3> QED BY <3>1, <3>2
  <2> HIDE DEF T
  <2>6. T \in SUBSET Folders
    BY DEF T
  <2> QED BY <2>4, <2>5, <2>6, ForestHasNoKnot DEF Knot
<1> QED BY <1>1, <1>2

(* A move that nobody has overtaken closes no cycle: the folders it climbed   *)
(* over would otherwise have been one before.                                *)
LEMMA MoveKeepsForest ==
  ASSUME TreeInv, NEW r \in FolderRequests, WriteParent(r), Forest,
         ~freq[r].overtaken
  PROVE  Forest'
<1>1. CASE ~CanHang(r)
  BY <1>1 DEF WriteParent, Forest, Present
<1>2. CASE CanHang(r)
  <2>1. PICK id \in Folders, to \in Places :
          /\ id = freq[r].id /\ to = freq[r].to /\ Present(id)
          /\ parent' = [parent EXCEPT ![id] = to]
    BY <1>2 DEF WriteParent, CanHang, Present, TreeInv, TreeTypeOK
  <2>2. PICK C \in SUBSET Folders : Climbed(C, id, to, Root)
    BY <2>1 DEF WriteParent, TreeInv, Reliable, Climbing, Walking
  <2> SUFFICES ASSUME NEW S \in SUBSET Folders, Knot(S)' PROVE FALSE
    BY DEF Forest, Knot
  <2>3. \A g \in S : Present(g)
    BY <2>1 DEF Knot, Present, TreeInv, TreeTypeOK
  <2>4. \A g \in S \ {id} : parent[g] \in S
    BY <2>1 DEF Knot, TreeInv, TreeTypeOK
  <2>5. CASE id \notin S
    <3>1. Knot(S)
      BY <2>3, <2>4, <2>5 DEF Knot
    <3> QED BY <3>1, ForestHasNoKnot
  <2>6. CASE id \in S
    <3> DEFINE T == S \cap C
    <3>1. to \in S
      BY <2>1, <2>6 DEF Knot, TreeInv, TreeTypeOK
    <3>2. to \in T
      BY <2>2, <3>1, TreeAssumption DEF Climbed
    <3>3. \A g \in T : Present(g) /\ parent[g] \in T
      BY <2>2, <2>3, <2>4, TreeAssumption DEF Climbed
    <3> HIDE DEF T
    <3>4. T \in SUBSET Folders
      BY DEF T
    <3> QED BY <3>2, <3>3, <3>4, ForestHasNoKnot DEF Knot
  <2> QED BY <2>5, <2>6
<1> QED BY <1>1, <1>2

LEMMA DeleteKeepsForest ==
  ASSUME NEW f \in Folders, DeleteFolder(f), Forest
  PROVE  Forest'
<1> SUFFICES ASSUME NEW S \in SUBSET Folders, Knot(S)' PROVE FALSE
  BY DEF Forest, Knot
<1>1. \A g \in S : parent'[g] = parent[g]
  BY DEF DeleteFolder, Knot, Present
<1>2. Knot(S)
  BY <1>1 DEF Knot, Present
<1> QED BY <1>2, ForestHasNoKnot

(* Only a move that another one has overtaken since its check can make a      *)
(* cycle of a forest (db/folders.go: MoveFolder).                              *)
THEOREM TanglesOnlyOvertaken == TreeSpec => OnlyOvertakenMovesTangle
<1> DEFINE Tangled == \E r \in FolderRequests :
                        freq[r].at = "write" /\ freq[r].overtaken
<1>1. TreeInv /\ [TreeNext]_treeVars => (Forest => Forest' \/ Tangled)
  <2> SUFFICES ASSUME TreeInv, [TreeNext]_treeVars, Forest, ~Tangled
               PROVE  Forest'
    OBVIOUS
  <2>1. CASE UNCHANGED parent
    BY <2>1 DEF Forest, Present
  <2>2. ASSUME NEW r \in FolderRequests, WriteParent(r) PROVE Forest'
    BY <2>2, MoveKeepsForest DEF WriteParent
  <2>3. ASSUME NEW r \in FolderRequests, TreeRequest(r),
               ~InsertFolder(r), ~WriteParent(r)
        PROVE  UNCHANGED parent
    BY <2>3 DEF TreeRequest, CreateFolder, UpdateFolder, CheckTarget, WalkUp,
       MoveVideo, WriteVideoFolder, Abandon, Begin
  <2> QED BY <2>1, <2>2, <2>3, InsertKeepsForest, DeleteKeepsForest
          DEF TreeNext, treeVars
<1>2. TreeInv /\ [TreeNext]_treeVars =>
        [Forest => Forest' \/ Tangled]_treeVars
  BY <1>1
<1> QED BY <1>2, TreeInvariant, PTL DEF TreeSpec, OnlyOvertakenMovesTangle

-----------------------------------------------------------------------------
(* Viewer progress: type correctness. *)

ProgressRows == [there : BOOLEAN, position : Playheads \cup {0},
         watched : Playheads \cup {0}, duration : Lengths \cup {0},
         percent : 0..100, completed : BOOLEAN, day : Nat]

Reports == [position : Playheads, event : {"progress", "ended"},
            duration : Lengths \cup {0}]

Typed ==
  /\ today \in 0..MaxDay
  /\ minted \subseteq [tenant : Tenants, viewer : Viewers, exp : Nat]
  /\ length \in [Streams -> Lengths \cup {0}]
  /\ stream \in [Streams -> BOOLEAN]
  /\ progress \in [Keys -> ProgressRows]
  /\ heard \in [Keys -> SUBSET Reports]

LEMMA TypedIsTypeOK == Typed <=> ProgressTypeOK
  BY DEF Typed, ProgressTypeOK, ProgressRows, Reports

LEMMA QuotientIsNat ==
  ASSUME NEW a \in Nat, NEW d \in Nat \ {0}
  PROVE  a \div d \in Nat
  OBVIOUS

LEMMA PercentTyped ==
  ASSUME NEW w \in Nat, NEW d \in Nat \ {0}
  PROVE  Percent(w, d) \in 0..100
<1>1. 100 * w \in Nat
  OBVIOUS
<1>2. (100 * w) \div d \in Nat
  BY <1>1, QuotientIsNat
<1> QED BY <1>2 DEF Percent, Least

LEMMA NoRowTyped == NoRow \in ProgressRows
  BY DEF NoRow, ProgressRows

(* What a beacon makes of a row is a row. *)
LEMMA InsertedTyped ==
  ASSUME NEW p \in Playheads, NEW e, NEW d \in Lengths \cup {0},
         today \in Nat
  PROVE  Inserted(p, e, d) \in ProgressRows
<1>1. d > 0 => Percent(p, d) \in 0..100
  BY ProgressAssumption, PercentTyped
<1>2. (Ended(e) \/ InTail(p, d)) \in BOOLEAN
  OBVIOUS
<1> QED BY <1>1, <1>2 DEF Inserted, ProgressRows

LEMMA MergedTyped ==
  ASSUME NEW row \in ProgressRows, NEW p \in Playheads, NEW e,
         NEW d \in Lengths \cup {0}, today \in Nat
  PROVE  Merged(row, p, e, d) \in ProgressRows
<1>1. PICK w \in Playheads \cup {0} : w = Most(row.watched, p)
  BY DEF ProgressRows, Most
<1>2. PICK known \in Lengths \cup {0} :
        known = IF d > 0 THEN d ELSE row.duration
  BY DEF ProgressRows
<1>3. known > 0 => Percent(w, known) \in 0..100
  BY ProgressAssumption, PercentTyped
<1>4. (row.completed \/ Ended(e) \/ InTail(p, d)) \in BOOLEAN
  OBVIOUS
<1> QED BY <1>1, <1>2, <1>3, <1>4 DEF Merged, ProgressRows

LEMMA TokenLifeBounded ==
  ASSUME NEW asked \in AskedTTLs
  PROVE  TokenLife(asked) \in 0..MaxTTL
  BY ProgressAssumption DEF TokenLife, Least, Most

(* A mint adds one token that lives no longer than the limit. *)
LEMMA MintAdds ==
  ASSUME Typed, MintViewerToken
  PROVE  \E token \in [tenant : Tenants, viewer : Viewers, exp : Nat] :
           /\ minted' = minted \cup {token}
           /\ token.exp \in today .. today + MaxTTL
<1>1. PICK tenant \in Tenants, viewer \in Viewers, asked \in AskedTTLs :
        minted' = minted \cup {SignViewer(tenant, viewer, today + TokenLife(asked))}
  BY DEF MintViewerToken
<1>2. PICK exp : exp = today + TokenLife(asked)
  OBVIOUS
<1>3. exp \in Nat /\ exp \in today .. today + MaxTTL
  BY <1>2, TokenLifeBounded, ProgressAssumption DEF Typed
<1>4. minted' = minted \cup {SignViewer(tenant, viewer, exp)}
  BY <1>1, <1>2
<1>5. PICK token : token = SignViewer(tenant, viewer, exp)
  OBVIOUS
<1>6. token \in [tenant : Tenants, viewer : Viewers, exp : Nat] /\ token.exp = exp
  BY <1>3, <1>5 DEF SignViewer
<1> QED BY <1>3, <1>4, <1>5, <1>6

(* A beacon is dropped, or merged into the row of its viewer and video by the  *)
(* length the video has.                                                     *)
Told(key, p, e, d) ==
  /\ stream[key[3]] /\ TenantOf[key[3]] = key[1] /\ d = length[key[3]]
  /\ \E token \in minted : /\ token.tenant = key[1] /\ token.viewer = key[2]
                           /\ today <= token.exp
  /\ progress' = [progress EXCEPT ![key] =
       IF progress[key].there THEN Merged(progress[key], p, e, d)
       ELSE Inserted(p, e, d)]
  /\ heard' = [heard EXCEPT ![key] =
       @ \cup {[position |-> p, event |-> e, duration |-> d]}]

LEMMA BeaconTells ==
  ASSUME Typed, Beacon, ~UNCHANGED <<progress, heard>>
  PROVE  \E key \in Keys, p \in Playheads, e \in {"progress", "ended"},
            d \in Lengths \cup {0} : Told(key, p, e, d)
<1>1. PICK token \in minted, tenant \in Tenants, s \in Streams, p \in Playheads,
           e \in {"progress", "ended"} :
        /\ VerifyViewer(tenant, token)
        /\ UpsertViewerProgress(tenant, token.viewer, s, p, e)
  BY DEF Beacon
<1>2. PICK viewer \in Viewers : viewer = token.viewer
  BY DEF Typed
<1>3. PICK key \in Keys : key = <<tenant, viewer, s>>
  BY DEF Keys
<1>4. key[1] = tenant /\ key[2] = viewer /\ key[3] = s
  BY <1>3
<1>5. PICK d \in Lengths \cup {0} : d = length[s]
  BY DEF Typed
<1>6. stream[s] /\ TenantOf[s] = tenant
  BY <1>1 DEF UpsertViewerProgress
<1>7. /\ progress' = [progress EXCEPT ![key] =
           IF progress[key].there THEN Merged(progress[key], p, e, d)
           ELSE Inserted(p, e, d)]
      /\ heard' = [heard EXCEPT ![key] =
           @ \cup {[position |-> p, event |-> e, duration |-> d]}]
  BY <1>1, <1>2, <1>3, <1>5, <1>6 DEF UpsertViewerProgress
<1>8. token.tenant = tenant /\ today <= token.exp
  BY <1>1 DEF VerifyViewer
<1> QED BY <1>2, <1>4, <1>5, <1>6, <1>7, <1>8 DEF Told

(* The row and the reports of the beacon, for a reader of one key. *)
LEMMA ToldRow ==
  ASSUME Typed, NEW key \in Keys, NEW p \in Playheads,
         NEW e \in {"progress", "ended"}, NEW d \in Lengths \cup {0},
         Told(key, p, e, d)
  PROVE  \E row \in ProgressRows :
           /\ progress' = [progress EXCEPT ![key] = row]
           /\ progress[key].there => row = Merged(progress[key], p, e, d)
           /\ ~progress[key].there => row = Inserted(p, e, d)
<1>1. today \in Nat
  BY ProgressAssumption DEF Typed
<1>2. PICK old \in ProgressRows : old = progress[key]
  BY DEF Typed
<1>3. Merged(old, p, e, d) \in ProgressRows /\ Inserted(p, e, d) \in ProgressRows
  BY <1>1, InsertedTyped, MergedTyped
<1>4. PICK m \in ProgressRows : m = Merged(progress[key], p, e, d)
  BY <1>2, <1>3
<1>5. PICK n \in ProgressRows : n = Inserted(p, e, d)
  BY <1>3
<1>6. progress' = [progress EXCEPT ![key] = IF progress[key].there THEN m ELSE n]
  BY <1>4, <1>5 DEF Told
<1>7. CASE progress[key].there
  BY <1>4, <1>6, <1>7
<1>8. CASE ~progress[key].there
  BY <1>5, <1>6, <1>8
<1> QED BY <1>7, <1>8

LEMMA StepTyped ==
  ASSUME Typed, [ProgressNext]_progressVars
  PROVE  Typed'
<1>1. CASE MintViewerToken
  BY <1>1, MintAdds DEF MintViewerToken, Typed
<1>2. CASE Beacon
  <2>1. CASE UNCHANGED <<progress, heard>>
    BY <1>2, <2>1 DEF Beacon, Typed
  <2>2. CASE ~UNCHANGED <<progress, heard>>
    <3>1. PICK key \in Keys, p \in Playheads, e \in {"progress", "ended"},
               d \in Lengths \cup {0} : Told(key, p, e, d)
      BY <1>2, <2>2, BeaconTells
    <3>2. progress' \in [Keys -> ProgressRows]
      BY <3>1, ToldRow DEF Typed
    <3>3. heard' \in [Keys -> SUBSET Reports]
      BY <3>1 DEF Told, Typed, Reports
    <3> QED BY <1>2, <3>2, <3>3 DEF Beacon, Typed
  <2> QED BY <2>1, <2>2
<1>3. CASE SetDuration
  BY <1>3 DEF SetDuration, Typed
<1>4. CASE PurgeVideoRow
  BY <1>4 DEF PurgeVideoRow, Typed
<1>5. CASE NextDay
  BY <1>5, ProgressAssumption DEF NextDay, Typed
<1>6. CASE PruneViewerProgress
  BY <1>6, NoRowTyped DEF PruneViewerProgress, Typed
<1>7. CASE UNCHANGED progressVars
  BY <1>7 DEF progressVars, Typed
<1> QED BY <1>1, <1>2, <1>3, <1>4, <1>5, <1>6, <1>7 DEF ProgressNext

LEMMA InitTyped == ProgressInit => Typed
  BY NoRowTyped, ProgressAssumption DEF ProgressInit, Typed, Reports

(* Tokens and progress rows keep their types, whatever beacons arrive         *)
(* (db/viewer.go, token.go).                                                   *)
THEOREM ProgressTypesCorrect == ProgressSpec => []ProgressTypeOK
<1>1. Typed /\ [ProgressNext]_progressVars => Typed'
  BY StepTyped
<1>2. ProgressSpec => []Typed
  BY <1>1, InitTyped, PTL DEF ProgressSpec
<1> QED BY <1>2, TypedIsTypeOK, PTL

-----------------------------------------------------------------------------
(* What a row says of the beacons that made it. *)

(* A row that is not there has heard nothing; one that is there is the sum of  *)
(* what it has heard.                                                        *)
Sums(key) ==
  LET row == progress[key] IN
  /\ ~row.there => heard[key] = {}
  /\ row.there =>
       /\ \E b \in heard[key] : row.watched = b.position
       /\ \A b \in heard[key] : b.position <= row.watched
       /\ row.completed <=> \E b \in heard[key] :
                              Ended(b.event) \/ InTail(b.position, b.duration)

Resumes(key) ==
  LET row == progress[key] IN
  row.there =>
    /\ row.position <= row.watched
    /\ \E b \in heard[key] : row.position = b.position
    /\ row.duration > 0 => row.percent = Percent(row.watched, row.duration)

(* The fields a beacon writes. *)
LEMMA MergedFields ==
  ASSUME NEW row \in ProgressRows, NEW p \in Playheads, NEW e,
         NEW d \in Lengths \cup {0}, NEW z, z = Merged(row, p, e, d)
  PROVE  /\ z.there /\ z.position = p /\ z.day = today
         /\ z.watched = IF row.watched > p THEN row.watched ELSE p
         /\ z.completed <=> (row.completed \/ Ended(e) \/ InTail(p, d))
         /\ z.duration > 0 => z.percent = Percent(z.watched, z.duration)
  BY DEF Merged, Most

LEMMA InsertedFields ==
  ASSUME NEW p \in Playheads, NEW e, NEW d \in Lengths \cup {0}, NEW z,
         z = Inserted(p, e, d)
  PROVE  /\ z.there /\ z.position = p /\ z.watched = p /\ z.day = today
         /\ z.completed <=> (Ended(e) \/ InTail(p, d))
         /\ z.duration > 0 => z.percent = Percent(z.watched, z.duration)
  BY DEF Inserted

(* A beacon adds itself to what the row sums up. *)
LEMMA BeaconSums ==
  ASSUME Typed, NEW key \in Keys, NEW p \in Playheads,
         NEW e \in {"progress", "ended"}, NEW d \in Lengths \cup {0},
         Told(key, p, e, d), NEW k \in Keys, Sums(k), Resumes(k)
  PROVE  Sums(k)' /\ Resumes(k)'
<1>1. CASE k # key
  <2>1. progress'[k] = progress[k] /\ heard'[k] = heard[k]
    BY <1>1, ToldRow DEF Told, Typed
  <2> QED BY <2>1 DEF Sums, Resumes
<1>2. CASE k = key
  <2>1. PICK b \in Reports :
          b.position = p /\ b.event = e /\ b.duration = d
          /\ heard'[k] = heard[k] \cup {b}
    <3>1. PICK b : b = [position |-> p, event |-> e, duration |-> d]
      OBVIOUS
    <3>2. heard'[k] = heard[k] \cup {b}
      BY <1>2, <3>1 DEF Told, Typed
    <3> QED BY <3>1, <3>2 DEF Reports
  <2>2. PICK old \in ProgressRows : old = progress[k]
    BY DEF Typed
  <2>3. \A c \in heard[k] : c \in Reports
    BY DEF Typed
  <2>4. PICK z \in ProgressRows :
          /\ z = progress'[k]
          /\ old.there => z = Merged(old, p, e, d)
          /\ ~old.there => z = Inserted(p, e, d)
    BY <1>2, <2>2, ToldRow DEF Typed
  <2>5. CASE old.there
    <3>1. /\ z.there /\ z.position = p
          /\ z.watched = IF old.watched > p THEN old.watched ELSE p
          /\ z.completed <=> (old.completed \/ Ended(e) \/ InTail(p, d))
          /\ z.duration > 0 => z.percent = Percent(z.watched, z.duration)
      BY <2>4, <2>5, MergedFields
    <3>2. /\ \E c \in heard[k] : old.watched = c.position
          /\ \A c \in heard[k] : c.position <= old.watched
          /\ old.completed <=> \E c \in heard[k] :
                                 Ended(c.event) \/ InTail(c.position, c.duration)
      BY <2>2, <2>5 DEF Sums
    <3>3. z.watched \in Nat /\ p \in Nat /\ \A c \in heard[k] : c.position \in Nat
      <4>1. Playheads \subseteq Nat
        BY ProgressAssumption
      <4>2. z.watched \in Playheads \cup {0}
        BY DEF ProgressRows
      <4>3. \A c \in heard[k] : c.position \in Nat
        BY <4>1, <2>3 DEF Reports
      <4>4. Playheads \cup {0} \subseteq Nat
        BY <4>1
      <4>5. z.watched \in Nat
        BY <4>2, <4>4, Zenon
      <4>6. p \in Nat
        BY <4>1
      <4> QED BY <4>3, <4>5, <4>6
    <3>4. /\ \E c \in heard'[k] : z.watched = c.position
          /\ \A c \in heard'[k] : c.position <= z.watched
      BY <2>1, <3>1, <3>2, <3>3
    <3>5. z.completed <=> \E c \in heard'[k] :
                            Ended(c.event) \/ InTail(c.position, c.duration)
      BY <2>1, <3>1, <3>2
    <3>6. z.position <= z.watched /\ \E c \in heard'[k] : z.position = c.position
      BY <2>1, <3>1, <3>3
    <3> QED BY <2>4, <3>1, <3>4, <3>5, <3>6 DEF Sums, Resumes
  <2>6. CASE ~old.there
    <3>1. /\ z.there /\ z.position = p /\ z.watched = p
          /\ z.completed <=> (Ended(e) \/ InTail(p, d))
          /\ z.duration > 0 => z.percent = Percent(z.watched, z.duration)
      BY <2>4, <2>6, InsertedFields
    <3>2. heard'[k] = {b} /\ p \in Nat
      BY <2>1, <2>2, <2>6, ProgressAssumption DEF Sums
    <3> QED BY <2>1, <2>4, <3>1, <3>2 DEF Sums, Resumes
  <2> QED BY <2>5, <2>6
<1> QED BY <1>1, <1>2

LEMMA StepSums ==
  ASSUME Typed, [ProgressNext]_progressVars, NEW k \in Keys, Sums(k), Resumes(k)
  PROVE  Sums(k)' /\ Resumes(k)'
<1>1. CASE UNCHANGED <<progress, heard>>
  BY <1>1 DEF Sums, Resumes
<1>2. CASE Beacon /\ ~UNCHANGED <<progress, heard>>
  BY <1>2, BeaconTells, BeaconSums
<1>3. CASE PruneViewerProgress
  <2>1. CASE Expired(k)
    <3>1. progress'[k] = NoRow /\ heard'[k] = {}
      BY <1>3, <2>1 DEF PruneViewerProgress, Typed
    <3> QED BY <3>1 DEF Sums, Resumes, NoRow
  <2>2. CASE ~Expired(k)
    <3>1. progress'[k] = progress[k] /\ heard'[k] = heard[k]
      BY <1>3, <2>2 DEF PruneViewerProgress, Typed
    <3> QED BY <3>1 DEF Sums, Resumes
  <2> QED BY <2>1, <2>2
<1> QED BY <1>1, <1>2, <1>3
        DEF ProgressNext, MintViewerToken, SetDuration, PurgeVideoRow, NextDay,
            progressVars

LEMMA RowsSum ==
  ProgressSpec => [](Typed /\ \A k \in Keys : Sums(k) /\ Resumes(k))
<1> DEFINE Inv == \A k \in Keys : Sums(k) /\ Resumes(k)
<1>1. ProgressInit => Inv
  BY DEF ProgressInit, Sums, Resumes, NoRow
<1>2. Typed /\ Inv /\ [ProgressNext]_progressVars => Typed' /\ Inv'
  BY StepTyped, StepSums
<1> QED BY <1>1, <1>2, InitTyped, PTL DEF ProgressSpec

(* The order in which beacons arrive leaves no trace in the high-water mark   *)
(* nor in completion (db/viewer.go: UpsertViewerProgress).                     *)
THEOREM MergeCommutes == ProgressSpec => []MergedInAnyOrder
<1>1. (\A k \in Keys : Sums(k) /\ Resumes(k)) => MergedInAnyOrder
  BY DEF Sums, MergedInAnyOrder
<1> QED BY <1>1, RowsSum, PTL

(* A viewer resumes within what is counted as watched, at a place the player   *)
(* reported (db/viewer.go: UpsertViewerProgress).                              *)
THEOREM ResumeIsWatched == ProgressSpec => []ResumesWithinWatched
<1>1. (\A k \in Keys : Sums(k) /\ Resumes(k)) => ResumesWithinWatched
  BY DEF Resumes, ResumesWithinWatched
<1> QED BY <1>1, RowsSum, PTL

-----------------------------------------------------------------------------
(* Whose progress it is. *)

(* Every row has a token behind it, and no token outlives the limit           *)
(* (token.go: VerifyViewer; viewer.go: handleMintViewerToken).                 *)
THEOREM ProgressAttributed == ProgressSpec => []ProgressIsAttributed
<1>1. ProgressInit => ProgressIsAttributed
  BY DEF ProgressInit, ProgressIsAttributed, NoRow
<1>2. Typed /\ ProgressIsAttributed /\ [ProgressNext]_progressVars
        => ProgressIsAttributed'
  <2> SUFFICES ASSUME Typed, ProgressIsAttributed, [ProgressNext]_progressVars
               PROVE  ProgressIsAttributed'
    OBVIOUS
  <2>1. minted \subseteq minted'
        /\ \A token \in minted' : token.exp <= today' + MaxTTL
    <3>1. \A token \in minted : token.exp \in Nat
      BY DEF Typed
    <3>2. CASE MintViewerToken
      BY <3>1, <3>2, MintAdds, ProgressAssumption
         DEF ProgressIsAttributed, MintViewerToken, Typed
    <3>3. CASE NextDay
      BY <3>1, <3>3, ProgressAssumption DEF ProgressIsAttributed, NextDay, Typed
    <3>4. CASE UNCHANGED <<minted, today>>
      BY <3>4 DEF ProgressIsAttributed
    <3> QED BY <3>2, <3>3, <3>4
            DEF ProgressNext, Beacon, SetDuration, PurgeVideoRow,
                PruneViewerProgress, progressVars
  <2>2. ASSUME NEW k \in Keys, progress'[k].there
        PROVE  /\ TenantOf[k[3]] = k[1]
               /\ \E token \in minted' :
                    /\ token.tenant = k[1] /\ token.viewer = k[2]
                    /\ progress'[k].day <= token.exp
    <3>1. CASE progress'[k] = progress[k]
      BY <2>1, <2>2, <3>1 DEF ProgressIsAttributed
    <3>2. CASE Beacon /\ progress'[k] # progress[k]
      <4>1. PICK p \in Playheads, e \in {"progress", "ended"},
                 d \in Lengths \cup {0} : Told(k, p, e, d)
        <5>1. PICK key \in Keys, p \in Playheads, e \in {"progress", "ended"},
                   d \in Lengths \cup {0} : Told(key, p, e, d)
          BY <3>2, BeaconTells
        <5>2. key = k
          BY <3>2, <5>1, ToldRow DEF Typed
        <5> QED BY <5>1, <5>2
      <4>2. PICK old \in ProgressRows : old = progress[k]
        BY DEF Typed
      <4>3. PICK z \in ProgressRows :
              /\ z = progress'[k]
              /\ old.there => z = Merged(old, p, e, d)
              /\ ~old.there => z = Inserted(p, e, d)
        BY <4>1, <4>2, ToldRow DEF Typed
      <4>4. z.day = today
        BY <4>3, MergedFields, InsertedFields
      <4> QED BY <2>1, <4>1, <4>3, <4>4 DEF Told
    <3>3. CASE PruneViewerProgress /\ progress'[k] # progress[k]
      <4>1. progress'[k] = NoRow
        BY <3>3 DEF PruneViewerProgress, Typed
      <4> QED BY <2>2, <4>1 DEF NoRow
    <3> QED BY <3>1, <3>2, <3>3
            DEF ProgressNext, MintViewerToken, SetDuration, PurgeVideoRow,
                NextDay, progressVars
  <2> QED BY <2>1, <2>2 DEF ProgressIsAttributed
<1> QED BY <1>1, <1>2, RowsSum, PTL DEF ProgressSpec

-----------------------------------------------------------------------------
(* The encoding defaults. *)

(* What a request that nobody overtook may rely on: the row in its hands is    *)
(* the library's, and the image that it put is there.                        *)
Informed(r) ==
  ~editor[r].overtaken =>
    /\ editor[r].at \in {"form", "name", "remove", "unname"} => editor[r].row = library
    /\ editor[r].at \in {"get", "name"} => image # NoImage

(* A video keeps what it was created with, but for the codecs; nothing is built *)
(* of one that is not there.                                                 *)
KeepsSnapshot(v) ==
  /\ settings[v] \in Rows =>
       /\ created[v] \in Rows
       /\ settings[v].rungs = created[v].rungs
       /\ settings[v].named = created[v].named
       /\ settings[v].enabled = created[v].enabled
  /\ settings[v] = Uncreated => \A b \in BuildKinds : ladder[v][b] = Unbuilt

SettingsInv ==
  /\ SettingsTypeOK
  /\ \A r \in Editors : Informed(r)
  /\ NamedImageExists
  /\ \A v \in LibraryVideos : KeepsSnapshot(v)
  /\ SnapshotDecides

---------------------------------------------------------------------------
(* Normalize switches a watermark without an image off, and changes nothing     *)
(* else.                                                                     *)
LEMMA Normalized ==
  ASSUME NEW row \in Rows
  PROVE  /\ NormalizeConfig(row) \in Rows
         /\ NormalizeConfig(row).rungs = row.rungs /\ NormalizeConfig(row).named = row.named
         /\ NormalizeConfig(row).enabled = (row.enabled /\ row.named)
<1>1. PICK q \in Rungs, c \in SUBSET Codecs, n \in BOOLEAN, e \in BOOLEAN :
        row = [rungs |-> q, codecs |-> c, named |-> n, enabled |-> e]
  BY DEF Rows
<1>2. NormalizeConfig(row) = [rungs |-> q, codecs |-> c, named |-> n, enabled |-> (e /\ n)]
  BY <1>1 DEF NormalizeConfig
<1>3. (e /\ n) \in BOOLEAN
  OBVIOUS
<1>4. NormalizeConfig(row) \in Rows
  BY <1>2, <1>3 DEF Rows
<1> QED BY <1>1, <1>2, <1>4

(* A save writes a normalized row and ends the request.                       *)
LEMMA Saved ==
  ASSUME SettingsTypeOK, NEW r \in Editors, NEW row \in Rows, SetEncodingConfig(r, row)
  PROVE  SettingsTypeOK' /\ library'.named = row.named /\ library'.rungs = row.rungs
<1>1. /\ library' \in Rows
      /\ library'.enabled => library'.named
      /\ library'.named = row.named /\ library'.rungs = row.rungs
  BY Normalized DEF SetEncodingConfig
<1>2. Idle \in [at : {"idle"}, row : Rows, overtaken : BOOLEAN]
  BY SettingsAssumption DEF Idle, DefaultConfig, Rows
<1>3. editor' \in [Editors -> [at : {"idle", "form", "put", "get", "name", "remove", "unname"},
                               row : Rows, overtaken : BOOLEAN]]
  BY <1>2 DEF SettingsTypeOK, SetEncodingConfig, Overtakes
<1>4. slip' \in BOOLEAN
  <2>1. slip' = (row.named /\ image = NoImage /\ (slip \/ editor[r].overtaken))
    BY DEF SetEncodingConfig
  <2> QED BY <2>1, Zenon
<1>5. <<image, settings, created, ladder>>' = <<image, settings, created, ladder>>
  BY DEF SetEncodingConfig
<1>6. /\ image' \in Images \cup {NoImage}
      /\ settings' \in [LibraryVideos -> Rows \cup {Uncreated}]
      /\ created' \in [LibraryVideos -> Rows \cup {Uncreated}]
      /\ ladder' \in [LibraryVideos -> [BuildKinds -> Encodings \cup {Unbuilt, Requested, Failed}]]
      /\ \A v \in LibraryVideos : settings'[v] \in Rows /\ settings'[v].enabled => settings'[v].named
  BY <1>5 DEF SettingsTypeOK
<1>7. SettingsTypeOK'
  BY <1>1, <1>3, <1>4, <1>6, Zenon DEF SettingsTypeOK
<1> QED BY <1>1, <1>7

(* What each request saves is a row.                                          *)
LEMMA SavesRow ==
  ASSUME SettingsTypeOK, NEW r \in Editors
  PROVE  /\ \A q \in Rungs : [editor[r].row EXCEPT !.rungs = q] \in Rows
         /\ [editor[r].row EXCEPT !.enabled = ~@] \in Rows
         /\ [editor[r].row EXCEPT !.named = TRUE, !.enabled = TRUE] \in Rows
         /\ [editor[r].row EXCEPT !.named = FALSE, !.enabled = FALSE] \in Rows
         /\ \A q \in Rungs : [editor[r].row EXCEPT !.rungs = q].named = editor[r].row.named
         /\ [editor[r].row EXCEPT !.enabled = ~@].named = editor[r].row.named
<1> editor[r].row \in Rows
  BY DEF SettingsTypeOK
<1> QED BY DEF Rows

---------------------------------------------------------------------------
LEMMA InitHolds == SettingsInit => SettingsInv
<1> SUFFICES ASSUME SettingsInit PROVE SettingsInv
  OBVIOUS
<1>1. DefaultConfig \in Rows /\ ~DefaultConfig.enabled /\ ~DefaultConfig.named
  BY SettingsAssumption DEF DefaultConfig, Rows
<1>2. SettingsTypeOK
  <2>1. editor \in [Editors -> [at : {"idle", "form", "put", "get", "name", "remove", "unname"},
                                row : Rows, overtaken : BOOLEAN]]
    BY <1>1 DEF SettingsInit, Idle
  <2>2. /\ settings \in [LibraryVideos -> Rows \cup {Uncreated}]
        /\ created \in [LibraryVideos -> Rows \cup {Uncreated}]
        /\ \A v \in LibraryVideos : settings[v] \notin Rows
    BY SettingsAssumption DEF SettingsInit
  <2>3. ladder \in [LibraryVideos -> [BuildKinds -> Encodings \cup {Unbuilt, Requested, Failed}]]
    BY DEF SettingsInit
  <2> QED BY <1>1, <2>1, <2>2, <2>3 DEF SettingsTypeOK, SettingsInit
<1>3. \A r \in Editors : Informed(r)
  BY DEF SettingsInit, Informed, Idle
<1>4. NamedImageExists
  BY <1>1 DEF SettingsInit, NamedImageExists
<1>5. \A v \in LibraryVideos : KeepsSnapshot(v)
  BY SettingsAssumption DEF SettingsInit, KeepsSnapshot
<1>6. SnapshotDecides
  BY SettingsAssumption DEF SettingsInit, SnapshotDecides
<1> QED BY <1>2, <1>3, <1>4, <1>5, <1>6 DEF SettingsInv

---------------------------------------------------------------------------
(* Types, one family of actions after the other.                              *)

(* A save of any of the three handlers is of a row: what it names, and that     *)
(* its types are kept.                                                       *)
LEMMA SaveTypes ==
  ASSUME SettingsTypeOK, NEW r \in Editors,
         SaveForm(r) \/ NameWatermark(r) \/ UnnameWatermark(r)
  PROVE  \E row \in Rows :
           /\ SetEncodingConfig(r, row) /\ SettingsTypeOK' /\ library'.named = row.named
           /\ SaveForm(r) => row.named = editor[r].row.named
<1>1. CASE SaveForm(r)
  BY <1>1, SavesRow, Saved DEF SaveForm
<1>2. CASE NameWatermark(r)
  BY <1>2, SavesRow, Saved DEF NameWatermark, SaveForm
<1>3. CASE UnnameWatermark(r)
  BY <1>3, SavesRow, Saved DEF UnnameWatermark, SaveForm
<1> QED BY <1>1, <1>2, <1>3

LEMMA EditTypes ==
  ASSUME SettingsTypeOK, NEW r \in Editors, Edit(r)
  PROVE  SettingsTypeOK'
<1> USE DEF SettingsTypeOK
<1>1. CASE SaveForm(r) \/ NameWatermark(r) \/ UnnameWatermark(r)
  BY <1>1, SaveTypes
<1>2. CASE OpenForm(r)
  BY <1>2 DEF OpenForm
<1>3. CASE StartUpload(r)
  BY <1>3, SettingsAssumption DEF StartUpload, Idle, DefaultConfig, Rows
<1>4. CASE PutWatermark(r)
  BY <1>4 DEF PutWatermark, Overtakes
<1>5. CASE ReadForUpload(r)
  BY <1>5 DEF ReadForUpload, GetEncodingConfig
<1>6. CASE StartDelete(r)
  BY <1>6 DEF StartDelete, GetEncodingConfig
<1>7. CASE RemoveWatermark(r)
  <2>1. CASE image' = NoImage /\ Overtakes(r, [editor[r] EXCEPT !.at = "unname"])
    BY <1>7, <2>1 DEF RemoveWatermark, Overtakes
  <2>2. CASE UNCHANGED image /\ Goes(r, "unname")
    BY <1>7, <2>2 DEF RemoveWatermark, Goes
  <2> QED BY <1>7, <2>1, <2>2 DEF RemoveWatermark
<1>8. CASE GiveUp(r)
  <2>1. slip' = (slip \/ (editor[r].at = "unname" /\ library.named /\ image = NoImage))
    BY <1>8 DEF GiveUp
  <2>2. slip' \in BOOLEAN
    BY <2>1, Zenon
  <2>3. Idle \in [at : {"idle"}, row : Rows, overtaken : BOOLEAN]
    BY SettingsAssumption DEF Idle, DefaultConfig, Rows
  <2>4. editor' \in [Editors -> [at : {"idle", "form", "put", "get", "name", "remove", "unname"},
                                 row : Rows, overtaken : BOOLEAN]]
    BY <1>8, <2>3 DEF GiveUp
  <2>5. UNCHANGED <<library, image, settings, created, ladder>>
    BY <1>8 DEF GiveUp
  <2> QED BY <2>2, <2>4, <2>5
<1> QED BY <1>1, <1>2, <1>3, <1>4, <1>5, <1>6, <1>7, <1>8 DEF Edit

(* The row of a video is the library's, or keeps all but its codecs.            *)
LEMMA CodecAdded ==
  ASSUME SettingsTypeOK, NEW v \in LibraryVideos, NEW c \in Codecs, settings[v] \in Rows
  PROVE  \E row \in Rows :
           /\ row = WithCodec(settings[v], c)
           /\ row.rungs = settings[v].rungs /\ row.named = settings[v].named
           /\ row.enabled = settings[v].enabled
<1> DEFINE wider == [settings[v] EXCEPT !.codecs = @ \cup {c}]
<1>1. /\ wider \in Rows
      /\ wider.rungs = settings[v].rungs /\ wider.named = settings[v].named
      /\ wider.enabled = settings[v].enabled
  BY DEF Rows
<1>2. settings[v].enabled => settings[v].named
  BY DEF SettingsTypeOK
<1>3. settings[v].enabled \in BOOLEAN /\ settings[v].named \in BOOLEAN
  BY DEF Rows
<1>4. /\ NormalizeConfig(wider) \in Rows
      /\ NormalizeConfig(wider).rungs = wider.rungs /\ NormalizeConfig(wider).named = wider.named
      /\ NormalizeConfig(wider).enabled = (wider.enabled /\ wider.named)
  BY <1>1, Normalized
<1>5. (wider.enabled /\ wider.named) = settings[v].enabled
  BY <1>1, <1>2, <1>3
<1>6. NormalizeConfig(wider) = WithCodec(settings[v], c)
  BY DEF WithCodec
<1> HIDE DEF wider
<1> QED BY <1>1, <1>4, <1>5, <1>6

LEMMA Encoded ==
  ASSUME SettingsTypeOK, NEW v \in LibraryVideos, NEW b \in BuildKinds, Build(v, b)
  PROVE  /\ settings[v] \in Rows
         /\ \/ settings[v].enabled /\ ladder'[v][b] = Failed
            \/ /\ ladder'[v][b] \in Encodings
               /\ ladder'[v][b].rungs = settings[v].rungs
               /\ ladder'[v][b].mark # NoImage <=> settings[v].enabled
         /\ ladder' = [ladder EXCEPT ![v][b] = ladder'[v][b]]
<1>1. settings[v] \in Rows /\ settings[v].enabled => settings[v].named
  BY DEF SettingsTypeOK
<1>2. settings[v] \in Rows
  BY DEF Build, MayBuild, SettingsTypeOK
<1> DEFINE shown == IF WatermarkMissing(settings[v]) THEN Failed
                    ELSE [rungs |-> settings[v].rungs, mark |-> PrepareWatermark(settings[v])]
<1>3. ladder' = [ladder EXCEPT ![v][b] = shown]
  BY DEF Build, GetEncodeSettings
<1>4. \/ settings[v].enabled /\ shown = Failed
      \/ /\ shown \in Encodings
         /\ shown.rungs = settings[v].rungs
         /\ shown.mark # NoImage <=> settings[v].enabled
  BY <1>1, <1>2 DEF WatermarkMissing, PrepareWatermark, SettingsTypeOK, Encodings, Rows
<1> HIDE DEF shown
<1>5. ladder'[v][b] = shown
  BY <1>3 DEF SettingsTypeOK
<1> QED BY <1>2, <1>3, <1>4, <1>5

LEMMA VideoTypes ==
  ASSUME SettingsTypeOK, NEW v \in LibraryVideos,
         \/ CreateVideo(v)
         \/ \E c \in Codecs : AddVideoCodec(v, c)
         \/ AskEncrypt(v)
         \/ \E b \in BuildKinds : Build(v, b)
  PROVE  SettingsTypeOK'
<1>1. CASE CreateVideo(v)
  BY <1>1 DEF CreateVideo, SettingsTypeOK
<1>2. CASE \E c \in Codecs : AddVideoCodec(v, c)
  <2>1. PICK c \in Codecs : AddVideoCodec(v, c)
    BY <1>2
  <2>2. settings[v] \in Rows
    BY <2>1 DEF AddVideoCodec, SettingsTypeOK
  <2>3. PICK row \in Rows : /\ settings' = [settings EXCEPT ![v] = row]
                            /\ row.enabled => row.named
    <3>1. settings' = [settings EXCEPT ![v] = WithCodec(settings[v], c)]
      BY <2>1 DEF AddVideoCodec
    <3>2. settings[v].enabled => settings[v].named
      BY <2>2 DEF SettingsTypeOK
    <3> QED BY <2>2, <3>1, <3>2, CodecAdded
  <2> QED BY <2>1, <2>3 DEF AddVideoCodec, SettingsTypeOK
<1>3. CASE \E b \in BuildKinds : Build(v, b)
  <2>1. PICK b \in BuildKinds : Build(v, b)
    BY <1>3
  <2>2. ladder' \in [LibraryVideos -> [BuildKinds -> Encodings \cup {Unbuilt, Requested, Failed}]]
    <3>1. ladder'[v][b] \in Encodings \cup {Unbuilt, Requested, Failed}
      BY <2>1, Encoded
    <3>2. ladder' = [ladder EXCEPT ![v][b] = ladder'[v][b]]
      BY <2>1, Encoded
    <3> DEFINE shown == ladder'[v][b]
    <3> HIDE DEF shown
    <3>3. shown \in Encodings \cup {Unbuilt, Requested, Failed} /\ ladder' = [ladder EXCEPT ![v][b] = shown]
      BY <3>1, <3>2 DEF shown
    <3> QED BY <3>3 DEF SettingsTypeOK
  <2> QED BY <2>1, <2>2 DEF Build, SettingsTypeOK
<1>4. CASE AskEncrypt(v)
  BY <1>4 DEF AskEncrypt, SettingsTypeOK, BuildKinds
<1> QED BY <1>1, <1>2, <1>3, <1>4

LEMMA TypesKept == SettingsTypeOK /\ [SettingsNext]_settingsVars => SettingsTypeOK'
<1> SUFFICES ASSUME SettingsTypeOK, [SettingsNext]_settingsVars PROVE SettingsTypeOK'
  OBVIOUS
<1>1. CASE \E r \in Editors : Edit(r)
  BY <1>1, EditTypes
<1>2. CASE \E v \in LibraryVideos : \/ CreateVideo(v)
                             \/ \E c \in Codecs : AddVideoCodec(v, c)
                             \/ AskEncrypt(v)
                             \/ \E b \in BuildKinds : Build(v, b)
  BY <1>2, VideoTypes
<1>3. CASE UNCHANGED settingsVars
  BY <1>3 DEF settingsVars, SettingsTypeOK
<1> QED BY <1>1, <1>2, <1>3 DEF SettingsNext

---------------------------------------------------------------------------
(* What a request that was not overtaken knows is so.                         *)

(* After a write of the row or the object everybody but the writer is          *)
(* overtaken, or does nothing.                                               *)
LEMMA OthersOvertaken ==
  ASSUME SettingsTypeOK, NEW r \in Editors, NEW next, Overtakes(r, next),
         NEW s \in Editors, s # r
  PROVE  Informed(s)'
<1>1. /\ editor'[s].at = editor[s].at
      /\ editor'[s].overtaken = (editor[s].at # "idle")
  BY DEF Overtakes, SettingsTypeOK
<1>2. ~editor'[s].overtaken => editor'[s].at = "idle"
  BY <1>1
<1> QED BY <1>2 DEF Informed

LEMMA InformedKept ==
  ASSUME SettingsTypeOK, \A r \in Editors : Informed(r), [SettingsNext]_settingsVars,
         NEW s \in Editors
  PROVE  Informed(s)'
<1>1. ASSUME NEW r \in Editors, Edit(r)
      PROVE  Informed(s)'
  <2> USE <1>1
  <2>1. CASE SaveForm(r) \/ NameWatermark(r) \/ UnnameWatermark(r)
    <3>1. Overtakes(r, Idle)
      BY <2>1, SaveTypes DEF SetEncodingConfig
    <3>2. editor'[r] = Idle
      BY <3>1 DEF Overtakes
    <3>3. Informed(r)'
      BY <3>2 DEF Informed, Idle
    <3> QED BY <3>1, <3>3, OthersOvertaken
  <2>2. CASE PutWatermark(r)
    <3>1. Overtakes(r, [editor[r] EXCEPT !.at = "get"])
      BY <2>2 DEF PutWatermark
    <3>2. editor'[r].at = "get" /\ image' # NoImage
      BY <2>2, <3>1, SettingsAssumption DEF PutWatermark, Overtakes, SettingsTypeOK
    <3>3. Informed(r)'
      BY <3>2 DEF Informed
    <3> QED BY <3>1, <3>3, OthersOvertaken
  <2>3. CASE image' = NoImage /\ RemoveWatermark(r) /\ Overtakes(r, [editor[r] EXCEPT !.at = "unname"])
    <3>1. /\ editor'[r].at = "unname" /\ editor[r].at = "remove" /\ library' = library
          /\ editor'[r].row = editor[r].row /\ editor'[r].overtaken = editor[r].overtaken
      BY <2>3 DEF RemoveWatermark, Overtakes, SettingsTypeOK
    <3>2. Informed(r)'
      BY <3>1 DEF Informed
    <3> QED BY <2>3, <3>2, OthersOvertaken
  <2>4. CASE image' = image /\ RemoveWatermark(r) /\ Goes(r, "unname")
    BY <2>4 DEF RemoveWatermark, Goes, Informed, SettingsTypeOK
  <2>5. CASE OpenForm(r)
    BY <2>5 DEF OpenForm, Informed, SettingsTypeOK
  <2>6. CASE StartUpload(r)
    BY <2>6 DEF StartUpload, Informed, Idle, SettingsTypeOK
  <2>7. CASE ReadForUpload(r)
    BY <2>7 DEF ReadForUpload, GetEncodingConfig, Informed, SettingsTypeOK
  <2>8. CASE StartDelete(r)
    BY <2>8 DEF StartDelete, GetEncodingConfig, Informed, SettingsTypeOK
  <2>9. CASE GiveUp(r)
    BY <2>9 DEF GiveUp, Informed, Idle, SettingsTypeOK
  <2> QED BY <1>1, <2>1, <2>2, <2>3, <2>4, <2>5, <2>6, <2>7, <2>8, <2>9
          DEF Edit, RemoveWatermark
<1>2. CASE UNCHANGED <<library, image, editor>>
  BY <1>2 DEF Informed
<1> QED BY <1>1, <1>2
        DEF SettingsNext, CreateVideo, AddVideoCodec, AskEncrypt, Build, settingsVars

---------------------------------------------------------------------------
(* The row and the bucket.                                                   *)

(* A step of one request leaves the others where they are.                     *)
LEMMA OthersStay ==
  ASSUME SettingsTypeOK, NEW r \in Editors, Edit(r), NEW s \in Editors, s # r
  PROVE  editor'[s].at = editor[s].at
<1>1. ASSUME NEW next, Overtakes(r, next)
      PROVE  editor'[s].at = editor[s].at
  BY <1>1 DEF Overtakes, SettingsTypeOK
<1>2. CASE SaveForm(r) \/ NameWatermark(r) \/ UnnameWatermark(r)
  BY <1>1, <1>2, SaveTypes DEF SetEncodingConfig
<1>3. CASE PutWatermark(r)
  BY <1>1, <1>3 DEF PutWatermark
<1>4. CASE RemoveWatermark(r)
  <2>1. CASE Goes(r, "unname")
    BY <2>1 DEF Goes, SettingsTypeOK
  <2> QED BY <1>1, <1>4, <2>1 DEF RemoveWatermark
<1>5. CASE OpenForm(r) \/ StartUpload(r)
  BY <1>5 DEF OpenForm, StartUpload, SettingsTypeOK
<1>6. CASE ReadForUpload(r) \/ StartDelete(r)
  BY <1>6 DEF ReadForUpload, StartDelete, SettingsTypeOK
<1>7. CASE GiveUp(r)
  BY <1>7 DEF GiveUp, SettingsTypeOK
<1> QED BY <1>2, <1>3, <1>4, <1>5, <1>6, <1>7 DEF Edit

LEMMA NamedKept ==
  ASSUME SettingsTypeOK, \A r \in Editors : Informed(r), NamedImageExists,
         [SettingsNext]_settingsVars
  PROVE  NamedImageExists'
<1> SUFFICES ASSUME library'.named, image' = NoImage
             PROVE  slip' \/ \E r \in Editors : Removing(r)'
  BY DEF NamedImageExists
<1>1. ASSUME NEW r \in Editors, Edit(r)
      PROVE  slip' \/ \E s \in Editors : Removing(s)'
  <2> USE <1>1
  (* Whoever is at a removal, and is not r, still is.                         *)
  <2>1. ASSUME library.named, image = NoImage, slip => slip', editor[r].at # "unname"
        PROVE  slip' \/ \E s \in Editors : Removing(s)'
    <3>1. CASE slip
      BY <2>1, <3>1
    <3>2. ASSUME NEW s \in Editors, Removing(s)
          PROVE  Removing(s)'
      <4>1. s # r
        BY <2>1, <3>2 DEF Removing
      <4>2. editor'[s].at = editor[s].at
        BY <4>1, OthersStay
      <4> QED BY <3>2, <4>2 DEF Removing
    <3> QED BY <2>1, <3>1, <3>2 DEF NamedImageExists
  <2>2. CASE SaveForm(r)
    <3>1. PICK row \in Rows :
            /\ SetEncodingConfig(r, row)
            /\ library'.named = row.named /\ row.named = editor[r].row.named
      BY <2>2, SaveTypes
    <3>2. image' = image /\ slip' = (slip \/ editor[r].overtaken) /\ editor[r].at = "form"
      <4>1. /\ image' = image /\ editor[r].at = "form"
            /\ slip' = (row.named /\ image = NoImage /\ (slip \/ editor[r].overtaken))
        BY <2>2, <3>1 DEF SetEncodingConfig, SaveForm
      <4>2. row.named /\ image = NoImage
        BY <3>1, <4>1
      <4> QED BY <4>1, <4>2, Zenon
    <3>3. CASE editor[r].overtaken
      BY <3>2, <3>3
    <3>4. CASE ~editor[r].overtaken
      BY <2>1, <3>1, <3>2, <3>4 DEF Informed
    <3> QED BY <3>3, <3>4
  <2>3. CASE NameWatermark(r)
    <3>1. [editor[r].row EXCEPT !.named = TRUE, !.enabled = TRUE] \in Rows
      BY SavesRow
    <3> DEFINE row == [editor[r].row EXCEPT !.named = TRUE, !.enabled = TRUE]
    <3>2. row.named
      BY DEF SettingsTypeOK, Rows
    <3>3. /\ editor[r].at = "name" /\ image' = image
          /\ slip' = (row.named /\ image = NoImage /\ (slip \/ editor[r].overtaken))
      BY <2>3 DEF NameWatermark, SetEncodingConfig
    <3>4. CASE editor[r].overtaken
      BY <3>2, <3>3, <3>4
    <3>5. CASE ~editor[r].overtaken
      BY <3>3, <3>5 DEF Informed
    <3> QED BY <3>4, <3>5
  <2>4. CASE UnnameWatermark(r)
    <3>1. [editor[r].row EXCEPT !.named = FALSE, !.enabled = FALSE] \in Rows
      BY SavesRow
    <3>2. library'.named = [editor[r].row EXCEPT !.named = FALSE, !.enabled = FALSE].named
      BY <2>4, <3>1, Normalized DEF UnnameWatermark, SetEncodingConfig
    <3>3. ~library'.named
      BY <3>2 DEF SettingsTypeOK, Rows
    <3> QED BY <3>3
  <2>5. CASE PutWatermark(r)
    BY <2>5, SettingsAssumption DEF PutWatermark
  <2>6. CASE RemoveWatermark(r)
    BY <2>6 DEF RemoveWatermark, Overtakes, Goes, Removing, SettingsTypeOK
  <2>7. CASE GiveUp(r)
    <3>1. /\ slip' = (slip \/ (editor[r].at = "unname" /\ library.named /\ image = NoImage))
          /\ UNCHANGED <<library, image>>
      BY <2>7 DEF GiveUp
    <3>2. CASE editor[r].at = "unname"
      BY <3>1, <3>2
    <3>3. CASE editor[r].at # "unname"
      BY <2>1, <3>1, <3>3
    <3> QED BY <3>2, <3>3
  <2>8. CASE OpenForm(r) \/ StartUpload(r) \/ ReadForUpload(r) \/ StartDelete(r)
    BY <2>1, <2>8 DEF OpenForm, StartUpload, ReadForUpload, StartDelete
  <2> QED BY <1>1, <2>2, <2>3, <2>4, <2>5, <2>6, <2>7, <2>8 DEF Edit
<1>2. CASE UNCHANGED <<library, image, editor, slip>>
  BY <1>2 DEF NamedImageExists, Removing
<1> QED BY <1>1, <1>2
        DEF SettingsNext, CreateVideo, AddVideoCodec, AskEncrypt, Build, settingsVars

---------------------------------------------------------------------------
(* The snapshot.                                                             *)

LEMMA SnapshotKept ==
  ASSUME SettingsTypeOK, \A v \in LibraryVideos : KeepsSnapshot(v), SnapshotDecides,
         [SettingsNext]_settingsVars
  PROVE  (\A v \in LibraryVideos : KeepsSnapshot(v))' /\ SnapshotDecides'
<1>1. CASE UNCHANGED <<settings, created, ladder>>
  BY <1>1 DEF KeepsSnapshot, SnapshotDecides
<1>2. ASSUME NEW v \in LibraryVideos, CreateVideo(v)
      PROVE  (\A w \in LibraryVideos : KeepsSnapshot(w))' /\ SnapshotDecides'
  <2>1. \A b \in BuildKinds : ladder[v][b] = Unbuilt
    BY <1>2 DEF CreateVideo, KeepsSnapshot
  <2>2. /\ settings' = [settings EXCEPT ![v] = library]
        /\ created' = [created EXCEPT ![v] = library] /\ ladder' = ladder
    BY <1>2 DEF CreateVideo
  <2>3. ASSUME NEW w \in LibraryVideos PROVE KeepsSnapshot(w)'
    BY <2>1, <2>2, SettingsAssumption DEF KeepsSnapshot, SettingsTypeOK
  <2>4. SnapshotDecides'
    BY <2>1, <2>2, SettingsAssumption DEF SnapshotDecides, SettingsTypeOK
  <2> QED BY <2>3, <2>4
<1>3. ASSUME NEW v \in LibraryVideos, NEW c \in Codecs, AddVideoCodec(v, c)
      PROVE  (\A w \in LibraryVideos : KeepsSnapshot(w))' /\ SnapshotDecides'
  <2>1. settings[v] \in Rows
    BY <1>3 DEF AddVideoCodec, SettingsTypeOK
  <2>2. PICK row \in Rows :
          /\ row = WithCodec(settings[v], c)
          /\ row.rungs = settings[v].rungs /\ row.named = settings[v].named
          /\ row.enabled = settings[v].enabled
    BY <2>1, CodecAdded
  <2>3. settings' = [settings EXCEPT ![v] = row] /\ UNCHANGED <<created, ladder>>
    BY <1>3, <2>2 DEF AddVideoCodec
  <2>4. ASSUME NEW w \in LibraryVideos PROVE KeepsSnapshot(w)'
    BY <2>1, <2>2, <2>3, SettingsAssumption DEF KeepsSnapshot, SettingsTypeOK
  <2>5. SnapshotDecides'
    BY <2>3 DEF SnapshotDecides
  <2> QED BY <2>4, <2>5
<1>4. ASSUME NEW v \in LibraryVideos, NEW b \in BuildKinds, Build(v, b)
      PROVE  (\A w \in LibraryVideos : KeepsSnapshot(w))' /\ SnapshotDecides'
  <2>1. /\ settings[v] \in Rows
        /\ created[v].rungs = settings[v].rungs /\ created[v].enabled = settings[v].enabled
        /\ UNCHANGED <<settings, created>>
    BY <1>4, Encoded DEF KeepsSnapshot, Build
  <2>2. /\ \/ settings[v].enabled /\ ladder'[v][b] = Failed
           \/ /\ ladder'[v][b] \in Encodings
              /\ ladder'[v][b].rungs = settings[v].rungs
              /\ ladder'[v][b].mark # NoImage <=> settings[v].enabled
        /\ ladder' = [ladder EXCEPT ![v][b] = ladder'[v][b]]
    BY <1>4, Encoded
  <2>3. \A w \in LibraryVideos, d \in BuildKinds :
          w # v \/ d # b => ladder'[w][d] = ladder[w][d]
    BY <2>2 DEF SettingsTypeOK
  <2>4. ASSUME NEW w \in LibraryVideos PROVE KeepsSnapshot(w)'
    BY <2>1, <2>3, SettingsAssumption DEF KeepsSnapshot
  <2>5. SnapshotDecides'
    <3> SUFFICES ASSUME NEW w \in LibraryVideos, NEW d \in BuildKinds
                 PROVE  /\ ladder'[w][d] \in Encodings =>
                             /\ ladder'[w][d].rungs = created'[w].rungs
                             /\ ladder'[w][d].mark # NoImage <=> created'[w].enabled
                        /\ ladder'[w][d] = Failed => created'[w].enabled
      BY DEF SnapshotDecides
    <3>1. CASE w = v /\ d = b
      BY <2>1, <2>2, <3>1, SettingsAssumption
    <3>2. CASE ~(w = v /\ d = b)
      BY <2>1, <2>3, <3>2 DEF SnapshotDecides
    <3> QED BY <3>1, <3>2
  <2> QED BY <2>4, <2>5
<1>5. ASSUME NEW v \in LibraryVideos, AskEncrypt(v)
      PROVE  (\A w \in LibraryVideos : KeepsSnapshot(w))' /\ SnapshotDecides'
  <2>1. /\ settings[v] # Uncreated /\ UNCHANGED <<settings, created>>
        /\ ladder' = [ladder EXCEPT ![v]["encrypted"] = Requested]
    BY <1>5 DEF AskEncrypt
  <2>2. /\ \A w \in LibraryVideos : w # v => ladder'[w] = ladder[w]
        /\ \A d \in BuildKinds : ladder'[v][d] \in {Requested, ladder[v][d]}
    BY <2>1 DEF SettingsTypeOK, BuildKinds
  <2>3. ASSUME NEW w \in LibraryVideos PROVE KeepsSnapshot(w)'
    BY <2>1, <2>2 DEF KeepsSnapshot
  <2>4. SnapshotDecides'
    BY <2>1, <2>2, SettingsAssumption DEF SnapshotDecides
  <2> QED BY <2>3, <2>4
<1>6. ASSUME NEW r \in Editors, Edit(r)
      PROVE  UNCHANGED <<settings, created, ladder>>
  BY <1>6 DEF Edit, OpenForm, SaveForm, StartUpload, PutWatermark, ReadForUpload,
              NameWatermark, StartDelete, RemoveWatermark, UnnameWatermark, GiveUp,
              SetEncodingConfig
<1> QED BY <1>1, <1>2, <1>3, <1>4, <1>5, <1>6 DEF SettingsNext, settingsVars

---------------------------------------------------------------------------
LEMMA SettingsHold == SettingsSpec => []SettingsInv
<1>1. SettingsInv /\ [SettingsNext]_settingsVars => SettingsInv'
  BY TypesKept, InformedKept, NamedKept, SnapshotKept DEF SettingsInv
<1> QED BY <1>1, InitHolds, PTL DEF SettingsSpec

(* Types; no row, the library's or a video's, turns on a watermark it does not  *)
(* name.                                                                     *)
THEOREM SettingsTypesCorrect == SettingsSpec => []SettingsTypeOK
<1>1. SettingsInv => SettingsTypeOK
  BY DEF SettingsInv
<1> QED BY <1>1, SettingsHold, PTL

(* A watermark that the library's row names is in the bucket, but for a removal *)
(* between the two, a removal cut off there, or a save that was overtaken.      *)
THEOREM NamedImageFound == SettingsSpec => []NamedImageExists
<1>1. SettingsInv => NamedImageExists
  BY DEF SettingsInv
<1> QED BY <1>1, SettingsHold, PTL

(* A video's encodes follow the defaults at its creation.                      *)
THEOREM SnapshotRules == SettingsSpec => []SnapshotDecides
<1>1. SettingsInv => SnapshotDecides
  BY DEF SettingsInv
<1> QED BY <1>1, SettingsHold, PTL

(* Only a save that was overtaken changes what its request did not mean to.     *)
THEOREM OnlyOvertakenUndo == SettingsSpec => OnlyOvertakenSavesUndo
<1>1. SettingsInv /\ [SettingsNext]_settingsVars =>
        [\A r \in Editors : Undoes(r) => editor[r].overtaken]_settingsVars
  <2> SUFFICES ASSUME SettingsInv, NEW r \in Editors, Undoes(r), ~editor[r].overtaken
               PROVE  FALSE
    OBVIOUS
  <2>1. SettingsTypeOK /\ Informed(r)
    BY DEF SettingsInv
  <2> DEFINE on == [editor[r].row EXCEPT !.named = TRUE, !.enabled = TRUE]
             off == [editor[r].row EXCEPT !.named = FALSE, !.enabled = FALSE]
  <2>2. /\ on \in Rows /\ on.rungs = editor[r].row.rungs
        /\ off \in Rows /\ off.rungs = editor[r].row.rungs
    BY <2>1 DEF SettingsTypeOK, Rows
  <2>3. CASE NameWatermark(r) /\ library'.rungs # library.rungs
    <3>1. editor[r].row = library
      BY <2>1, <2>3 DEF NameWatermark, Informed
    <3>2. library' = NormalizeConfig(on)
      BY <2>3 DEF NameWatermark, SetEncodingConfig
    <3> HIDE DEF on
    <3> QED BY <2>2, <2>3, <3>1, <3>2, Normalized
  <2>4. CASE UnnameWatermark(r) /\ library'.rungs # library.rungs
    <3>1. editor[r].row = library
      BY <2>1, <2>4 DEF UnnameWatermark, Informed
    <3>2. library' = NormalizeConfig(off)
      BY <2>4 DEF UnnameWatermark, SetEncodingConfig
    <3> HIDE DEF off
    <3> QED BY <2>2, <2>4, <3>1, <3>2, Normalized
  <2>5. CASE SaveForm(r) /\ library'.named # library.named
    <3>1. editor[r].row = library
      BY <2>1, <2>5 DEF SaveForm, Informed
    <3> QED BY <2>1, <2>5, <3>1, SaveTypes
  <2> QED BY <2>3, <2>4, <2>5 DEF Undoes
<1> QED BY <1>1, SettingsHold, PTL DEF SettingsSpec, OnlyOvertakenSavesUndo

-----------------------------------------------------------------------------
(* Every row of folders, progress and settings stays well typed, whatever the  *)
(* requests of the three parts do at the same time.                          *)
THEOREM LibraryTyped == LibrarySpec => []TypesOK
<1>1. TypesOK <=> TreeTypeOK /\ ProgressTypeOK /\ SettingsTypeOK
  BY DEF TypesOK
<1> QED
  BY <1>1, TreeTypesCorrect, ProgressTypesCorrect, SettingsTypesCorrect, PTL
     DEF LibrarySpec

-----------------------------------------------------------------------------
(* The rate limit. The history never shrinks from one tick to the next, and    *)
(* stands still after the bucket was last asked.                             *)
BucketRows == [there : BOOLEAN, tokens : 0..Burst, last : Nat, seen : Nat]

LimitTyped ==
  /\ tick \in 0..MaxTick
  /\ admitted \in [0..MaxTick -> Nat]
  /\ bucket \in BucketRows
  /\ \A s, t \in 0..tick : s <= t => admitted[s] <= admitted[t]
  /\ bucket.there => /\ bucket.last <= bucket.seen /\ bucket.seen <= tick
                     /\ admitted[tick] = admitted[bucket.seen]

(* What the bucket has left, and a bucket that is not there has it all.        *)
Left == IF bucket.there THEN Available(bucket) ELSE Burst

(* Whenever a stretch of time begins, what it has let through and what it could *)
(* still let through at once are within the limit. A bucket that is not there  *)
(* must not be counted less than a full one, which is what makes Reap hard.    *)
Funded ==
  \A from \in 0..tick : Total(from, tick) + Left <= Burst + Refill * (tick - from)

LimitInv == LimitTyped /\ Funded /\ WithinLimit

(* Arithmetic. *)
LEMMA Spread ==
  ASSUME NEW r \in Nat, NEW a \in Nat, NEW b \in Nat
  PROVE  r * (a + b) = r * a + r * b /\ r * a \in Nat
  OBVIOUS

LEMMA Grows ==
  ASSUME NEW r \in Nat, NEW a \in Nat, NEW b \in Nat, a <= b
  PROVE  r * a <= r * b
<1>1. PICK d \in Nat : b = a + d
  <2>1. b - a \in Nat /\ b = a + (b - a)
    OBVIOUS
  <2> QED BY <2>1
<1> QED BY <1>1, Spread

(* The facts of LimitTyped that most steps need. *)
LEMMA Fields ==
  ASSUME LimitTyped
  PROVE  /\ tick \in Nat /\ tick <= MaxTick /\ MaxTick \in Nat
         /\ bucket.there \in BOOLEAN /\ bucket.tokens \in 0..Burst
         /\ bucket.last \in Nat /\ bucket.seen \in Nat
         /\ bucket.there => bucket.last <= bucket.seen /\ bucket.seen <= tick
         /\ \A s \in 0..tick : admitted[s] \in Nat
  BY RefillAssumption DEF LimitTyped, BucketRows

(* A bucket holds between none and the burst, and with time it only fills.     *)
LEMMA AvailableBounds ==
  ASSUME LimitTyped, bucket.there
  PROVE  Available(bucket) \in 0..Burst
<1>1. bucket.tokens \in 0..Burst /\ tick - bucket.last \in Nat
  BY Fields
<1>2. Refill * (tick - bucket.last) \in Nat
  BY <1>1, Spread, RefillAssumption
<1> QED BY <1>1, <1>2, RefillAssumption DEF Available

LEMMA LeftBounds ==
  ASSUME LimitTyped
  PROVE  Left \in 0..Burst
  BY AvailableBounds, RefillAssumption DEF Left

LEMMA TotalIsNat ==
  ASSUME LimitTyped, NEW from \in 0..tick, NEW to \in from..tick
  PROVE  Total(from, to) \in Nat /\ Before(from) \in Nat
<1>1. admitted[to] \in Nat /\ to \in 0..tick
  BY Fields
<1>2. CASE from = 0
  BY <1>1, <1>2 DEF Total, Before
<1>3. CASE from # 0
  <2>1. from - 1 \in 0..tick /\ from - 1 <= to
    BY <1>3, Fields
  <2>2. admitted[from - 1] \in Nat /\ admitted[from - 1] <= admitted[to]
    BY <1>1, <2>1, Fields DEF LimitTyped
  <2> QED BY <1>1, <1>3, <2>2 DEF Total, Before
<1> QED BY <1>2, <1>3

(* Nothing is let through after the bucket was last asked.                     *)
LEMMA IdleTotal ==
  ASSUME LimitTyped, bucket.there, NEW from \in 0..tick
  PROVE  /\ from <= bucket.seen => Total(from, tick) = Total(from, bucket.seen)
         /\ from > bucket.seen => Total(from, tick) = 0
<1>1. bucket.seen \in 0..tick /\ admitted[tick] = admitted[bucket.seen]
  BY Fields DEF LimitTyped
<1>2. ASSUME from > bucket.seen PROVE Total(from, tick) = 0
  <2>1. from - 1 \in 0..tick /\ bucket.seen <= from - 1 /\ from # 0 /\ tick \in 0..tick
    BY <1>1, <1>2, Fields
  <2>2. admitted[bucket.seen] <= admitted[from - 1] /\ admitted[from - 1] <= admitted[tick]
    BY <1>1, <2>1 DEF LimitTyped
  <2>3. admitted[tick] \in Nat /\ admitted[from - 1] \in Nat
    BY <2>1, Fields
  <2> QED BY <1>1, <2>1, <2>2, <2>3 DEF Total, Before
<1> QED BY <1>1, <1>2 DEF Total

-----------------------------------------------------------------------------
LEMMA InitLimited == LimitInit => LimitInv
<1> SUFFICES ASSUME LimitInit PROVE LimitInv
  OBVIOUS
<1>1. LimitTyped
  BY RefillAssumption DEF LimitInit, LimitTyped, NoBucket, BucketRows
<1>2. Total(0, 0) = 0 /\ tick = 0 /\ Left = Burst
  BY RefillAssumption DEF LimitInit, Total, Before, Left, NoBucket
<1>3. Refill * (0 - 0) = 0
  BY RefillAssumption
<1> QED BY <1>1, <1>2, <1>3, RefillAssumption DEF LimitInv, Funded, WithinLimit

(* The bucket that a request holds has what was left.                          *)
LEMMA LimiterLeft ==
  ASSUME LimitTyped, NEW b, b = LimiterFor
  PROVE  /\ b \in BucketRows /\ b.there /\ b.last <= tick /\ b.seen = tick
         /\ Available(b) = Left
<1>1. CASE bucket.there
  <2>1. b = [bucket EXCEPT !.seen = tick] /\ bucket \in BucketRows /\ tick \in Nat
    BY <1>1, Fields DEF LimitTyped, LimiterFor
  <2>2. /\ b \in BucketRows /\ b.there = bucket.there /\ b.last = bucket.last
        /\ b.seen = tick /\ b.tokens = bucket.tokens
    BY <2>1 DEF BucketRows
  <2> QED BY <1>1, <2>2, Fields DEF Available, Left
<1>2. CASE ~bucket.there
  <2>1. b = [there |-> TRUE, tokens |-> Burst, last |-> tick, seen |-> tick] /\ tick \in Nat
    BY <1>2, Fields DEF LimiterFor, NewLimiter
  <2>2. tick - tick = 0 /\ Refill * 0 = 0
    BY <2>1, RefillAssumption
  <2>3. b.tokens = Burst /\ b.last = tick /\ b.seen = tick /\ b.there
    BY <2>1
  <2>4. Available(b) = Burst
    BY <2>2, <2>3, RefillAssumption DEF Available
  <2>5. b \in BucketRows
    BY <2>1, RefillAssumption DEF BucketRows
  <2> QED BY <1>2, <2>1, <2>3, <2>4, <2>5 DEF Left
<1> QED BY <1>1, <1>2

LEMMA RequestLimited ==
  ASSUME LimitInv, Request
  PROVE  LimitInv'
<1> DEFINE b == LimiterFor
           t == Available(b)
<1> USE RefillAssumption
<1>1. /\ b \in BucketRows /\ b.there /\ b.last <= tick /\ b.seen = tick
      /\ t = Left /\ t \in 0..Burst
  BY LimiterLeft, LeftBounds DEF LimitInv
<1>2. tick' = tick /\ tick \in 0..MaxTick
  BY DEF Request, LimitInv, LimitTyped
<1> HIDE DEF b
<1>3. CASE t > 0
  <2>1. /\ bucket' = [b EXCEPT !.tokens = t - 1, !.last = tick]
        /\ admitted' = [admitted EXCEPT ![tick] = @ + 1]
    BY <1>3 DEF Request, b
  <2> HIDE DEF t
  <2>2. /\ bucket' \in BucketRows /\ bucket'.there /\ bucket'.tokens = t - 1
        /\ bucket'.last = tick /\ bucket'.seen = tick
    <3>1. t - 1 \in 0..Burst /\ tick \in Nat
      BY <1>1, <1>2, <1>3
    <3> QED BY <1>1, <2>1, <3>1 DEF BucketRows
  <2>3. /\ admitted' \in [0..MaxTick -> Nat] /\ admitted'[tick] = admitted[tick] + 1
        /\ \A s \in 0..tick : s # tick => admitted'[s] = admitted[s]
    BY <1>2, <2>1 DEF LimitInv, LimitTyped
  <2>4. LimitTyped'
    <3>1. ASSUME NEW s \in 0..tick, NEW u \in 0..tick, s <= u
          PROVE  admitted'[s] <= admitted'[u]
      <4>1. admitted[s] <= admitted[u] /\ admitted[s] \in Nat /\ admitted[u] \in Nat
        BY <3>1, <1>2, Fields DEF LimitInv, LimitTyped
      <4>2. s = tick => u = tick
        BY <3>1, <1>2
      <4> QED BY <2>3, <4>1, <4>2
    <3> QED BY <1>2, <2>2, <2>3, <3>1 DEF LimitTyped
  <2>5. Left' = t - 1
    <3>1. Refill * (tick - tick) = 0
      BY <1>2
    <3>2. Available(bucket)' = t - 1
      BY <1>1, <1>2, <2>2, <3>1 DEF Available
    <3> QED BY <2>2, <3>2 DEF Left
  <2>6. \A from \in 0..tick : Total(from, tick)' = Total(from, tick) + 1
    <3>1. \A from \in 0..tick : Before(from)' = Before(from) /\ Before(from) \in Int
      <4> SUFFICES ASSUME NEW from \in 0..tick
                   PROVE  Before(from)' = Before(from) /\ Before(from) \in Int
        OBVIOUS
      <4>1. from # 0 => from - 1 \in 0..tick /\ from - 1 # tick
        BY <1>2, Fields DEF LimitInv
      <4>2. from # 0 => admitted'[from - 1] = admitted[from - 1] /\ admitted[from - 1] \in Nat
        BY <2>3, <4>1, Fields DEF LimitInv
      <4> QED BY <1>2, <4>2 DEF Before
    <3> QED BY <1>2, <2>3, <3>1, Fields DEF Total, LimitInv
  <2>7. \A from, to \in 0..tick : from <= to /\ to # tick => Total(from, to)' = Total(from, to)
    BY <1>2, <2>3 DEF Total, Before
  <2>8. ASSUME NEW from \in 0..tick
        PROVE  /\ Total(from, tick)' + Left' <= Burst + Refill * (tick - from)
               /\ Total(from, tick)' <= Burst + Refill * (tick - from)
    <3>1. Total(from, tick) + Left <= Burst + Refill * (tick - from)
      BY DEF LimitInv, Funded
    <3>2. Total(from, tick) \in Nat /\ Refill * (tick - from) \in Nat
      <4>1. tick \in from..tick /\ tick - from \in Nat
        BY <1>2
      <4> QED BY <4>1, TotalIsNat, Spread DEF LimitInv
    <3> QED BY <1>1, <1>3, <2>5, <2>6, <3>1, <3>2
  <2>9. Funded' /\ WithinLimit'
    BY <1>2, <2>7, <2>8 DEF Funded, WithinLimit, LimitInv
  <2> QED BY <2>4, <2>9 DEF LimitInv
<1>4. CASE ~(t > 0)
  <2>1. bucket' = b /\ admitted' = admitted
    BY <1>4 DEF Request, b
  <2>2. LimitTyped'
    BY <1>1, <1>2, <2>1 DEF LimitInv, LimitTyped
  <2>3. Left' = Left
    BY <1>1, <1>2, <2>1 DEF Left, Available
  <2>4. \A from, to \in 0..tick : Total(from, to)' = Total(from, to)
    BY <2>1 DEF Total, Before
  <2>5. Funded' /\ WithinLimit'
    BY <1>2, <2>3, <2>4 DEF Funded, WithinLimit, LimitInv
  <2> QED BY <2>2, <2>5 DEF LimitInv
<1> QED BY <1>3, <1>4

(* A bucket is dropped when it would be full: the stretches before it was last *)
(* asked have since been refilled, those after it let nothing through.         *)
LEMMA ReapLimited ==
  ASSUME LimitInv, Reap
  PROVE  LimitInv'
<1> USE RefillAssumption
<1>1. bucket.there /\ bucket.seen + IdleTicks < tick /\ bucket' = NoBucket
      /\ tick' = tick /\ admitted' = admitted
  BY DEF Reap
<1>2. LimitTyped'
  BY <1>1 DEF LimitInv, LimitTyped, NoBucket, BucketRows
<1>3. \A from, to \in 0..tick : Total(from, to)' = Total(from, to)
  BY <1>1 DEF Total, Before
<1>4. tick \in Nat /\ bucket.seen \in 0..tick
  BY <1>1, Fields DEF LimitInv
<1>5. ASSUME NEW from \in 0..tick
      PROVE  Total(from, tick) <= Refill * (tick - from)
  <2>1. tick - from \in Nat /\ Refill * (tick - from) \in Nat
    BY <1>4, Spread
  <2>2. CASE from > bucket.seen
    BY <1>1, <2>1, <2>2, IdleTotal DEF LimitInv
  <2>3. CASE from <= bucket.seen
    <3>1. bucket.seen - from \in Nat /\ from \in 0..tick /\ bucket.seen \in from..tick
      BY <1>4, <2>3
    <3>2. Total(from, tick) <= Burst + Refill * (bucket.seen - from)
      BY <1>1, <1>4, <2>3, IdleTotal DEF LimitInv, WithinLimit
    <3>3. Refill * (IdleTicks + (bucket.seen - from)) = Refill * IdleTicks + Refill * (bucket.seen - from)
      BY <3>1, Spread
    <3>4. IdleTicks + (bucket.seen - from) \in Nat /\ IdleTicks + (bucket.seen - from) <= tick - from
      BY <1>1, <1>4, <3>1
    <3>5. Refill * (IdleTicks + (bucket.seen - from)) <= Refill * (tick - from)
      BY <2>1, <3>4, Grows
    <3>6. Refill * IdleTicks \in Nat /\ Refill * (bucket.seen - from) \in Nat
      BY <3>1, Spread
    <3>7. Total(from, tick) \in Nat
      <4>1. tick \in from..tick
        BY <1>4
      <4> QED BY <4>1, TotalIsNat DEF LimitInv
    <3> QED BY <2>1, <3>2, <3>3, <3>5, <3>6, <3>7
  <2> QED BY <1>4, <2>2, <2>3
<1>6. Left' = Burst
  BY <1>1 DEF Left, NoBucket
<1>7. Funded'
  <2> SUFFICES ASSUME NEW from \in 0..tick
               PROVE  Total(from, tick) + Burst <= Burst + Refill * (tick - from)
    BY <1>1, <1>3, <1>4, <1>6 DEF Funded
  <2>1. tick \in from..tick /\ tick - from \in Nat
    BY <1>4
  <2>2. Total(from, tick) \in Nat /\ Refill * (tick - from) \in Nat
    BY <2>1, TotalIsNat, Spread DEF LimitInv
  <2> QED BY <1>5, <2>2
<1>8. WithinLimit'
  BY <1>1, <1>3 DEF WithinLimit, LimitInv
<1> QED BY <1>2, <1>7, <1>8 DEF LimitInv

(* A tick refills no more than it allows.                                      *)
LEMMA TickLimited ==
  ASSUME LimitInv, Tick
  PROVE  LimitInv'
<1> USE RefillAssumption
<1>1. /\ tick < MaxTick /\ tick' = tick + 1 /\ bucket' = bucket
      /\ admitted' = [admitted EXCEPT ![tick + 1] = admitted[tick]]
  BY DEF Tick
<1>2. tick \in Nat /\ tick + 1 \in 0..MaxTick /\ admitted[tick] \in Nat
  BY <1>1 DEF LimitInv, LimitTyped
<1>3. /\ admitted' \in [0..MaxTick -> Nat] /\ admitted'[tick + 1] = admitted[tick]
      /\ \A s \in 0..tick : admitted'[s] = admitted[s]
  BY <1>1, <1>2 DEF LimitInv, LimitTyped
<1>4. LimitTyped'
  <2>1. ASSUME NEW s \in 0..(tick + 1), NEW u \in 0..(tick + 1), s <= u
        PROVE  admitted'[s] <= admitted'[u]
    <3>1. CASE u \in 0..tick
      <4>1. s \in 0..tick
        BY <1>2, <2>1, <3>1
      <4>2. admitted[s] <= admitted[u]
        BY <2>1, <3>1, <4>1 DEF LimitInv, LimitTyped
      <4> QED BY <1>3, <3>1, <4>1, <4>2
    <3>2. CASE u = tick + 1 /\ s \in 0..tick
      <4>1. admitted[s] <= admitted[tick]
        BY <1>2, <3>2 DEF LimitInv, LimitTyped
      <4> QED BY <1>3, <3>2, <4>1
    <3>3. CASE u = tick + 1 /\ s = tick + 1
      BY <1>2, <1>3, <3>3
    <3> QED BY <1>2, <2>1, <3>1, <3>2, <3>3
  <2>2. bucket.there => bucket.seen \in 0..tick
    BY Fields DEF LimitInv
  <2> QED BY <1>1, <1>2, <1>3, <2>1, <2>2 DEF LimitInv, LimitTyped
<1>5. Left' <= Left + Refill /\ Left' \in 0..Burst /\ Left \in 0..Burst
  <2>1. Left \in 0..Burst
    BY LeftBounds DEF LimitInv
  <2>2. CASE ~bucket.there
    BY <1>1, <2>1, <2>2 DEF Left
  <2>3. CASE bucket.there
    <3>1. bucket.tokens \in 0..Burst /\ tick - bucket.last \in Nat
          /\ (tick + 1) - bucket.last = (tick - bucket.last) + 1
      BY <1>2, <2>3, Fields DEF LimitInv
    <3>2. Refill * ((tick + 1) - bucket.last) = Refill * (tick - bucket.last) + Refill
          /\ Refill * (tick - bucket.last) \in Nat
      BY <3>1, Spread
    <3>3. Left = Available(bucket) /\ Left' = Available(bucket)'
      BY <1>1, <2>3 DEF Left
    <3> QED BY <1>1, <2>1, <3>1, <3>2, <3>3 DEF Available
  <2> QED BY <2>1, <2>2, <2>3
<1>6. \A from, to \in 0..tick : Total(from, to)' = Total(from, to)
  BY <1>2, <1>3 DEF Total, Before
<1>7. \A from \in 0..tick : Total(from, tick)' = Total(from, tick)
  <2> TAKE from \in 0..tick
  <2>1. Before(from)' = Before(from)
    BY <1>2, <1>3 DEF Before
  <2>2. admitted'[tick'] = admitted[tick]
    BY <1>1, <1>3
  <2> QED BY <2>1, <2>2 DEF Total
<1>8. /\ tick + 1 # 0 /\ (tick + 1) - 1 = tick
      /\ admitted'[tick + 1] - admitted'[tick] = 0
  <2>1. tick \in 0..tick
    BY <1>2
  <2>2. admitted'[tick + 1] = admitted[tick] /\ admitted'[tick] = admitted[tick]
    BY <1>3, <2>1
  <2>3. tick + 1 # 0 /\ (tick + 1) - 1 = tick
    BY <1>2
  <2>4. admitted[tick] - admitted[tick] = 0
    BY <1>2
  <2> QED BY <2>2, <2>3, <2>4
<1>9. ASSUME NEW from \in 0..(tick + 1)
      PROVE  /\ Total(from, tick)' + Left' <= Burst + Refill * ((tick + 1) - from)
             /\ Total(from, tick)' <= Burst + Refill * ((tick + 1) - from)
  <2>1. CASE from = tick + 1
    <3>1. (tick + 1) - from = 0 /\ Refill * 0 = 0
      BY <1>2, <2>1
    <3>2. Total(from, tick)' = 0
      BY <1>1, <1>8, <2>1 DEF Total, Before
    <3> QED BY <1>5, <2>1, <3>1, <3>2
  <2>2. CASE from \in 0..tick
    <3>1. tick - from \in Nat /\ (tick + 1) - from = (tick - from) + 1 /\ tick \in from..tick
      BY <1>2, <2>2
    <3>2. Refill * ((tick + 1) - from) = Refill * (tick - from) + Refill
          /\ Refill * (tick - from) \in Nat
      BY <3>1, Spread
    <3>3. Total(from, tick) + Left <= Burst + Refill * (tick - from)
      BY <2>2 DEF LimitInv, Funded
    <3>4. Total(from, tick) \in Nat
      BY <2>2, <3>1, TotalIsNat DEF LimitInv
    <3> QED BY <1>5, <1>7, <2>2, <3>2, <3>3, <3>4
  <2> QED BY <1>2, <2>1, <2>2
<1>10. Funded'
  BY <1>1, <1>9 DEF Funded
<1>11. WithinLimit'
  <2> SUFFICES ASSUME NEW from \in 0..(tick + 1), NEW to \in 0..(tick + 1), from <= to
               PROVE  Total(from, to)' <= Burst + Refill * (to - from)
    BY <1>1 DEF WithinLimit
  <2>1. CASE to = tick + 1
    BY <1>1, <1>9, <2>1
  <2>2. CASE to \in 0..tick
    <3>1. from \in 0..tick
      BY <1>2, <2>2
    <3> QED BY <1>6, <2>2, <3>1 DEF LimitInv, WithinLimit
  <2> QED BY <1>2, <2>1, <2>2
<1> QED BY <1>4, <1>10, <1>11 DEF LimitInv

LEMMA StutterLimited ==
  ASSUME LimitInv, UNCHANGED limitVars
  PROVE  LimitInv'
  BY DEF LimitInv, LimitTyped, Funded, WithinLimit, Left, Available, Total, Before,
       limitVars, NoBucket

LEMMA LimitInvariant == LimitSpec => []LimitInv
<1>1. ASSUME LimitInv, [LimitNext]_limitVars PROVE LimitInv'
  BY <1>1, RequestLimited, ReapLimited, TickLimited, StutterLimited DEF LimitNext
<1> QED BY <1>1, InitLimited, PTL DEF LimitSpec

(* No stretch of ticks lets more through than the burst and what came back in  *)
(* it, although buckets are dropped and made anew full (ratelimit.go: reap).   *)
THEOREM LimitHolds == LimitSpec => []WithinLimit
<1>1. LimitInv => WithinLimit
  BY DEF LimitInv
<1> QED BY <1>1, LimitInvariant, PTL

-----------------------------------------------------------------------------
(* The events, and what is in scope of a rollup. *)

EventRows == [video : Watched, session : Sessions, country : Countries \cup {NoCountry},
              day : Nat, type : STRING, position : Int \cup {NoPosition}, copy : Nat]

AnalyticsTyped ==
  /\ events \in SUBSET EventRows /\ IsFiniteSet(events)
  /\ videoRows \in SUBSET Watched /\ date \in Nat

LEMMA AnalyticsInitTyped == AnalyticsInit => AnalyticsTyped
<1>1. IsFiniteSet({})
  BY FS_EmptySet
<1> QED BY <1>1 DEF AnalyticsInit, AnalyticsTyped

LEMMA AnalyticsNextTyped ==
  ASSUME AnalyticsTyped, [AnalyticsNext]_analyticsVars
  PROVE  AnalyticsTyped'
<1> USE DEF AnalyticsTyped
<1>1. CASE InsertPlaybackEvent
  <2>1. PICK v \in Watched, s \in Sessions, c \in Countries \cup {NoCountry}, b \in Beacons :
          LET row == [video |-> v, session |-> s, country |-> c, day |-> date,
                      type |-> b.type, position |-> b.position, copy |-> 0]
              before == Cardinality({e \in events : SameRow(e, row)})
          IN events' = events \cup {[row EXCEPT !.copy = before]}
    BY <1>1 DEF InsertPlaybackEvent
  <2> DEFINE row == [video |-> v, session |-> s, country |-> c, day |-> date,
                     type |-> b.type, position |-> b.position, copy |-> 0]
             before == Cardinality({e \in events : SameRow(e, row)})
  <2>2. before \in Nat
    BY FS_Subset, FS_CardinalityType
  <2>3. b.type \in STRING /\ b.position \in Int \cup {NoPosition}
    BY AnalyticsAssumption
  <2>4. row \in EventRows
    BY <2>3 DEF EventRows
  <2>5. events' = events \cup {[row EXCEPT !.copy = before]}
    BY <2>1
  <2> HIDE DEF row, before
  <2>6. [row EXCEPT !.copy = before] \in EventRows
    BY <2>2, <2>4 DEF EventRows
  <2>7. IsFiniteSet(events')
    BY <2>5, FS_AddElement
  <2> QED BY <1>1, <2>5, <2>6, <2>7 DEF InsertPlaybackEvent
<1>2. CASE PurgeVideo
  BY <1>2 DEF PurgeVideo
<1>3. CASE PrunePlaybackEvents
  <2>1. IsFiniteSet(events')
    BY <1>3, FS_Subset DEF PrunePlaybackEvents
  <2> QED BY <1>3, <2>1 DEF PrunePlaybackEvents
<1>4. CASE NextDate
  BY <1>4 DEF NextDate
<1>5. CASE UNCHANGED analyticsVars
  BY <1>5 DEF analyticsVars
<1> QED BY <1>1, <1>2, <1>3, <1>4, <1>5 DEF AnalyticsNext

LEMMA ScopeTyped ==
  ASSUME AnalyticsTyped, NEW videos, NEW since
  PROVE  /\ EventScope(videos, since) \in SUBSET EventRows
         /\ IsFiniteSet(EventScope(videos, since))
         /\ \A e \in EventScope(videos, since) : e.video \in Watched
<1>1. EventScope(videos, since) \in SUBSET events
  BY DEF EventScope
<1>2. IsFiniteSet(EventScope(videos, since))
  BY <1>1, FS_Subset DEF AnalyticsTyped
<1> QED BY <1>1, <1>2 DEF AnalyticsTyped, EventRows

LEMMA ScopeOfAll ==
  ASSUME AnalyticsTyped, NEW since, NEW v \in Watched
  PROVE  EventScope({v}, since) = {e \in EventScope(Watched, since) : e.video = v}
BY DEF EventScope

(* The furthest of some positions. *)
LEMMA Furthest ==
  ASSUME NEW rows \in SUBSET EventRows, IsFiniteSet(rows), rows # {},
         \A e \in rows : e.position # NoPosition
  PROVE  /\ HighWater(rows) \in Int
         /\ \E e \in rows : e.position = HighWater(rows)
         /\ \A e \in rows : e.position <= HighWater(rows)
<1> DEFINE S == {e.position : e \in rows}
<1>1. S \in SUBSET Int /\ S # {}
  BY DEF EventRows
<1>2. IsFiniteSet(S)
  <2> DEFINE f == [e \in rows |-> e.position]
  <2>1. S = {f[e] : e \in rows}
    OBVIOUS
  <2>2. IsFiniteSet({f[e] : e \in rows})
    <3> HIDE DEF f
    <3> QED BY ImageFinite
  <2> QED BY <2>1, <2>2
<1>3. HighWater(rows) = Max(S)
  BY DEF HighWater
<1>4. \A e \in rows : e.position \in S
  OBVIOUS
<1>5. Max(S) \in S /\ \A x \in S : x <= Max(S)
  <2> HIDE DEF S
  <2> QED BY <1>1, <1>2, MaxOfFinite
<1>6. HighWater(rows) \in Int
  <2> HIDE DEF S
  <2> QED BY <1>1, <1>3, <1>5
<1>7. \A e \in rows : e.position <= HighWater(rows)
  <2> HIDE DEF S
  <2> QED BY <1>3, <1>4, <1>5
<1>8. \E e \in rows : e.position = HighWater(rows)
  BY <1>3, <1>5
<1> QED BY <1>6, <1>7, <1>8

-----------------------------------------------------------------------------
(* Plays, of a session and a video. *)

Played(videos, since) == {e \in Positioned(EventScope(videos, since)) : e.video \in videoRows}
PlayOf(e) == <<e.session, e.video>>
Plays(videos, since) == {PlayOf(e) : e \in Played(videos, since)}
Reached(videos, since) ==
  [g \in Plays(videos, since) |-> HighWater({e \in Played(videos, since) : PlayOf(e) = g})]
Sent(videos, since) ==
  [g \in Plays(videos, since) |->
     SizePerSecond[g[2]] * Smaller(Larger(Reached(videos, since)[g], 0), DurationOf[g[2]])]

LEMMA WatchIs ==
  ASSUME NEW videos, NEW since
  PROVE  WatchAndBandwidth(videos, since)
           = [watch |-> SumFunctionOnSet(Reached(videos, since), Plays(videos, since)),
              plays |-> Cardinality(Plays(videos, since)),
              bytes |-> SumFunctionOnSet(Sent(videos, since), Plays(videos, since)) \div ByteParts]
BY DEF WatchAndBandwidth, Played, PlayOf, Plays, Reached, Sent, SumFunction

LEMMA PlaysTyped ==
  ASSUME AnalyticsTyped, NEW videos, NEW since
  PROVE  /\ IsFiniteSet(Plays(videos, since))
         /\ \A g \in Plays(videos, since) :
              /\ g[2] \in Watched \cap videoRows /\ DurationOf[g[2]] \in Nat
              /\ Reached(videos, since)[g] \in Int
              /\ Sent(videos, since)[g] \in Nat
              /\ Sent(videos, since)[g] <= SizePerSecond[g[2]] * DurationOf[g[2]]
<1>1. Played(videos, since) \in SUBSET EventScope(videos, since)
  BY DEF Played, Positioned
<1>2. IsFiniteSet(Played(videos, since)) /\ Played(videos, since) \in SUBSET EventRows
  BY <1>1, ScopeTyped, FS_Subset
<1>3. IsFiniteSet(Plays(videos, since))
  <2> DEFINE f == [e \in Played(videos, since) |-> PlayOf(e)]
  <2>1. Plays(videos, since) = {f[e] : e \in Played(videos, since)}
    BY DEF Plays
  <2>2. IsFiniteSet({f[e] : e \in Played(videos, since)})
    <3> HIDE DEF f
    <3> QED BY <1>2, ImageFinite
  <2> QED BY <2>1, <2>2
<1>4. ASSUME NEW g \in Plays(videos, since)
      PROVE  /\ g[2] \in Watched \cap videoRows /\ DurationOf[g[2]] \in Nat
             /\ Reached(videos, since)[g] \in Int
             /\ Sent(videos, since)[g] \in Nat
             /\ Sent(videos, since)[g] <= SizePerSecond[g[2]] * DurationOf[g[2]]
  <2> DEFINE rows == {e \in Played(videos, since) : PlayOf(e) = g}
  <2>1. PICK e \in Played(videos, since) : g = PlayOf(e)
    BY DEF Plays
  <2>2. g[2] \in Watched \cap videoRows
    <3>1. g[2] = e.video
      BY <2>1 DEF PlayOf
    <3>2. e.video \in videoRows /\ e \in EventRows
      BY <1>2 DEF Played
    <3> QED BY <3>1, <3>2 DEF EventRows
  <2>3. DurationOf[g[2]] \in Nat /\ SizePerSecond[g[2]] \in Nat
    BY <2>2, AnalyticsAssumption
  <2>4. rows \in SUBSET EventRows /\ IsFiniteSet(rows) /\ rows # {}
    BY <1>2, <2>1, FS_Subset
  <2>5. \A d \in rows : d.position # NoPosition
    BY DEF Played, Positioned
  <2>6. Reached(videos, since)[g] = HighWater(rows)
    BY DEF Reached
  <2>7. Reached(videos, since)[g] \in Int
    <3> HIDE DEF rows
    <3> QED BY <2>4, <2>5, <2>6, Furthest
  <2> DEFINE a == Reached(videos, since)[g]
             d == DurationOf[g[2]]
             c == SizePerSecond[g[2]]
             m == Smaller(Larger(a, 0), d)
  <2>8. Sent(videos, since)[g] = c * m
    BY DEF Sent
  <2> HIDE DEF a, d, c
  <2>9. a \in Int /\ d \in Nat /\ c \in Nat
    BY <2>3, <2>7 DEF a, d, c
  <2>10. m \in Nat /\ m <= d
    BY <2>9 DEF Smaller, Larger
  <2> HIDE DEF m
  <2>11. c * m \in Nat /\ c * m <= c * d
    BY <2>9, <2>10, TimesGrows
  <2> QED BY <2>2, <2>3, <2>7, <2>8, <2>11 DEF d, c
<1> QED BY <1>3, <1>4

-----------------------------------------------------------------------------
(* The rollups of all videos are made of those of each. *)

(* What a play of a video is in the rollup of all, it is in its own.           *)
LEMMA OwnPlays ==
  ASSUME AnalyticsTyped, NEW since, NEW v \in Watched
  PROVE  /\ Plays({v}, since) = {g \in Plays(Watched, since) : g[2] = v}
         /\ \A g \in Plays({v}, since) :
              /\ Reached({v}, since)[g] = Reached(Watched, since)[g]
              /\ Sent({v}, since)[g] = Sent(Watched, since)[g]
<1>1. Played({v}, since) = {e \in Played(Watched, since) : e.video = v}
  BY DEF Played, Positioned, EventScope
<1>2. Plays({v}, since) = {g \in Plays(Watched, since) : g[2] = v}
  <2>1. \A e \in Played(Watched, since) : PlayOf(e)[2] = e.video
    BY DEF PlayOf
  <2>2. ASSUME NEW g \in Plays({v}, since) PROVE g \in Plays(Watched, since) /\ g[2] = v
    <3>1. PICK e \in Played({v}, since) : g = PlayOf(e)
      BY DEF Plays
    <3>2. e \in Played(Watched, since) /\ e.video = v
      BY <1>1
    <3> QED BY <2>1, <3>1, <3>2 DEF Plays
  <2>3. ASSUME NEW g \in Plays(Watched, since), g[2] = v PROVE g \in Plays({v}, since)
    <3>1. PICK e \in Played(Watched, since) : g = PlayOf(e)
      BY DEF Plays
    <3>2. e \in Played({v}, since)
      BY <1>1, <2>1, <2>3, <3>1
    <3> QED BY <3>1, <3>2 DEF Plays
  <2> QED BY <2>2, <2>3
<1>3. ASSUME NEW g \in Plays({v}, since)
      PROVE  Reached({v}, since)[g] = Reached(Watched, since)[g]
  <2>1. g[2] = v /\ g \in Plays(Watched, since)
    BY <1>2
  <2>2. {e \in Played({v}, since) : PlayOf(e) = g}
          = {e \in Played(Watched, since) : PlayOf(e) = g}
    BY <1>1, <2>1 DEF PlayOf
  <2> QED BY <2>1, <2>2 DEF Reached
<1>4. ASSUME NEW g \in Plays({v}, since) PROVE Sent({v}, since)[g] = Sent(Watched, since)[g]
  BY <1>2, <1>3 DEF Sent
<1> QED BY <1>2, <1>3, <1>4

LEMMA PlaysAdd ==
  ASSUME AnalyticsTyped, NEW since, NEW F, NEW T,
         \A g \in Plays(Watched, since) : F[g] \in Int,
         \A v \in Watched : T[v] = SumFunctionOnSet(F, Plays({v}, since))
  PROVE  SumFunctionOnSet(T, Watched) = SumFunctionOnSet(F, Plays(Watched, since))
<1> DEFINE G == Plays(Watched, since)
           key == [g \in G |-> g[2]]
<1>1. Groups(G, Watched, key)
  <2>1. IsFiniteSet(G) /\ \A g \in G : g[2] \in Watched
    BY PlaysTyped
  <2> HIDE DEF G
  <2> QED BY <2>1, AnalyticsAssumption DEF Groups
<1>2. SumsOf(T, F, G, Watched, key)
  <2> SUFFICES ASSUME NEW v \in Watched
               PROVE  T[v] = SumFunctionOnSet(F, {g \in G : key[g] = v})
    BY DEF SumsOf
  <2>1. {g \in G : key[g] = v} = Plays({v}, since)
    <3>1. Plays({v}, since) = {g \in Plays(Watched, since) : g[2] = v}
      BY OwnPlays
    <3> QED BY <3>1
  <2> HIDE DEF key, G
  <2> QED BY <2>1
<1> HIDE DEF key
<1> QED BY <1>1, <1>2, SumGrouped

LEMMA WatchAdds ==
  ASSUME AnalyticsTyped, NEW since
  PROVE  WatchAndBandwidth(Watched, since).watch
           = SumFunction([v \in Watched |-> Analytics({v}, since).played.watch])
<1> DEFINE W == [v \in Watched |-> Analytics({v}, since).played.watch]
           R == Reached(Watched, since)
<1>1. ASSUME NEW v \in Watched PROVE W[v] = SumFunctionOnSet(R, Plays({v}, since))
  <2>1. W[v] = SumFunctionOnSet(Reached({v}, since), Plays({v}, since))
    BY WatchIs DEF Analytics
  <2>2. IsFiniteSet(Plays({v}, since))
    BY PlaysTyped
  <2>3. \A g \in Plays({v}, since) : /\ Reached({v}, since)[g] \in Int
                                     /\ Reached({v}, since)[g] = R[g]
    BY PlaysTyped, OwnPlays
  <2> HIDE DEF W, R
  <2>4. SumFunctionOnSet(Reached({v}, since), Plays({v}, since))
          = SumFunctionOnSet(R, Plays({v}, since))
    BY <2>2, <2>3, SumSame
  <2> QED BY <2>1, <2>4
<1>2. \A g \in Plays(Watched, since) : R[g] \in Int
  BY PlaysTyped
<1>3. SumFunction(W) = SumFunctionOnSet(W, Watched)
  <2>1. DOMAIN W = Watched
    OBVIOUS
  <2> HIDE DEF W
  <2> QED BY <2>1, SumOfAll
<1>4. WatchAndBandwidth(Watched, since).watch = SumFunctionOnSet(R, Plays(Watched, since))
  BY WatchIs
<1> HIDE DEF W, R
<1>5. SumFunctionOnSet(W, Watched) = SumFunctionOnSet(R, Plays(Watched, since))
  BY <1>1, <1>2, PlaysAdd
<1>6. WatchAndBandwidth(Watched, since).watch = SumFunction(W)
  BY <1>3, <1>4, <1>5
<1> QED BY <1>6 DEF W

(* Of each video less than a byte is cut off, of all together no more.          *)
LEMMA BytesAdd ==
  ASSUME AnalyticsTyped, NEW since
  PROVE  LET apart == SumFunction([v \in Watched |-> Analytics({v}, since).played.bytes])
             together == WatchAndBandwidth(Watched, since).bytes
         IN apart <= together /\ together <= apart + Cardinality(Watched)
<1> DEFINE B == [v \in Watched |-> Analytics({v}, since).played.bytes]
           S == Sent(Watched, since)
           T == [v \in Watched |-> SumFunctionOnSet(S, Plays({v}, since))]
<1>1. ASSUME NEW v \in Watched
      PROVE  /\ T[v] = SumFunctionOnSet(S, Plays({v}, since)) /\ T[v] \in Nat
             /\ B[v] = T[v] \div ByteParts
  <2>1. B[v] = SumFunctionOnSet(Sent({v}, since), Plays({v}, since)) \div ByteParts
    BY WatchIs DEF Analytics
  <2>2. IsFiniteSet(Plays({v}, since))
    BY PlaysTyped
  <2>3. \A g \in Plays({v}, since) : /\ Sent({v}, since)[g] \in Nat
                                     /\ Sent({v}, since)[g] = S[g]
    BY PlaysTyped, OwnPlays
  <2>4. T[v] = SumFunctionOnSet(S, Plays({v}, since))
    OBVIOUS
  <2> HIDE DEF B, S, T
  <2>5. SumFunctionOnSet(Sent({v}, since), Plays({v}, since))
          = SumFunctionOnSet(S, Plays({v}, since))
    BY <2>2, <2>3, SumSame
  <2>6. \A g \in Plays({v}, since) : S[g] \in Nat
    BY <2>3
  <2>7. SumFunctionOnSet(S, Plays({v}, since)) \in Nat
    BY <2>2, <2>6, SumNat
  <2> QED BY <2>1, <2>4, <2>5, <2>7
<1>2. \A g \in Plays(Watched, since) : S[g] \in Int
  BY PlaysTyped
<1>3. SumFunction(B) = SumFunctionOnSet(B, Watched)
  <2>1. DOMAIN B = Watched
    OBVIOUS
  <2> HIDE DEF B
  <2> QED BY <2>1, SumOfAll
<1>4. WatchAndBandwidth(Watched, since).bytes
        = SumFunctionOnSet(S, Plays(Watched, since)) \div ByteParts
  BY WatchIs
<1> HIDE DEF B, S, T
<1>5. SumFunctionOnSet(T, Watched) = SumFunctionOnSet(S, Plays(Watched, since))
  BY <1>1, <1>2, PlaysAdd
<1>6. /\ SumFunctionOnSet(B, Watched) <= SumFunctionOnSet(T, Watched) \div ByteParts
      /\ SumFunctionOnSet(T, Watched) \div ByteParts
           <= SumFunctionOnSet(B, Watched) + Cardinality(Watched)
  <2>1. IsFiniteSet(Watched) /\ ByteParts \in Nat \ {0}
    BY AnalyticsAssumption
  <2> QED BY <1>1, <2>1, SumFloors
<1>7. LET apart == SumFunction(B)
          together == WatchAndBandwidth(Watched, since).bytes
      IN apart <= together /\ together <= apart + Cardinality(Watched)
  BY <1>3, <1>4, <1>5, <1>6
<1> QED BY <1>7 DEF B

(* The starts of some rows, counted by a field of theirs. *)
StartsIn(rows) == {e \in rows : e.type = "start"}
StartsOf(T, rows, K, key) == \A k \in K : T[k] = Starts({e \in rows : key[e] = k})

LEMMA StartsAdd ==
  ASSUME NEW rows, NEW K, NEW key, Groups(rows, K, key), NEW T, StartsOf(T, rows, K, key)
  PROVE  SumFunctionOnSet(T, K) = Starts(rows)
<1> DEFINE G == StartsIn(rows)
<1>1. IsFiniteSet(G) /\ \A e \in G : e \in rows
  BY FS_Subset DEF StartsIn, Groups
<1>2. Starts(rows) = Cardinality(G)
  BY DEF Starts, StartsIn
<1>3. CountsOf(T, G, K, key)
  <2> SUFFICES ASSUME NEW k \in K PROVE T[k] = Cardinality({e \in G : key[e] = k})
    BY DEF CountsOf
  <2>1. {e \in G : key[e] = k} = {e \in {d \in rows : key[d] = k} : e.type = "start"}
    BY DEF StartsIn
  <2>2. T[k] = Starts({e \in rows : key[e] = k})
    BY DEF StartsOf
  <2> QED BY <2>1, <2>2 DEF Starts
<1> HIDE DEF G
<1>4. Groups(G, K, key)
  BY <1>1 DEF Groups
<1> QED BY <1>2, <1>3, <1>4, CountGrouped

LEMMA LibraryStarts ==
  ASSUME AnalyticsTyped, NEW since
  PROVE  LET of == [v \in Watched |-> Analytics({v}, since)]
         IN Analytics(Watched, since).starts = SumFunction([v \in Watched |-> of[v].starts])
<1> DEFINE of == [v \in Watched |-> Analytics({v}, since)]
           T == [v \in Watched |-> of[v].starts]
           rows == EventScope(Watched, since)
           key == [e \in rows |-> e.video]
<1>1. Analytics(Watched, since).starts = Starts(rows)
  BY DEF Analytics
<1>2. StartsOf(T, rows, Watched, key)
  <2> SUFFICES ASSUME NEW v \in Watched PROVE T[v] = Starts({e \in rows : key[e] = v})
    BY DEF StartsOf
  <2>1. T[v] = Starts(EventScope({v}, since))
    BY DEF Analytics
  <2>2. EventScope({v}, since) = {e \in rows : e.video = v}
    BY ScopeOfAll
  <2>3. {e \in rows : e.video = v} = {e \in rows : key[e] = v}
    OBVIOUS
  <2> QED BY <2>1, <2>2, <2>3
<1>3. Groups(rows, Watched, key)
  <2>1. IsFiniteSet(rows) /\ \A e \in rows : e.video \in Watched
    BY ScopeTyped
  <2>2. \A e \in rows : key[e] = e.video
    OBVIOUS
  <2> HIDE DEF rows, key
  <2> QED BY <2>1, <2>2, AnalyticsAssumption DEF Groups
<1>4. DOMAIN T = Watched
  OBVIOUS
<1> HIDE DEF T, rows, key
<1>5. SumFunctionOnSet(T, Watched) = Starts(rows)
  BY <1>2, <1>3, StartsAdd
<1>6. SumFunction(T) = SumFunctionOnSet(T, Watched)
  BY <1>4, SumOfAll
<1>7. Analytics(Watched, since).starts = SumFunction(T)
  BY <1>1, <1>5, <1>6
<1> QED BY <1>7 DEF T


(* What a ranking holds: rows of its table, and all of them unless it is full.  *)
LEMMA RowsListed ==
  ASSUME NEW table, IsFiniteSet(DOMAIN table), NEW limit \in Nat,
         NEW top \in FirstRows(table, limit)
  PROVE  /\ DOMAIN top \in SUBSET DOMAIN table
         /\ \A k \in DOMAIN top : top[k] = table[k]
         /\ DOMAIN top # DOMAIN table => Cardinality(DOMAIN top) = limit
         /\ \A k \in DOMAIN top, j \in DOMAIN table \ DOMAIN top :
              ~GoesBefore(table[j], table[k])
<1> DEFINE D == DOMAIN table
           n == Smaller(limit, Cardinality(D))
<1>1. PICK S \in kSubset(n, D) :
        /\ \A k \in S, j \in D \ S : ~GoesBefore(table[j], table[k])
        /\ top = Restrict(table, S)
  BY DEF FirstRows
<1>2. S \in SUBSET D /\ Cardinality(S) = n
  BY <1>1 DEF kSubset
<1>3. DOMAIN top = S /\ \A k \in S : top[k] = table[k]
  BY <1>1 DEF Restrict
<1>4. S # D => Cardinality(S) = limit
  <2> SUFFICES ASSUME S # D PROVE Cardinality(S) = limit
    OBVIOUS
  <2>1. Cardinality(D) \in Nat
    BY FS_CardinalityType
  <2>2. Cardinality(S) # Cardinality(D)
    <3>1. PICK x \in D : x \notin S
      BY <1>2
    <3>2. S \in SUBSET (D \ {x})
      BY <1>2, <3>1
    <3>3. IsFiniteSet(D \ {x}) /\ Cardinality(D \ {x}) = Cardinality(D) - 1
      BY <3>1, FS_RemoveElement
    <3>4. Cardinality(S) <= Cardinality(D \ {x}) /\ Cardinality(S) \in Nat
      BY <3>2, <3>3, FS_Subset, FS_CardinalityType
    <3> QED BY <2>1, <3>3, <3>4
  <2> QED BY <1>2, <2>1, <2>2 DEF Smaller
<1> QED BY <1>1, <1>2, <1>3, <1>4

LEMMA ListedInt ==
  ASSUME NEW table, IsFiniteSet(DOMAIN table), \A k \in DOMAIN table : table[k].starts \in Nat
  PROVE  StartsListed(table) \in Int
<1> DEFINE D == DOMAIN table
           F == [k \in D |-> table[k].starts]
<1>1. DOMAIN F = D /\ StartsListed(table) = SumFunction(F) /\ \A k \in D : F[k] \in Int
  BY DEF StartsListed
<1>2. IsFiniteSet(D)
  OBVIOUS
<1> HIDE DEF D, F
<1>3. SumFunction(F) = SumFunctionOnSet(F, D)
  BY <1>1, SumOfAll
<1> QED BY <1>1, <1>2, <1>3, SumInt

(* It adds up to its table, or is full of rows that have starts.               *)
LEMMA ListedStarts ==
  ASSUME NEW table, IsFiniteSet(DOMAIN table), NEW limit \in Nat,
         NEW top \in FirstRows(table, limit), \A k \in DOMAIN table : table[k].starts \in Nat
  PROVE  /\ StartsListed(top) <= StartsListed(table)
         /\ StartsListed(top) < StartsListed(table) =>
              Cardinality(DOMAIN top) = limit /\ \A k \in DOMAIN top : top[k].starts > 0
<1> DEFINE D == DOMAIN table
           S == DOMAIN top
           F == [k \in D |-> table[k].starts]
           E == [k \in S |-> top[k].starts]
<1>1. /\ S \in SUBSET D /\ \A k \in S : top[k] = table[k]
      /\ S # D => Cardinality(S) = limit
      /\ \A k \in S, j \in D \ S : ~GoesBefore(table[j], table[k])
  BY RowsListed
<1>2. IsFiniteSet(S) /\ IsFiniteSet(D \ S)
  BY <1>1, FS_Subset
<1>3. \A k \in D : F[k] \in Nat
  OBVIOUS
<1>4. \A k \in S : E[k] \in Int /\ E[k] = F[k]
  BY <1>1, <1>3
<1>5. StartsListed(table) = SumFunctionOnSet(F, D)
  <2>1. DOMAIN F = D
    OBVIOUS
  <2>2. StartsListed(table) = SumFunction(F)
    BY DEF StartsListed
  <2> HIDE DEF F, D
  <2> QED BY <2>1, <2>2, SumOfAll
<1>6. StartsListed(top) = SumFunctionOnSet(E, S)
  <2>1. DOMAIN E = S
    OBVIOUS
  <2>2. StartsListed(top) = SumFunction(E)
    BY DEF StartsListed
  <2> HIDE DEF E, S
  <2> QED BY <2>1, <2>2, SumOfAll
<1>7. ASSUME NEW k \in S, ~(top[k].starts > 0), NEW j \in D \ S PROVE F[j] = 0
  <2>1. ~GoesBefore(table[j], table[k]) /\ top[k] = table[k] /\ k \in D /\ j \in D
    BY <1>1
  <2>2. table[k].starts \in Nat /\ table[j].starts \in Nat
    BY <2>1
  <2>3. ~(table[j].starts > table[k].starts)
    BY <2>1 DEF GoesBefore
  <2>4. table[j].starts = 0
    BY <1>7, <2>1, <2>2, <2>3
  <2> QED BY <2>1, <2>4
<1>8. \A k \in S : E[k] = top[k].starts
  OBVIOUS
<1> HIDE DEF D, S, F, E
<1>9. SumFunctionOnSet(E, S) = SumFunctionOnSet(F, S)
  BY <1>2, <1>4, SumSame
<1>10. IsFiniteSet(D)
  BY DEF D
<1>11. SumFunctionOnSet(F, S) <= SumFunctionOnSet(F, D)
  BY <1>1, <1>3, <1>10, SumPart
<1>12. SumFunctionOnSet(F, S) < SumFunctionOnSet(F, D) => S # D
  <2>1. SumFunctionOnSet(F, D) \in Nat
    BY <1>3, <1>10, SumNat
  <2> QED BY <2>1
<1>13. ASSUME NEW k \in S, ~(top[k].starts > 0)
       PROVE  SumFunctionOnSet(F, S) = SumFunctionOnSet(F, D)
  <2> DEFINE R == D \ S
  <2>1. \A j \in R : F[j] \in Nat /\ F[j] <= 0
    BY <1>3, <1>7, <1>13
  <2>2. IsFiniteSet(R) /\ S \cup R = D /\ S \cap R = {}
    BY <1>1, <1>2
  <2> HIDE DEF R
  <2>3. SumFunctionOnSet(F, R) <= Cardinality(R) * 0 /\ SumFunctionOnSet(F, R) \in Nat
    BY <2>1, <2>2, SumBounded, SumNat
  <2>4. Cardinality(R) \in Nat
    BY <2>2, FS_CardinalityType
  <2>5. SumFunctionOnSet(F, R) = 0
    BY <2>3, <2>4
  <2>6. \A x \in S \cup R : F[x] \in Int
    BY <1>3, <2>2
  <2>7. SumFunctionOnSet(F, S \cup R) = SumFunctionOnSet(F, S) + SumFunctionOnSet(F, R)
    BY <1>2, <2>2, <2>6, SumUnion
  <2>8. SumFunctionOnSet(F, S) \in Nat
    BY <1>1, <1>2, <1>3, SumNat
  <2> QED BY <2>2, <2>5, <2>7, <2>8
<1>14. SumFunctionOnSet(F, S) \in Nat /\ SumFunctionOnSet(F, D) \in Nat
  BY <1>1, <1>2, <1>3, <1>10, SumNat
<1>15. StartsListed(top) < StartsListed(table) =>
         Cardinality(S) = limit /\ \A k \in S : top[k].starts > 0
  BY <1>1, <1>5, <1>6, <1>9, <1>12, <1>13, <1>14
<1>16. StartsListed(top) <= StartsListed(table)
  BY <1>5, <1>6, <1>9, <1>11
<1> QED BY <1>15, <1>16 DEF S

LEMMA StartsNat == ASSUME NEW rows, IsFiniteSet(rows) PROVE Starts(rows) \in Nat
<1>1. IsFiniteSet({e \in rows : e.type = "start"})
  BY FS_Subset
<1> QED BY <1>1, FS_CardinalityType DEF Starts

ByVideo(since) ==
  [v \in {e.video : e \in EventScope(Watched, since)} |->
     [starts |-> Starts(EventScope({v}, since)),
      sessions |-> DistinctViewers(EventScope({v}, since))]]

LEMMA ByVideoAddsUp ==
  ASSUME AnalyticsTyped, NEW since
  PROVE  /\ IsFiniteSet(DOMAIN ByVideo(since)) /\ DOMAIN ByVideo(since) \in SUBSET Watched
         /\ \A v \in DOMAIN ByVideo(since) :
              /\ ByVideo(since)[v].starts = Analytics({v}, since).starts
              /\ ByVideo(since)[v].starts \in Nat
         /\ Analytics(Watched, since).starts = StartsListed(ByVideo(since))
<1> DEFINE rows == EventScope(Watched, since)
           K == {e.video : e \in rows}
           key == [e \in rows |-> e.video]
           T == [v \in K |-> ByVideo(since)[v].starts]
<1>1. Analytics(Watched, since).starts = Starts(rows)
  BY DEF Analytics
<1>2. DOMAIN ByVideo(since) = K /\ \A v \in K : T[v] = Starts(EventScope({v}, since))
  BY DEF ByVideo
<1>3. IsFiniteSet(rows) /\ \A e \in rows : e.video \in Watched
  BY ScopeTyped
<1>4. Groups(rows, K, key) /\ IsFiniteSet(K)
  <2>1. K = {key[e] : e \in rows}
    OBVIOUS
  <2> HIDE DEF key, rows, K
  <2> QED BY <1>3, <2>1, ImageFinite DEF Groups
<1>5. StartsOf(T, rows, K, key)
  <2> SUFFICES ASSUME NEW v \in K PROVE T[v] = Starts({e \in rows : key[e] = v})
    BY DEF StartsOf
  <2>1. v \in Watched
    BY <1>3
  <2>2. EventScope({v}, since) = {e \in rows : e.video = v}
    BY <2>1, ScopeOfAll
  <2>3. {e \in rows : e.video = v} = {e \in rows : key[e] = v}
    OBVIOUS
  <2>4. T[v] = Starts(EventScope({v}, since))
    BY <1>2
  <2> QED BY <2>2, <2>3, <2>4
<1>6. ASSUME NEW v \in K
      PROVE  /\ ByVideo(since)[v].starts = Analytics({v}, since).starts
             /\ ByVideo(since)[v].starts \in Nat
  <2>1. Analytics({v}, since).starts = Starts(EventScope({v}, since))
    BY DEF Analytics
  <2>2. IsFiniteSet(EventScope({v}, since))
    BY ScopeTyped
  <2>3. ByVideo(since)[v].starts = Starts(EventScope({v}, since))
    BY DEF ByVideo
  <2> QED BY <2>1, <2>2, <2>3, StartsNat
<1>7. StartsListed(ByVideo(since)) = SumFunction(T) /\ DOMAIN T = K
  BY <1>2 DEF StartsListed
<1>8. K \in SUBSET Watched
  BY <1>3
<1> HIDE DEF T, rows, key, K
<1>9. SumFunctionOnSet(T, K) = Starts(rows)
  BY <1>4, <1>5, StartsAdd
<1>10. SumFunction(T) = SumFunctionOnSet(T, K)
  BY <1>7, SumOfAll
<1> QED BY <1>1, <1>2, <1>4, <1>6, <1>7, <1>8, <1>9, <1>10

LEMMA TopStarts ==
  ASSUME AnalyticsTyped, NEW since, NEW top \in TopVideos(since)
  PROVE  LET all == Analytics(Watched, since)
         IN /\ DOMAIN top \in SUBSET Watched
            /\ \A v \in DOMAIN top : top[v].starts = Analytics({v}, since).starts
            /\ StartsListed(top) <= all.starts
            /\ StartsListed(top) < all.starts =>
                 Cardinality(DOMAIN top) = TopLimit /\ \A v \in DOMAIN top : top[v].starts > 0
<1> DEFINE T == ByVideo(since)
<1>1. top \in FirstRows(T, TopLimit) /\ TopLimit \in Nat
  BY AnalyticsAssumption DEF TopVideos, ByVideo
<1>2. /\ IsFiniteSet(DOMAIN T) /\ DOMAIN T \in SUBSET Watched
      /\ \A v \in DOMAIN T : /\ T[v].starts = Analytics({v}, since).starts
                              /\ T[v].starts \in Nat
      /\ Analytics(Watched, since).starts = StartsListed(T)
  BY ByVideoAddsUp
<1> HIDE DEF T
<1>3. DOMAIN top \in SUBSET DOMAIN T /\ \A v \in DOMAIN top : top[v] = T[v]
  BY <1>1, <1>2, RowsListed
<1>4. /\ StartsListed(top) <= StartsListed(T)
      /\ StartsListed(top) < StartsListed(T) =>
           Cardinality(DOMAIN top) = TopLimit /\ \A v \in DOMAIN top : top[v].starts > 0
  BY <1>1, <1>2, ListedStarts
<1>5. \A v \in DOMAIN top : v \in Watched /\ top[v].starts = Analytics({v}, since).starts
  BY <1>2, <1>3
<1> QED BY <1>2, <1>4, <1>5

LEMMA TrendStarts ==
  ASSUME AnalyticsTyped, NEW since, since # Always
  PROVE  Analytics(Watched, since).starts = SumFunction(Daily(since))
<1> DEFINE rows == EventScope(Watched, since)
           K == {e.day : e \in rows}
           key == [e \in rows |-> e.day]
           T == Daily(since)
<1>1. Analytics(Watched, since).starts = Starts(rows)
  BY DEF Analytics
<1>2. DOMAIN T = K /\ \A d \in K : T[d] = Starts({e \in rows : e.day = d})
  BY DEF Daily
<1>3. IsFiniteSet(rows)
  BY ScopeTyped
<1>4. Groups(rows, K, key)
  <2>1. K = {key[e] : e \in rows}
    OBVIOUS
  <2> HIDE DEF key, rows, K
  <2> QED BY <1>3, <2>1, ImageFinite DEF Groups
<1>5. StartsOf(T, rows, K, key)
  <2> SUFFICES ASSUME NEW d \in K PROVE T[d] = Starts({e \in rows : key[e] = d})
    BY DEF StartsOf
  <2>1. {e \in rows : e.day = d} = {e \in rows : key[e] = d}
    OBVIOUS
  <2> QED BY <1>2, <2>1
<1> HIDE DEF T, rows, key, K
<1>6. SumFunctionOnSet(T, K) = Starts(rows)
  BY <1>4, <1>5, StartsAdd
<1>7. SumFunction(T) = SumFunctionOnSet(T, K)
  BY <1>2, SumOfAll
<1> QED BY <1>1, <1>6, <1>7 DEF T

(* SeenBy: those of the library are those of its videos. *)
SeenBy(rows) == {VisitorOf[e.session] : e \in rows}

LEMMA ViewersFinite ==
  ASSUME NEW rows, IsFiniteSet(rows)
  PROVE  IsFiniteSet(SeenBy(rows)) /\ DistinctViewers(rows) = Cardinality(SeenBy(rows))
<1> DEFINE f == [e \in rows |-> VisitorOf[e.session]]
<1>1. SeenBy(rows) = {f[e] : e \in rows}
  BY DEF SeenBy
<1>2. IsFiniteSet({f[e] : e \in rows})
  <2> HIDE DEF f
  <2> QED BY ImageFinite
<1> QED BY <1>1, <1>2 DEF DistinctViewers, SeenBy

LEMMA FewerViewers ==
  ASSUME NEW rows, IsFiniteSet(rows), NEW some \in SUBSET rows
  PROVE  DistinctViewers(some) <= DistinctViewers(rows)
<1>1. IsFiniteSet(some)
  BY FS_Subset
<1>2. SeenBy(some) \in SUBSET SeenBy(rows)
  BY DEF SeenBy
<1>3. DistinctViewers(some) = Cardinality(SeenBy(some))
  BY <1>1, ViewersFinite
<1>4. IsFiniteSet(SeenBy(rows)) /\ DistinctViewers(rows) = Cardinality(SeenBy(rows))
  BY ViewersFinite
<1>5. Cardinality(SeenBy(some)) <= Cardinality(SeenBy(rows))
  BY <1>2, <1>4, FS_Subset
<1> QED BY <1>3, <1>4, <1>5

LEMMA LibraryViewers ==
  ASSUME AnalyticsTyped, NEW since
  PROVE  LET of == [v \in Watched |-> Analytics({v}, since)]
         IN Analytics(Watched, since).sessions <= SumFunction([v \in Watched |-> of[v].sessions])
<1> DEFINE of == [v \in Watched |-> Analytics({v}, since)]
           T == [v \in Watched |-> of[v].sessions]
           A == [v \in Watched |-> SeenBy(EventScope({v}, since))]
           rows == EventScope(Watched, since)
<1>1. Analytics(Watched, since).sessions = DistinctViewers(rows)
  BY DEF Analytics
<1>2. ASSUME NEW v \in Watched
      PROVE  IsFiniteSet(A[v]) /\ T[v] = Cardinality(A[v])
  <2>1. IsFiniteSet(EventScope({v}, since))
    BY ScopeTyped
  <2>2. T[v] = DistinctViewers(EventScope({v}, since)) /\ A[v] = SeenBy(EventScope({v}, since))
    BY DEF Analytics
  <2> HIDE DEF T, A
  <2> QED BY <2>1, <2>2, ViewersFinite
<1>3. DistinctViewers(rows) = Cardinality(SeenBy(rows))
  BY ScopeTyped, ViewersFinite
<1>4. SeenBy(rows) = UNION {A[v] : v \in Watched}
  <2>1. \A e \in rows : e.video \in Watched /\ e \in EventScope({e.video}, since)
    <3>1. \A e \in rows : e.video \in Watched
      BY ScopeTyped
    <3> QED BY <3>1 DEF EventScope
  <2>2. \A v \in Watched : \A e \in EventScope({v}, since) : e \in rows
    BY DEF EventScope
  <2>3. ASSUME NEW w \in SeenBy(rows) PROVE w \in UNION {A[v] : v \in Watched}
    <3>1. PICK e \in rows : w = VisitorOf[e.session]
      BY DEF SeenBy
    <3>2. w \in A[e.video]
      BY <2>1, <3>1 DEF SeenBy
    <3> QED BY <2>1, <3>2
  <2>4. ASSUME NEW v \in Watched, NEW w \in A[v] PROVE w \in SeenBy(rows)
    BY <2>2 DEF SeenBy
  <2> HIDE DEF A, rows
  <2> QED BY <2>3, <2>4
<1>5. DOMAIN T = Watched
  OBVIOUS
<1> HIDE DEF T, A, rows
<1>6. Cardinality(UNION {A[v] : v \in Watched}) <= SumFunctionOnSet(T, Watched)
  BY <1>2, AnalyticsAssumption, CountUnion
<1>7. SumFunction(T) = SumFunctionOnSet(T, Watched)
  BY <1>5, SumOfAll
<1>8. Analytics(Watched, since).sessions <= SumFunction(T)
  BY <1>1, <1>3, <1>4, <1>6, <1>7
<1> QED BY <1>8 DEF T

(* A play counts for no more bytes than its video has. *)
LEMMA BytesBounded ==
  ASSUME AnalyticsTyped, NEW since, NEW v \in Watched
  PROVE  LET mine == Analytics({v}, since)
         IN mine.played.bytes * ByteParts
              <= mine.played.plays * (SizePerSecond[v] * DurationOf[v])
<1> DEFINE S == Sent({v}, since)
           G == Plays({v}, since)
           c == SizePerSecond[v] * DurationOf[v]
           sum == SumFunctionOnSet(S, G)
           n == Cardinality(G)
<1>1. /\ Analytics({v}, since).played.bytes = sum \div ByteParts
      /\ Analytics({v}, since).played.plays = n
  BY WatchIs DEF Analytics
<1>2. c \in Nat
  <2>1. SizePerSecond[v] \in Nat /\ DurationOf[v] \in Nat
    BY AnalyticsAssumption
  <2> QED BY <2>1
<1>3. IsFiniteSet(G) /\ ByteParts \in Nat \ {0}
  BY PlaysTyped, AnalyticsAssumption
<1>4. \A g \in G : S[g] \in Nat /\ S[g] <= c
  <2> TAKE g \in G
  <2>1. g[2] = v
    BY OwnPlays
  <2>2. S[g] \in Nat /\ S[g] <= SizePerSecond[g[2]] * DurationOf[g[2]]
    BY PlaysTyped
  <2> QED BY <2>1, <2>2
<1> HIDE DEF S, G, c
<1>5. sum <= n * c /\ sum \in Nat /\ n \in Nat
  BY <1>2, <1>3, <1>4, SumBounded, SumNat, FS_CardinalityType
<1> HIDE DEF sum, n
<1> DEFINE q == sum \div ByteParts
<1>6. q \in Nat /\ ByteParts * q <= sum
  BY <1>3, <1>5, Floor
<1> HIDE DEF q
<1>7. q * ByteParts = ByteParts * q /\ n * c \in Nat
  BY <1>2, <1>3, <1>5, <1>6
<1>8. q * ByteParts <= n * c
  BY <1>3, <1>5, <1>6, <1>7
<1>9. Analytics({v}, since).played.bytes * ByteParts <= Analytics({v}, since).played.plays * c
  BY <1>1, <1>8 DEF q
<1> QED BY <1>9 DEF c

-----------------------------------------------------------------------------
(* Countries. *)

OfCountry(videos, since, c) == {e \in EventScope(videos, since) : e.country = c}
Sittings(videos, since, c) ==
  {e.session : e \in Positioned(OfCountry(videos, since, c))}
SatThrough(videos, since, c) ==
  [s \in Sittings(videos, since, c) |->
     HighWater({e \in Positioned(OfCountry(videos, since, c)) : e.session = s})]

ByCountry(videos, since) ==
  [c \in {e.country : e \in EventScope(videos, since)} \ {NoCountry} |->
     [starts |-> Starts(OfCountry(videos, since, c)),
      sessions |-> DistinctViewers(OfCountry(videos, since, c)),
      watch |-> SumFunctionOnSet(SatThrough(videos, since, c), Sittings(videos, since, c))]]

LEMMA CountryIs ==
  ASSUME NEW videos, NEW since
  PROVE  Analytics(videos, since).byCountry = FirstRows(ByCountry(videos, since), CountryLimit)
<1>1. Analytics(videos, since).byCountry = CountryBreakdown(videos, since)
  BY DEF Analytics
<1> QED BY <1>1 DEF CountryBreakdown, ByCountry, OfCountry, Sittings, SatThrough, SumFunction

LEMMA CountryStarts ==
  ASSUME AnalyticsTyped, NEW since, NEW v \in Watched
  PROVE  /\ IsFiniteSet(DOMAIN ByCountry({v}, since))
         /\ \A c \in DOMAIN ByCountry({v}, since) : ByCountry({v}, since)[c].starts \in Nat
         /\ StartsListed(ByCountry({v}, since)) <= Analytics({v}, since).starts
<1> DEFINE by == ByCountry({v}, since)
           K == DOMAIN by
           T == [c \in K |-> by[c].starts]
           scope == EventScope({v}, since)
           rows == {e \in scope : e.country # NoCountry}
           key == [e \in rows |-> e.country]
<1>1. IsFiniteSet(scope) /\ IsFiniteSet(rows)
  <2>1. IsFiniteSet(scope)
    BY ScopeTyped
  <2>2. rows \in SUBSET scope
    OBVIOUS
  <2> HIDE DEF scope, rows
  <2> QED BY <2>1, <2>2, FS_Subset
<1>2. K = {e.country : e \in scope} \ {NoCountry}
  BY DEF ByCountry
<1>3. Groups(rows, K, key) /\ IsFiniteSet(K)
  <2>1. K = {key[e] : e \in rows}
    <3>1. \A e \in rows : key[e] = e.country /\ e \in scope /\ e.country # NoCountry
      OBVIOUS
    <3>2. \A e \in scope : e.country # NoCountry => e \in rows
      OBVIOUS
    <3> HIDE DEF key, rows, scope, K
    <3> QED BY <1>2, <3>1, <3>2
  <2> HIDE DEF key, rows, K
  <2> QED BY <1>1, <2>1, ImageFinite DEF Groups
<1>4. StartsOf(T, rows, K, key)
  <2> SUFFICES ASSUME NEW c \in K PROVE T[c] = Starts({e \in rows : key[e] = c})
    BY DEF StartsOf
  <2>1. T[c] = Starts(OfCountry({v}, since, c))
    BY DEF ByCountry
  <2>2. OfCountry({v}, since, c) = {e \in rows : key[e] = c}
    <3>1. c # NoCountry
      BY <1>2
    <3>2. \A e \in rows : key[e] = e.country
      OBVIOUS
    <3>3. OfCountry({v}, since, c) = {e \in scope : e.country = c}
      BY DEF OfCountry
    <3> HIDE DEF key, K, T
    <3> QED BY <3>1, <3>2, <3>3
  <2> QED BY <2>1, <2>2
<1>5. Analytics({v}, since).starts = Starts(scope)
  BY DEF Analytics
<1>6. DOMAIN T = K /\ DOMAIN by = K /\ StartsListed(by) = SumFunction(T)
  BY DEF StartsListed
<1>7. Starts(rows) <= Starts(scope)
  <2>1. StartsIn(rows) \in SUBSET StartsIn(scope)
    BY DEF StartsIn
  <2>2. IsFiniteSet(StartsIn(scope))
    BY <1>1, FS_Subset DEF StartsIn
  <2> HIDE DEF rows, scope
  <2>3. Cardinality(StartsIn(rows)) <= Cardinality(StartsIn(scope))
    BY <2>1, <2>2, FS_Subset
  <2> QED BY <2>3 DEF Starts, StartsIn
<1>11. ASSUME NEW c \in K PROVE by[c].starts \in Nat
  <2>1. by[c].starts = Starts(OfCountry({v}, since, c))
    BY DEF ByCountry
  <2>2. OfCountry({v}, since, c) \in SUBSET scope
    BY DEF OfCountry
  <2>3. IsFiniteSet(OfCountry({v}, since, c))
    BY <1>1, <2>2, FS_Subset
  <2> QED BY <2>1, <2>3, StartsNat
<1> HIDE DEF T, rows, scope, key, K, by
<1>8. SumFunctionOnSet(T, K) = Starts(rows)
  BY <1>3, <1>4, StartsAdd
<1>9. SumFunction(T) = SumFunctionOnSet(T, K)
  BY <1>6, SumOfAll
<1>10. SumFunction(T) <= Analytics({v}, since).starts
  BY <1>5, <1>7, <1>8, <1>9
<1> QED BY <1>3, <1>6, <1>10, <1>11 DEF by

LEMMA CountryViewers ==
  ASSUME AnalyticsTyped, NEW since, NEW v \in Watched, NEW c
  PROVE  DistinctViewers(OfCountry({v}, since, c)) <= Analytics({v}, since).sessions
<1>1. IsFiniteSet(EventScope({v}, since))
  BY ScopeTyped
<1>2. OfCountry({v}, since, c) \in SUBSET EventScope({v}, since)
  BY DEF OfCountry
<1>3. Analytics({v}, since).sessions = DistinctViewers(EventScope({v}, since))
  BY DEF Analytics
<1> QED BY <1>1, <1>2, <1>3, FewerViewers

(* A session seen from a country is a play that reached at least as far. *)
LEMMA CountryWatch ==
  ASSUME AnalyticsTyped, NEW since, NEW v \in Watched \cap videoRows, NEW c,
         \A e \in Positioned(EventScope({v}, since)) : e.position >= 0
  PROVE  SumFunctionOnSet(SatThrough({v}, since, c), Sittings({v}, since, c))
           <= Analytics({v}, since).played.watch
<1> DEFINE seen == Positioned(OfCountry({v}, since, c))
           S == Sittings({v}, since, c)
           F == SatThrough({v}, since, c)
           T == Plays({v}, since)
           G == Reached({v}, since)
           m == [s \in S |-> <<s, v>>]
           Of(s) == {e \in seen : e.session = s}
           Play(s) == {e \in Played({v}, since) : PlayOf(e) = <<s, v>>}
<1>1. seen \in SUBSET Played({v}, since) /\ seen \in SUBSET EventRows /\ IsFiniteSet(seen)
  <2>1. seen \in SUBSET EventScope({v}, since)
    BY DEF Positioned, OfCountry
  <2>2. \A e \in EventScope({v}, since) : e.video = v
    BY DEF EventScope
  <2>3. \A e \in seen : e.position # NoPosition
    BY DEF Positioned
  <2>4. IsFiniteSet(EventScope({v}, since)) /\ EventScope({v}, since) \in SUBSET EventRows
    BY ScopeTyped
  <2>5. IsFiniteSet(seen)
    BY <2>1, <2>4, FS_Subset
  <2>6. seen \in SUBSET Played({v}, since)
    BY <2>1, <2>2, <2>3 DEF Played, Positioned
  <2> QED BY <2>1, <2>4, <2>5, <2>6
<1>2. \A e \in Played({v}, since) : /\ e.video = v /\ e.position # NoPosition
                                    /\ PlayOf(e) = <<e.session, v>>
  BY DEF Played, Positioned, EventScope, PlayOf
<1>3. Played({v}, since) \in SUBSET EventRows /\ IsFiniteSet(Played({v}, since))
  <2>1. Played({v}, since) \in SUBSET EventScope({v}, since)
    BY DEF Played, Positioned
  <2> QED BY <2>1, ScopeTyped, FS_Subset
<1>4. IsFiniteSet(S)
  <2> DEFINE f == [e \in seen |-> e.session]
  <2>1. S = {f[e] : e \in seen}
    BY DEF Sittings
  <2>2. IsFiniteSet({f[e] : e \in seen})
    <3> HIDE DEF f, seen
    <3> QED BY <1>1, ImageFinite
  <2> QED BY <2>1, <2>2
<1>5. IsFiniteSet(T) /\ \A g \in T : G[g] \in Nat
  <2>1. IsFiniteSet(T) /\ \A g \in T : G[g] \in Int
    BY PlaysTyped
  <2>2. ASSUME NEW g \in T PROVE G[g] >= 0
    <3> DEFINE own == {d \in Played({v}, since) : PlayOf(d) = g}
    <3>1. PICK e \in Played({v}, since) : g = PlayOf(e)
      BY DEF Plays
    <3>2. own \in SUBSET EventRows /\ IsFiniteSet(own) /\ own # {}
      BY <1>3, <3>1, FS_Subset
    <3>3. \A d \in own : d.position # NoPosition /\ d.position >= 0
      BY <1>2 DEF Played
    <3>4. G[g] = HighWater(own)
      BY DEF Reached
    <3> HIDE DEF own, G
    <3>5. \E d \in own : d.position = HighWater(own)
      BY <3>2, <3>3, Furthest
    <3> QED BY <3>3, <3>4, <3>5
  <2> HIDE DEF T, G
  <2> QED BY <2>1, <2>2
<1>6. ASSUME NEW s \in S
      PROVE  /\ m[s] = <<s, v>> /\ m[s] \in T
             /\ F[s] \in Nat /\ F[s] <= G[m[s]]
  <2>1. PICK e \in seen : e.session = s
    BY DEF Sittings
  <2>2. m[s] = <<s, v>>
    OBVIOUS
  <2>3. e \in Played({v}, since) /\ PlayOf(e) = <<s, v>>
    BY <1>1, <1>2, <2>1
  <2>4. <<s, v>> \in T
    BY <2>3 DEF Plays
  <2>5. F[s] = HighWater(Of(s))
    BY DEF SatThrough
  <2>6. G[<<s, v>>] = HighWater(Play(s))
    BY <2>4 DEF Reached
  <2>7. /\ Of(s) \in SUBSET EventRows /\ IsFiniteSet(Of(s)) /\ Of(s) # {}
        /\ \A d \in Of(s) : d.position # NoPosition
    <3>1. Of(s) \in SUBSET seen /\ e \in Of(s)
      BY <2>1
    <3>2. IsFiniteSet(Of(s))
      BY <1>1, <3>1, FS_Subset
    <3> QED BY <1>1, <1>2, <3>1, <3>2
  <2>8. /\ Play(s) \in SUBSET EventRows /\ IsFiniteSet(Play(s)) /\ Play(s) # {}
        /\ \A d \in Play(s) : d.position # NoPosition
    <3>1. Play(s) \in SUBSET Played({v}, since) /\ e \in Play(s)
      BY <2>3
    <3>2. IsFiniteSet(Play(s))
      BY <1>3, <3>1, FS_Subset
    <3> QED BY <1>2, <1>3, <3>1, <3>2
  <2>9. Of(s) \in SUBSET Play(s)
    BY <1>1, <1>2
  <2>14. \A d \in Of(s) : d.position >= 0
    BY <1>1 DEF Played
  <2> HIDE DEF S, F, T, G, m, seen, Of, Play
  <2>10. HighWater(Of(s)) \in Int /\ \E d \in Of(s) : d.position = HighWater(Of(s))
    BY <2>7, Furthest
  <2>13. HighWater(Of(s)) \in Nat
    BY <2>10, <2>14
  <2>11. \A d \in Play(s) : d.position <= HighWater(Play(s))
    BY <2>8, Furthest
  <2>12. HighWater(Of(s)) <= HighWater(Play(s))
    BY <2>9, <2>10, <2>11
  <2> QED BY <2>2, <2>4, <2>5, <2>6, <2>12, <2>13
<1>7. \A s, t \in S : m[s] = m[t] => s = t
  <2> HIDE DEF S, T, G, F
  <2> QED OBVIOUS
<1>8. Analytics({v}, since).played.watch = SumFunctionOnSet(G, T)
  BY WatchIs DEF Analytics
<1>9. \A s \in S : m[s] \in T
  BY <1>6
<1>10. \A s \in S : F[s] \in Nat
  BY <1>6
<1>11. \A s \in S : F[s] <= G[m[s]]
  BY <1>6
<1> HIDE DEF S, F, T, G, m
<1>12. SumFunctionOnSet(F, S) <= SumFunctionOnSet(G, T)
  BY <1>4, <1>5, <1>7, <1>9, <1>10, <1>11, SumInjects
<1> QED BY <1>8, <1>12 DEF F, S

-----------------------------------------------------------------------------
(* The heatmap. *)

LEMMA HeatmapHolds == AnalyticsTyped => HeatmapHoldsAll
<1> SUFFICES ASSUME AnalyticsTyped, NEW v \in Watched, NEW h \in Heatmap(v)
             PROVE  /\ \E b \in DOMAIN h : h[b] > 0
                    /\ SumFunction(h) = Cardinality(Samples(v))
  BY DEF HeatmapHoldsAll
<1> DEFINE rows == Samples(v)
           Bucket(e) == Smaller(Buckets - 1, (e.position * Buckets) \div DurationOf[v])
           K == 0..Buckets - 1
           key == [e \in rows |-> Bucket(e)]
<1>1. /\ DurationOf[v] # 0 /\ ~(Cardinality(rows) < MinSamples)
      /\ h = [b \in K |-> Cardinality({e \in rows : Bucket(e) = b})]
  BY DEF Heatmap
<1>2. rows \in SUBSET EventRows /\ IsFiniteSet(rows)
  <2>1. rows \in SUBSET EventScope({v}, Always)
    BY DEF Samples, Positioned
  <2> QED BY <2>1, ScopeTyped, FS_Subset
<1>3. DurationOf[v] \in Nat \ {0} /\ Buckets \in Nat \ {0} /\ MinSamples \in Nat \ {0}
  BY <1>1, AnalyticsAssumption
<1>4. ASSUME NEW e \in rows PROVE key[e] \in K
  <2>1. e.position \in Nat
    BY <1>2 DEF EventRows, Samples, Positioned
  <2> DEFINE n == e.position * Buckets
             q == n \div DurationOf[v]
  <2>2. n \in Nat
    BY <1>3, <2>1
  <2>3. q \in Nat
    <3> HIDE DEF n
    <3> QED BY <1>3, <2>2
  <2>4. key[e] = Smaller(Buckets - 1, q)
    OBVIOUS
  <2> HIDE DEF q, key
  <2> QED BY <1>3, <2>3, <2>4 DEF Smaller
<1>5. IsFiniteSet(K)
  BY <1>3, FS_Interval
<1>6. Groups(rows, K, key)
  <2> HIDE DEF rows, K, key
  <2> QED BY <1>2, <1>4, <1>5 DEF Groups
<1>7. \A b \in K : {e \in rows : Bucket(e) = b} = {e \in rows : key[e] = b}
  OBVIOUS
<1>8. DOMAIN h = K
  BY <1>1
<1>9. CountsOf(h, rows, K, key)
  <2> SUFFICES ASSUME NEW b \in K PROVE h[b] = Cardinality({e \in rows : key[e] = b})
    BY DEF CountsOf
  <2>1. h[b] = Cardinality({e \in rows : Bucket(e) = b})
    BY <1>1
  <2> QED BY <1>7, <2>1
<1> HIDE DEF rows, K, key
<1>10. SumFunctionOnSet(h, K) = Cardinality(rows)
  BY <1>6, <1>9, CountGrouped
<1>11. SumFunction(h) = Cardinality(rows)
  BY <1>8, <1>10, SumOfAll
<1>12. \E b \in DOMAIN h : h[b] > 0
  <2>1. rows # {}
    <3>1. Cardinality({}) = 0
      BY FS_EmptySet
    <3> QED BY <1>1, <1>3, <3>1
  <2>2. PICK e \in rows : TRUE
    BY <2>1
  <2> DEFINE same == {d \in rows : key[d] = key[e]}
  <2>3. IsFiniteSet(same) /\ same # {}
    BY <1>2, FS_Subset
  <2>4. h[key[e]] = Cardinality(same) /\ key[e] \in K
    BY <1>4, <1>9 DEF CountsOf
  <2> HIDE DEF same
  <2>5. Cardinality(same) \in Nat /\ Cardinality(same) # 0
    BY <2>3, FS_EmptySet, FS_CardinalityType
  <2> QED BY <1>8, <2>4, <2>5
<1> QED BY <1>11, <1>12 DEF rows

-----------------------------------------------------------------------------
LEMMA CountriesAgree ==
  ASSUME AnalyticsTyped, NEW since, NEW v \in Watched,
         NEW countries \in Analytics({v}, since).byCountry
  PROVE  LET mine == Analytics({v}, since)
         IN /\ StartsListed(countries) <= mine.starts
            /\ \A c \in DOMAIN countries :
                 /\ countries[c].sessions <= mine.sessions
                 /\ v \in videoRows
                      /\ (\A e \in Positioned(EventScope({v}, since)) : e.position >= 0)
                      => countries[c].watch <= mine.played.watch
<1> DEFINE T == ByCountry({v}, since)
<1>1. countries \in FirstRows(T, CountryLimit) /\ CountryLimit \in Nat
  BY CountryIs, AnalyticsAssumption
<1>2. /\ IsFiniteSet(DOMAIN T) /\ \A c \in DOMAIN T : T[c].starts \in Nat
      /\ StartsListed(T) <= Analytics({v}, since).starts
  BY CountryStarts
<1>3. \A c \in DOMAIN T : /\ T[c].sessions = DistinctViewers(OfCountry({v}, since, c))
                          /\ T[c].watch = SumFunctionOnSet(SatThrough({v}, since, c),
                                                           Sittings({v}, since, c))
  BY DEF ByCountry
<1> HIDE DEF T
<1>4. DOMAIN countries \in SUBSET DOMAIN T /\ \A c \in DOMAIN countries : countries[c] = T[c]
  BY <1>1, <1>2, RowsListed
<1>5. StartsListed(countries) <= Analytics({v}, since).starts
  <2>1. StartsListed(countries) <= StartsListed(T)
    BY <1>1, <1>2, ListedStarts
  <2>2. StartsListed(countries) \in Int /\ StartsListed(T) \in Int
    <3>1. StartsListed(T) \in Int
      BY <1>2, ListedInt
    <3>2. IsFiniteSet(DOMAIN countries) /\ \A c \in DOMAIN countries : countries[c].starts \in Nat
      BY <1>2, <1>4, FS_Subset
    <3>3. StartsListed(countries) \in Int
      BY <3>2, ListedInt
    <3> QED BY <3>1, <3>3
  <2>3. Analytics({v}, since).starts \in Int
    <3>1. IsFiniteSet(EventScope({v}, since))
      BY ScopeTyped
    <3>2. Analytics({v}, since).starts = Starts(EventScope({v}, since))
      BY DEF Analytics
    <3> QED BY <3>1, <3>2, StartsNat
  <2> QED BY <1>2, <2>1, <2>2, <2>3
<1>6. ASSUME NEW c \in DOMAIN countries
      PROVE  /\ countries[c].sessions <= Analytics({v}, since).sessions
             /\ v \in videoRows
                  /\ (\A e \in Positioned(EventScope({v}, since)) : e.position >= 0)
                  => countries[c].watch <= Analytics({v}, since).played.watch
  <2>1. countries[c] = T[c] /\ c \in DOMAIN T
    BY <1>4
  <2>2. countries[c].sessions <= Analytics({v}, since).sessions
    BY <1>3, <2>1, CountryViewers
  <2>3. ASSUME v \in videoRows,
               \A e \in Positioned(EventScope({v}, since)) : e.position >= 0
        PROVE  countries[c].watch <= Analytics({v}, since).played.watch
    BY <1>3, <2>1, <2>3, CountryWatch
  <2> QED BY <2>2, <2>3
<1> QED BY <1>5, <1>6

LEMMA RollupsHold == AnalyticsTyped => RollupsAgree
<1> SUFFICES ASSUME AnalyticsTyped, NEW since \in Windows
    PROVE  LET all == Analytics(Watched, since)
               daily == Daily(since)
               of == [v \in Watched |-> Analytics({v}, since)]
               apart == SumFunction([v \in Watched |-> of[v].played.bytes])
           IN /\ all.starts = SumFunction([v \in Watched |-> of[v].starts])
              /\ all.played.watch = SumFunction([v \in Watched |-> of[v].played.watch])
              /\ apart <= all.played.bytes /\ all.played.bytes <= apart + Cardinality(Watched)
              /\ all.sessions <= SumFunction([v \in Watched |-> of[v].sessions])
              /\ since # Always => all.starts = SumFunction(daily)
              /\ \A top \in TopVideos(since) :
                   /\ \A v \in DOMAIN top : top[v].starts = of[v].starts
                   /\ StartsListed(top) <= all.starts
                   /\ StartsListed(top) < all.starts =>
                        /\ Cardinality(DOMAIN top) = TopLimit
                        /\ \A v \in DOMAIN top : top[v].starts > 0
              /\ \A v \in Watched :
                   LET mine == Analytics({v}, since)
                   IN /\ mine.played.bytes * ByteParts
                           <= mine.played.plays * (SizePerSecond[v] * DurationOf[v])
                      /\ \A countries \in mine.byCountry :
                           /\ StartsListed(countries) <= mine.starts
                           /\ \A c \in DOMAIN countries :
                                /\ countries[c].sessions <= mine.sessions
                                /\ v \in videoRows
                                     /\ (\A e \in Positioned(EventScope({v}, since)) :
                                           e.position >= 0)
                                     => countries[c].watch <= mine.played.watch
  BY DEF RollupsAgree
<1> DEFINE all == Analytics(Watched, since)
           of == [v \in Watched |-> Analytics({v}, since)]
           bytes == [v \in Watched |-> of[v].played.bytes]
           watch == [v \in Watched |-> of[v].played.watch]
<1>1. all.starts = SumFunction([v \in Watched |-> of[v].starts])
  BY LibraryStarts
<1>2. ASSUME NEW v \in Watched PROVE of[v] = Analytics({v}, since)
  OBVIOUS
<1>3. /\ bytes = [v \in Watched |-> Analytics({v}, since).played.bytes]
      /\ watch = [v \in Watched |-> Analytics({v}, since).played.watch]
  BY <1>2
<1>4. all.played = WatchAndBandwidth(Watched, since)
  BY DEF Analytics
<1>5. all.sessions <= SumFunction([v \in Watched |-> of[v].sessions])
  BY LibraryViewers
<1> HIDE DEF all, of, bytes, watch
<1>6. all.played.watch = SumFunction(watch)
  BY <1>3, <1>4, WatchAdds
<1>7. /\ SumFunction(bytes) <= all.played.bytes
      /\ all.played.bytes <= SumFunction(bytes) + Cardinality(Watched)
  BY <1>3, <1>4, BytesAdd
<1>8. since # Always => all.starts = SumFunction(Daily(since))
  BY TrendStarts DEF all
<1>9. ASSUME NEW top \in TopVideos(since)
      PROVE  /\ \A v \in DOMAIN top : top[v].starts = of[v].starts
             /\ StartsListed(top) <= all.starts
             /\ StartsListed(top) < all.starts =>
                  Cardinality(DOMAIN top) = TopLimit /\ \A v \in DOMAIN top : top[v].starts > 0
  <2>1. /\ DOMAIN top \in SUBSET Watched
        /\ \A v \in DOMAIN top : top[v].starts = Analytics({v}, since).starts
        /\ StartsListed(top) <= all.starts
        /\ StartsListed(top) < all.starts =>
             Cardinality(DOMAIN top) = TopLimit /\ \A v \in DOMAIN top : top[v].starts > 0
    BY TopStarts DEF all
  <2>2. \A v \in DOMAIN top : top[v].starts = of[v].starts
    BY <1>2, <2>1
  <2> QED BY <2>1, <2>2
<1>10. ASSUME NEW v \in Watched
       PROVE  LET mine == Analytics({v}, since)
              IN /\ mine.played.bytes * ByteParts
                      <= mine.played.plays * (SizePerSecond[v] * DurationOf[v])
                 /\ \A countries \in mine.byCountry :
                      /\ StartsListed(countries) <= mine.starts
                      /\ \A c \in DOMAIN countries :
                           /\ countries[c].sessions <= mine.sessions
                           /\ v \in videoRows
                                /\ (\A e \in Positioned(EventScope({v}, since)) :
                                      e.position >= 0)
                                => countries[c].watch <= mine.played.watch
  BY BytesBounded, CountriesAgree
<1> QED BY <1>1, <1>5, <1>6, <1>7, <1>8, <1>9, <1>10 DEF all, of, bytes, watch

(* The rollups agree and the heatmap holds every sample, whatever has been       *)
(* watched, pruned and purged (analytics.go).                                 *)
THEOREM RollupsAddUp == AnalyticsSpec => []AnalyticsAddUp
<1>1. AnalyticsTyped => AnalyticsAddUp
  BY RollupsHold, HeatmapHolds DEF AnalyticsAddUp
<1> QED BY <1>1, AnalyticsInitTyped, AnalyticsNextTyped, PTL DEF AnalyticsSpec
=============================================================================
