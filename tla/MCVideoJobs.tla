---------------------------- MODULE MCVideoJobs ----------------------------
(* The jobs of one video, two tasks of captions and of the index among them,    *)
(* and two requests at a time.                                                *)
EXTENDS VideoJobs

CONSTANTS r1, r2

MCJobs == {"encrypt", "poster", "caption", "recaption", "index", "reindex", "content"}
MCKindOf ==
  [j \in MCJobs |-> CASE j \in {"index", "reindex"} -> "search_index"
                     [] j = "recaption" -> "caption"
                     [] j = "content" -> "ai_content"
                     [] OTHER -> j]
MCRetries == [j \in MCJobs |-> IF j \in {"recaption", "reindex"} THEN 0 ELSE 1]
MCAskers == {r1, r2}
MCWishes ==
  {{"encrypt", "transcode"}, {"poster", "upload", "transcode"},
   {"caption", "track", "index", "reindex"}, {"caption", "recaption", "index"},
   {"caption", "content", "chapters"}}
=============================================================================
