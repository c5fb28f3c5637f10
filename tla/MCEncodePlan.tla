------------------------------ MODULE MCEncodePlan ------------------------------
(* Small sets of sources, settings and edits: those that vary the ladder leave *)
(* the edit alone, and the other way round, since no step reads both.          *)
EXTENDS EncodePlan

Plain == [width |-> 640, height |-> 360, halves |-> 12, tracks |-> 1,
          rungs |-> DefaultRungs, multi |-> FALSE, edit |-> NoEdit]

Ladders ==
  {[Plain EXCEPT !.height = h, !.rungs = r, !.tracks = n, !.multi = m] :
     h \in {144, 240, 300, 720, 1080, 1440, 2160},
     r \in {{}, {999}, {240}, {240, 720}, {1440}, {1440, 2160}, {720, 999, 2160}, AllRungs},
     n \in 0..2, m \in BOOLEAN}

Segments == {[start |-> a, end |-> b] : a \in {0, 1, 5, 8}, b \in {1, 3, 8, 12, 14}}

Cuts == {<<>>} \cup {<<s>> : s \in Segments} \cup {<<s, t>> : s, t \in Segments}

Turns ==
  {[Plain EXCEPT !.width = w, !.edit = [NoEdit EXCEPT !.crop = c, !.rotate = d, !.flip = f]] :
     w \in {4, 641}, d \in {0, 45, 90, 180, 270}, f \in {"none", "h", "v"},
     c \in {WholeFrame, [x |-> 1, y |-> 2, w |-> 3, h |-> 2], [x |-> 2, y |-> 0, w |-> 3, h |-> 4]}}

MCAsked ==
  Ladders
  \cup {[Plain EXCEPT !.edit.segments = s] : s \in Cuts}
  \cup Turns
  \cup {[Plain EXCEPT !.halves = n] : n \in 1..60 \cup {398, 400, 402, 598, 600, 602}}
=============================================================================
