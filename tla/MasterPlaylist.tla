----------------------------- MODULE MasterPlaylist -----------------------------
(***************************************************************************)
(* rebuildCombinedMaster: the ladders of extra codecs folded one by one into   *)
(* the H.264 master. A playlist is a sequence of lines, and a line a record of *)
(* its kind and what matters of it: the codec directories before its address   *)
(* and whether a stream line names its CODECS.                                *)
(***************************************************************************)
EXTENDS Integers, SequencesExt

CONSTANTS
  Published,   (* what the object store may hold: a base master and, for     *)
               (* some of the codecs, the master of its ladder               *)
  CodecOrder   (* the extra codecs of the settings, in canonical order       *)

VARIABLES
  stored,      (* the masters in the object store                           *)
  combined,    (* the playlist being built                                  *)
  codecsLeft   (* codecs the loop has not come to                           *)

masterVars == <<stored, combined, codecsLeft>>

Stream(codecs) == [kind |-> "stream", codecs |-> codecs]

PlaylistLines ==
  [kind : {"header", "blank", "tag"}] \cup [kind : {"media"}, track : Nat]
    \cup [kind : {"stream"}, codecs : STRING]
    \cup [kind : {"uri"}, name : Nat, under : Seq(STRING)]

Header == <<[kind |-> "header"], [kind |-> "header"]>>

(* The stream lines above line j and below the address before it.             *)
Heads(master, j) ==
  {i \in 1..j - 1 : /\ master[i].kind = "stream"
                    /\ \A k \in i + 1..j - 1 : master[k].kind # "uri"}

(* Masters as ffmpeg writes them: one header, above all else; and in a ladder a *)
(* stream line above each address, with the CODECS of its codec or without any. *)
ASSUME PlaylistAssumption ==
  /\ CodecOrder \in Seq(STRING)
  /\ \A p \in Published :
       /\ p.base \in Seq(PlaylistLines) /\ Len(p.base) >= 2
       /\ \A i \in DOMAIN p.base : p.base[i].kind = "header" <=> i <= 2
       /\ \A c \in DOMAIN p.ladders :
            /\ p.ladders[c] \in Seq(PlaylistLines)
            /\ \A j \in DOMAIN p.ladders[c] :
                 LET line == p.ladders[c][j]
                 IN /\ line.kind = "stream" => line.codecs \in {"", c}
                    /\ line.kind = "uri" => line.under = <<>> /\ Heads(p.ladders[c], j) # {}

(* The lines of other kinds, in their order.                                  *)
Without(master, kinds) ==
  FlattenSeq([i \in DOMAIN master |->
    IF master[i].kind \in kinds THEN <<>> ELSE <<master[i]>>])

(* A base copied as the extra ladders are: variants only.                     *)
CopyVariants(master) == Without(master, {"header", "blank", "tag", "media"})

CopyBaseBody(master) == Without(master, {"header", "blank"})

(* A stream line is written with the next line that is neither blank nor a      *)
(* comment; what lies between, other stream lines included, is passed over.    *)
WriteVariants(master, codec) ==
  FlattenSeq([j \in DOMAIN master |->
    IF master[j].kind = "uri" /\ Heads(master, j) # {}
    THEN <<[master[Min(Heads(master, j))] EXCEPT !.codecs = IF @ = "" THEN codec ELSE @],
           [master[j] EXCEPT !.under = <<codec>> \o @]>>
    ELSE <<>>])

MergeMasters(base, extra, codec) ==
  Header \o CopyBaseBody(base) \o WriteVariants(extra, codec)

(* The loop: a codec whose ladder is not published is left out.               *)
FoldCodec ==
  /\ codecsLeft # <<>>
  /\ LET codec == Head(codecsLeft)
     IN combined' = IF codec \in DOMAIN stored.ladders
                    THEN MergeMasters(combined, stored.ladders[codec], codec)
                    ELSE combined
  /\ codecsLeft' = Tail(codecsLeft)
  /\ UNCHANGED stored

MasterStart == combined = stored.base /\ codecsLeft = CodecOrder

MasterInit == stored \in Published /\ MasterStart

MasterSpec == MasterInit /\ [][FoldCodec]_masterVars

(* What a folded ladder adds: its addresses, under the codec's directory, each   *)
(* with a stream line that names the codec.                                   *)
Listed(codec) ==
  LET ladder == stored.ladders[codec]
  IN FlattenSeq([j \in DOMAIN ladder |->
       IF ladder[j].kind = "uri"
       THEN <<Stream(codec), [ladder[j] EXCEPT !.under = <<codec>>]>>
       ELSE <<>>])

(* Whatever ladders are folded in, in whatever number: one header; every       *)
(* rendition, variant and other line of the base as it was; then, codec by     *)
(* codec, each variant of its ladder under its directory with its CODECS, and  *)
(* nothing else (transcode.go: MergeMasters; av1.go: rebuildCombinedMaster).   *)
MergeKeepsVariants ==
  LET Body(master) == Without(master, {"header", "blank"})
      folded == Len(CodecOrder) - Len(codecsLeft)
  IN /\ \A i \in DOMAIN combined : combined[i].kind = "header" <=> i <= 2
     /\ Body(combined) =
          Body(stored.base) \o FlattenSeq([k \in 1..folded |->
            IF CodecOrder[k] \in DOMAIN stored.ladders THEN Listed(CodecOrder[k]) ELSE <<>>])
=============================================================================
