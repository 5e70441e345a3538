---------------------------- MODULE ClipSources -----------------------------
(***************************************************************************)
(* The clip sources of data/sources.py and data/language.py: which clips a *)
(* source lists as candidates, of which duration, and in which group       *)
(* (speaker, video or sentence).  The metadata of the Hub is given by      *)
(* constants; a clip is the key its source knows it by, and belongs to one *)
(* source.                                                                 *)
(*                                                                         *)
(* A context source (MesoliticaContext) finds the video of a clip by the   *)
(* line number in the clip's name, in as much of the index file as was     *)
(* read; a conversational one finds the speaker by the row number in the   *)
(* name, in the column of the original corpus.                             *)
(***************************************************************************)
EXTENDS Naturals, Sequences, FiniteSets, Functions

CONSTANTS Clips,
          SourceOf,   \* clip -> the source whose metadata lists it
          Kind,       \* source -> "context", "conversational", "fleurs" or "librispeech"
          Row,        \* clip -> [at, length, words]: where the group is found (a line or a
                      \* row number, or the group itself), the duration, the word count
          Stored,     \* clips whose audio is in the zips or row groups that are configured
          Index,      \* the whole index file: a sequence of [video, malay, id, my]
          SpeakerIds, \* the id column of the original conversational corpus
          MaxShare,   \* indonesian_max_share, in percent
          MinHits     \* indonesian_min_hits

\* The kinds of source that are configured, and line numbers where lines are looked up.
ASSUME SourceAssumption ==
    /\ SourceOf \in [Clips -> DOMAIN Kind]
    /\ \A s \in DOMAIN Kind : Kind[s] \in {"context", "conversational", "fleurs", "librispeech"}
    /\ \A c \in Clips : Kind[SourceOf[c]] = "context" => Row[c].at \in Nat

\* Mutant of IndexHead: lines that are not decoded as Malay are skipped, and positions shift.
X_IndexHead(n) == SelectSeq(SubSeq(Index, 1, n), LAMBDA line : line.malay)

\* parse_index_head: the whole lines among the bytes read, each at its own line number.
IndexHead(n) == SubSeq(Index, 1, n)

Video(c, n) == IndexHead(n)[Row[c].at + 1].video

\* Marker words of a video in its Malay lines, by variety.
Markers(v, n, variety) ==
    LET lines == {i \in DOMAIN IndexHead(n) : IndexHead(n)[i].video = v /\ IndexHead(n)[i].malay}
    IN  SumFunction([i \in lines |-> IndexHead(n)[i][variety]])

\* flag_indonesian: enough markers, and too many of them Indonesian.
Flagged(id, my) == id + my >= MinHits /\ id * 100 > MaxShare * (id + my)

IndonesianVideos(n) ==
    {v \in {IndexHead(n)[i].video : i \in DOMAIN IndexHead(n)} :
        Flagged(Markers(v, n, "id"), Markers(v, n, "my"))}

\* The speaker column is joined by row number; FLEURS has sentences, LibriSpeech readers.
Speaker(c) == SpeakerIds[Row[c].at + 1]
Sentence(c) == Row[c].at
Reader(c) == Row[c].at

\* Candidate.group: what split_groups and the group cap go by.
GroupOf(c, n) ==
    CASE Kind[SourceOf[c]] = "context" -> Video(c, n)
      [] Kind[SourceOf[c]] = "conversational" -> Speaker(c)
      [] Kind[SourceOf[c]] = "fleurs" -> Sentence(c)
      [] Kind[SourceOf[c]] = "librispeech" -> Reader(c)

\* The rows of a source whose audio is there.
Listed(s) == {c \in Clips \cap Stored : SourceOf[c] = s}

\* MesoliticaContext: a clip without a timestamp has length 0.
InContext(c, n) ==
    /\ Row[c].at < Len(IndexHead(n))
    /\ Row[c].length > 0
    /\ Video(c, n) \notin IndonesianVideos(n)

\* candidates(), when the first n lines of the index were read.
Candidates(s, n) ==
    IF Kind[s] = "context" THEN {c \in Listed(s) : InContext(c, n)} ELSE Listed(s)

\* Where a clip is from, whatever the code makes of the metadata: the line and the row that
\* a name quotes are those of the whole files.
Origin(c) ==
    <<SourceOf[c],
      CASE Kind[SourceOf[c]] = "context" -> Index[Row[c].at + 1].video
        [] Kind[SourceOf[c]] = "conversational" -> SpeakerIds[Row[c].at + 1]
        [] OTHER -> Row[c].at>>

\* FLEURS does not say who reads: the origin is a sentence, which several people have read,
\* and a reader may have read several.
HasVoice(c) == Kind[SourceOf[c]] # "fleurs"

\* The speakers and videos heard in some clips, and the FLEURS sentences read in them.
Voices(clips) == {Origin(c) : c \in {d \in clips : HasVoice(d)}}
Sentences(clips) == {Origin(c) : c \in {d \in clips : ~HasVoice(d)}}
=============================================================================
