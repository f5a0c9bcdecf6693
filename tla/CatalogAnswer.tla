--------------------------- MODULE CatalogAnswer ---------------------------
(***************************************************************************)
(* parseFullCatalogJson (packages/collectors/ytdlp/src/full-catalog.ts):    *)
(* what an answer of yt-dlp says of a channel's catalogue.  An answer is a  *)
(* sequence of entries, each with the video it names (NULL when malformed  *)
(* or of another channel) and its views (NULL when missing), and the       *)
(* number of entries the playlist declares (NULL when it declares none).   *)
(***************************************************************************)
EXTENDS Integers, Sequences, FiniteSets

CONSTANTS NULL, Videos, Views

Figure == Views \cup {NULL}

Answer ==
    [entries : Seq([video : Videos \cup {NULL}, views : Figure]), declared : Nat \cup {NULL}]

Positions(a) == 1..Len(a.entries)

Declared(a) == IF a.declared = NULL THEN Len(a.entries) ELSE a.declared

SourceEntryCount(a) ==
    IF Declared(a) > Len(a.entries) THEN Declared(a) ELSE Len(a.entries)

\* An entry is skipped, or declared and not there, or there and not declared.
Skipped(a) ==
    Declared(a) # Len(a.entries) \/ \E i \in Positions(a) : a.entries[i].video = NULL

\* Repeated entries count too.
MissingViews(a) ==
    \E i \in Positions(a) : a.entries[i].video # NULL /\ a.entries[i].views = NULL

Occurrences(a, v) == {i \in Positions(a) : a.entries[i].video = v}

Listed(a) == {v \in Videos : Occurrences(a, v) # {}}

\* The first entry of a video wins.
ViewsOf(a, v) ==
    a.entries[CHOOSE i \in Occurrences(a, v) : \A j \in Occurrences(a, v) : i <= j].views

\* DailyVideoCatalogJob.run: the catalogue is complete.
Complete(a) ==
    ~Skipped(a) /\ ~MissingViews(a) /\ Cardinality(Listed(a)) = SourceEntryCount(a)
=============================================================================
