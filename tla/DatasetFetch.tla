----------------------------- MODULE DatasetFetch -----------------------------
(***************************************************************************)
(* Data sets on disk: fetch() downloads what is not there or does not      *)
(* verify, one file after another; raw_to_csv() converts a delimited file. *)
(* A content is a digest and the widths of its lines, the header first;    *)
(* what a server sends may be anything.                                    *)
(***************************************************************************)
EXTENDS Integers, Sequences, FiniteSets
CONSTANTS Files,      \* sequence of [name, sha, rows, manual]; a 0 stands for None
          Contents,   \* [sha, lines]; equal digests have equal lines
          MaxFetches  \* bound: calls of fetch and raw_to_csv

VARIABLES disk,       \* name -> content, of the files that are there
          fetching,   \* 0, or the file of the list that fetch is at
          force, fetches, csv,
          fetched     \* ghost: how the last call of fetch ended

fvars == <<disk, fetching, force, fetches, csv, fetched>>

\* count_csv_data_rows: a line of another width than the header's is a parse error.
Parses(c) == \A i \in DOMAIN c.lines : c.lines[i] = c.lines[1]
DataRows(c) == Len(c.lines) - 1

\* cache_hit: by digest, else by rows, else by being there.
HitIfThere(f) == f.name \in DOMAIN disk   \* mutant: an old file is never looked at
CacheHit(f) ==
  /\ f.name \in DOMAIN disk
  /\ IF f.sha # 0 THEN disk[f.name].sha = f.sha
     ELSE f.rows # 0 => Parses(disk[f.name]) /\ DataRows(disk[f.name]) = f.rows

\* verify: both, where they are known.
Verifies(f, c) ==
  /\ f.sha # 0 => c.sha = f.sha
  /\ f.rows # 0 => Parses(c) /\ DataRows(c) = f.rows

\* A data set names each of its files once, and the rows it tells of a file are those
\* of the content whose digest it tells: cache_hit relies on it.
ASSUME FetchAssumption ==
  /\ Files \in Seq([name : STRING, sha : Nat, rows : Nat, manual : BOOLEAN]) /\ Files # <<>>
  /\ \A i, j \in DOMAIN Files : Files[i].name = Files[j].name => i = j
  /\ \A i \in DOMAIN Files, c \in Contents : Files[i].sha # 0 /\ c.sha = Files[i].sha => Verifies(Files[i], c)

FetchInit == disk = << >> /\ fetching = 0 /\ force = FALSE /\ fetches = 0 /\ csv = <<>> /\ fetched = "none"

Call ==
  /\ fetching = 0 /\ fetches < MaxFetches
  /\ fetching' = 1 /\ force' \in BOOLEAN /\ fetches' = fetches + 1 /\ fetched' = "none"
  /\ UNCHANGED <<disk, csv>>

\* The file is done: the next one, or Ok.
FetchPassed == IF fetching < Len(Files) THEN fetching' = fetching + 1 /\ UNCHANGED fetched
                                   ELSE fetching' = 0 /\ fetched' = "ok"
FetchFailed == fetching' = 0 /\ fetched' = "error"

\* cache_hit parses what is there to count its rows; a file it cannot parse ends the call.
HitUnreadable(f) == f.name \in DOMAIN disk /\ f.sha = 0 /\ f.rows # 0 /\ ~Parses(disk[f.name])

KeepFile == /\ fetching # 0 /\ ~force /\ CacheHit(Files[fetching])
       /\ FetchPassed /\ UNCHANGED <<disk, force, fetches, csv>>

\* A file that has to be obtained by hand, an unreadable one, a failed download.
NoFile == /\ fetching # 0
          /\ force \/ ~CacheHit(Files[fetching])
          /\ FetchFailed /\ UNCHANGED <<disk, force, fetches, csv>>

\* download, atomic_write, verify: what does not verify stays on disk.
Download ==
  /\ fetching # 0 /\ ~Files[fetching].manual
  /\ force \/ (~CacheHit(Files[fetching]) /\ ~HitUnreadable(Files[fetching]))
  /\ \E c \in Contents :
       /\ disk' = [n \in DOMAIN disk \cup {Files[fetching].name} |-> IF n = Files[fetching].name THEN c ELSE disk[n]]
       /\ IF Verifies(Files[fetching], c) THEN FetchPassed ELSE FetchFailed
  /\ UNCHANGED <<force, fetches, csv>>

\* The user puts a file in place, or the program dies between two files.
ByHand == /\ fetching = 0 /\ fetches < MaxFetches
          /\ \E f \in {Files[i] : i \in DOMAIN Files}, c \in Contents :
               disk' = [n \in DOMAIN disk \cup {f.name} |-> IF n = f.name THEN c ELSE disk[n]]
          /\ fetched' = "none" /\ fetches' = fetches + 1
          /\ UNCHANGED <<fetching, force, csv>>
Crash == /\ fetching # 0 /\ fetching' = 0 /\ fetched' = "error"
         /\ UNCHANGED <<disk, force, fetches, csv>>

\* raw_to_csv: the segments between newlines are the lines, given by their width, 0 for
\* an empty one, which has one field; at the very end it is not a line.  A file is written only when all lines fit.
Segments == {<<2>>, <<2, 2>>, <<2, 2, 0>>, <<2, 0, 2>>, <<2, 1>>, <<2, 2, 2, 0>>}
Width(s) == IF s = 0 THEN 1 ELSE s
Lines(raw) == IF Len(raw) > 1 /\ raw[Len(raw)] = 0 THEN SubSeq(raw, 1, Len(raw) - 1) ELSE raw
Convert ==
  /\ fetching = 0 /\ fetches < MaxFetches
  /\ \E raw \in Segments, expected \in {0, 1} :
       LET widths == [i \in DOMAIN Lines(raw) |-> Width(Lines(raw)[i])]
           fits   == \A i \in DOMAIN widths : widths[i] = widths[1]
       IN  csv' = IF fits /\ (expected # 0 => Len(widths) - 1 = expected) THEN widths ELSE csv
  /\ fetches' = fetches + 1 /\ fetched' = "none"
  /\ UNCHANGED <<disk, fetching, force>>

FetchNext == Call \/ KeepFile \/ NoFile \/ Download \/ ByHand \/ Crash \/ Convert

FetchSpec == FetchInit /\ [][FetchNext]_fvars

-----------------------------------------------------------------------------
(* Properties *)

\* When fetch() returns Ok every file of the data set is on disk and has the digest
\* and the rows that are known of it, also when an earlier call, forced or not, left a
\* bad download behind, died half way, or the user put a file there; and a conversion
\* never leaves a CSV that is not rectangular.
OkMeansVerified ==
  /\ fetched = "ok" => \A i \in DOMAIN Files :
       Files[i].name \in DOMAIN disk /\ Verifies(Files[i], disk[Files[i].name])
  /\ \A i \in DOMAIN csv : csv[i] = csv[1]
=============================================================================
