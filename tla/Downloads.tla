----------------------------- MODULE Downloads -----------------------------
(***************************************************************************)
(* Files fetched from the server: do_load_photo_size, do_load_video,       *)
(* do_load_audio, do_load_document, do_load_encr_video, load_next_part,    *)
(* download_on_answer and end_load (queries.c).                            *)
(*                                                                         *)
(* A file is asked for in parts of 16 KB, one query each, and written to a *)
(* name made of its id.  A part that is there already is not asked for     *)
(* again: the download goes on at the size of the file.  The file is       *)
(* opened with the first answer, and always written from its start.        *)
(*                                                                         *)
(* A file is its size, in units of which the parts are multiples; what is  *)
(* on disk is, for each unit, which unit of the file it is.                *)
(***************************************************************************)
EXTENDS Integers, Sequences, FiniteSets

CONSTANTS
  Files,        \* files of the server, by their id, or volume and local id
  Encrypted,    \* those of secret chats
  Size,         \* the size of each
  Part,         \* size of a part (1 << 14)
  Align,        \* encrypted files are padded to a multiple of it (16)
  Loads,        \* downloads at a time
  MaxLoads,     \* bound: downloads begun
  MaxRefusals,  \* bound: queries refused
  MaxCrashes    \* bound

DownloadsAssumption ==
  /\ Encrypted \subseteq Files /\ Size \in [Files -> Nat \ {0}]
  /\ Align \in Nat \ {0} /\ Part \in Nat \ {0} /\ Part % Align = 0
  /\ IsFiniteSet(Loads) /\ {MaxLoads, MaxRefusals, MaxCrashes} \subseteq Nat

VARIABLES
  load,         \* the downloads: their file, offset and place in the open file
  disk,         \* the units of the copy of each file; empty: no copy
  downloading,  \* cur_downloading_bytes
  downloaded,   \* cur_downloaded_bytes
  running,      \* FALSE after a failed assertion
  resumed,      \* history: files of which a part was there when one began
  spoiled,      \* history: files reported as loaded that are not as sent
  padded,       \* history: an encrypted file was loaded
  loads, partRefusals, ends

download_vars == <<load, disk, downloading, downloaded, running, resumed, spoiled,
                   padded, loads, partRefusals, ends>>
totals == <<downloading, downloaded>>
history == <<resumed, spoiled, padded>>

\* A download waits for an answer unless it was refused: then it is forgotten
\* (download_methods has no on_error) and neither closed nor freed.
Free == [waits |-> FALSE, used |-> FALSE]
Load(f, from) == [file |-> f, offset |-> from, from |-> from, at |-> 0,
                  waits |-> TRUE, used |-> TRUE]
Used == {d \in Loads : load[d].used}

\* One type invariant: offsets and copies stay within the file.
TypeOK ==
  /\ \A d \in Used :
       /\ load[d].file \in Files /\ load[d].offset \in 0..(Size[load[d].file] - 1)
       /\ load[d].at = load[d].offset - load[d].from
  /\ \A f \in Files : /\ disk[f] \in [1..Len(disk[f]) -> 0..Size[f]]
                      /\ Len(disk[f]) \in 0..Size[f]
  /\ downloading \in Nat /\ downloaded \in Nat /\ {running, padded} \subseteq BOOLEAN
  /\ resumed \subseteq Files /\ spoiled \subseteq Files
  /\ loads \in 0..MaxLoads /\ partRefusals \in 0..MaxRefusals /\ ends \in 0..MaxCrashes

Init ==
  /\ load = [d \in Loads |-> Free] /\ disk = [f \in Files |-> <<>>]
  /\ downloading = 0 /\ downloaded = 0 /\ running = TRUE
  /\ resumed = {} /\ spoiled = {} /\ padded = FALSE
  /\ loads = 0 /\ partRefusals = 0 /\ ends = 0

-----------------------------------------------------------------------------
(* The file *)

\* What the server has of a file.
Stored(f) == IF f \in Encrypted THEN ((Size[f] + Align - 1) \div Align) * Align
             ELSE Size[f]

\* write: from the place that was reached on, over what is there.
Written(copy, at, units) ==
  [i \in 1..(IF Len(copy) > at + Len(units) THEN Len(copy) ELSE at + Len(units)) |->
     IF i \in (at + 1)..(at + Len(units)) THEN units[i - at] ELSE copy[i]]

Whole(f) == [i \in 1..Size[f] |-> i]

\* end_load, with the totals before it; fileLoaded tells the interface, or
\* the image viewer is started.
EndLoad(f, up, down) ==
  /\ downloading' = up - Size[f] /\ downloaded' = down - Size[f]
  /\ padded' = (padded \/ f \in Encrypted)

Reported(f, copy) == IF copy = Whole(f) THEN spoiled ELSE spoiled \cup {f}

-----------------------------------------------------------------------------
(* Asking *)

\* load_next_part of a new download: the size of the copy is its offset.
Begin(d, f) ==
  LET n == Len(disk[f])
  IN IF n >= Size[f]
     THEN /\ EndLoad(f, downloading + Size[f], downloaded + n)
          /\ spoiled' = Reported(f, disk[f])
          /\ UNCHANGED <<load, resumed>>
     ELSE /\ load' = [load EXCEPT ![d] = Load(f, n)]
          /\ downloading' = downloading + Size[f] /\ downloaded' = downloaded + n
          /\ resumed' = IF n > 0 THEN resumed \cup {f} ELSE resumed
          /\ UNCHANGED <<spoiled, padded>>

\* do_load_photo_size, of the largest size of a photo or a thumb.  Without a
\* data centre it is not loaded.
DoLoadPhotoSize(d) == \E f \in Files \ Encrypted : Begin(d, f)

\* do_load_video, do_load_audio and do_load_document.
DoLoadFile(d) == \E f \in Files \ Encrypted : Begin(d, f)

\* do_load_encr_video, with the initialisation vector of the whole file.
DoLoadEncrVideo(d) == \E f \in Encrypted : Begin(d, f)

DoLoad == \E d \in Loads \ Used :
  /\ running /\ loads < MaxLoads /\ loads' = loads + 1
  /\ DoLoadPhotoSize(d) \/ DoLoadFile(d) \/ DoLoadEncrVideo(d)
  /\ UNCHANGED <<disk, running, partRefusals, ends>>

-----------------------------------------------------------------------------
(* Answers *)

\* What is written of a part.  An encrypted file that is not decrypted from
\* its start is garbage to its end.
Units(l, len) ==
  [i \in 1..len |-> IF l.file \in Encrypted /\ l.from > 0 THEN 0 ELSE l.offset + i]

Trimmed(l, len) == IF len > Size[l.file] - l.offset THEN Size[l.file] - l.offset ELSE len

\* Slip: a download ends with its first part.
Finished_AtOnce(l, offset) == TRUE

\* Slip: the last part is not recognised as such.
Finished_Never(l, offset) == offset > Size[l.file]

Finished(l, offset) == offset >= Size[l.file]

\* download_on_answer.  cur_downloaded_bytes counts the padding too.
DownloadOnAnswer(d) ==
  LET l == load[d]
      f == l.file
      len == IF Stored(f) - l.offset < Part THEN Stored(f) - l.offset ELSE Part
      x == Trimmed(l, len)
      copy == Written(disk[f], l.at, Units(l, x))
      next == [l EXCEPT !.offset = @ + x, !.at = @ + x]
  IN IF f \in Encrypted /\ len % Align # 0
     THEN /\ running' = FALSE     \* assert (!(len & 15))
          /\ UNCHANGED <<load, disk, totals, history>>
     ELSE /\ disk' = [disk EXCEPT ![f] = copy]
          /\ \/ /\ ~Finished(l, next.offset)
                /\ load' = [load EXCEPT ![d] = next]
                /\ downloaded' = downloaded + len
                /\ UNCHANGED <<downloading, history>>
             \/ /\ Finished(l, next.offset)
                /\ load' = [load EXCEPT ![d] = Free]
                /\ EndLoad(f, downloading, downloaded + len)
                /\ spoiled' = Reported(f, copy)
                /\ UNCHANGED resumed
          /\ UNCHANGED running

PartAnswered == \E d \in Loads :
  /\ running /\ load[d].waits /\ DownloadOnAnswer(d)
  /\ UNCHANGED <<loads, partRefusals, ends>>

\* An answer with an error: query_error forgets the query.
PartRefused == \E d \in Loads :
  /\ running /\ load[d].waits
  /\ partRefusals < MaxRefusals /\ partRefusals' = partRefusals + 1
  /\ load' = [load EXCEPT ![d].waits = FALSE]
  /\ UNCHANGED <<disk, totals, running, history, loads, ends>>

\* The process ends, by itself or by an assertion; the copies stay.
Crash ==
  /\ ends < MaxCrashes /\ ends' = ends + 1
  /\ load' = [d \in Loads |-> Free] /\ downloading' = 0 /\ downloaded' = 0
  /\ running' = TRUE /\ padded' = FALSE
  /\ UNCHANGED <<disk, resumed, spoiled, loads, partRefusals>>

Next == DoLoad \/ PartAnswered \/ PartRefused \/ Crash

\* Every query is answered (RpcQueries).
Fairness == WF_download_vars(PartAnswered)
Spec == Init /\ [][Next]_download_vars
FairSpec == Spec /\ Fairness

-----------------------------------------------------------------------------
(* Properties *)

\* A file reported as loaded is the server's, unless a part of it was there
\* when one of its downloads began: what follows that part is then written in
\* its place.  The assertion on the length of an encrypted part never fails: a
\* copy that was resumed ends whole parts before the end of the file.
LoadedRight == running /\ spoiled \subseteq resumed

\* The sum of n: there are as many pairs of an index and a number up to its value.
Total(n) == Cardinality(UNION {{d} \X (1..n[d]) : d \in DOMAIN n})

\* The total to load is that of the downloads that are not ended; the loaded
\* total is theirs too, but grows by the padding of encrypted files.
DownloadTotals ==
  LET own == Total([d \in Used |-> load[d].offset])
  IN /\ downloading = Total([d \in Used |-> Size[load[d].file]])
     /\ downloaded >= own /\ (padded \/ downloaded = own)

\* Every download ends, unless a part is refused or the process fails.
DownloadsEnd == \A d \in Loads :
  load[d].used ~> ~load[d].used \/ partRefusals > 0 \/ ~running

-----------------------------------------------------------------------------
(* The inductive invariant *)

LoadRecord == [file : Files, offset : Nat, from : Nat, at : Nat, waits : BOOLEAN,
               used : BOOLEAN]

\* A download that is not used has nothing.
LoadFits ==
  /\ load \in [Loads -> {Free} \cup LoadRecord] /\ disk \in [Files -> Seq(Nat)]
  /\ \A d \in Loads : load[d] # Free => load[d].used

\* Copies end, and downloads begin, at whole parts from the start of the file or
\* from its end; downloads go on by whole parts.
Parts(n) == \E k \in Nat : n = k * Part
AtParts ==
  /\ \A f \in Files : Parts(Len(disk[f])) \/ Parts(Size[f] - Len(disk[f]))
  /\ \A d \in Used : /\ Parts(load[d].at)
                     /\ Parts(load[d].from) \/ Parts(Size[load[d].file] - load[d].from)

\* A copy goes as far as each download of it has come, and is right if no part of
\* it was there when a download began.
CopyFits ==
  /\ \A d \in Used : load[d].at <= Len(disk[load[d].file])
  /\ \A f \in Files \ resumed :
       /\ disk[f] = [i \in 1..Len(disk[f]) |-> i]
       /\ \A d \in Used : load[d].file = f => load[d].from = 0

\* Inductive: each action keeps it.
IInv ==
  /\ TypeOK /\ LoadFits /\ AtParts /\ CopyFits /\ LoadedRight /\ DownloadTotals
=============================================================================
