------------------------------ MODULE Uploads ------------------------------
(***************************************************************************)
(* Files sent to a peer: do_send_photo, send_file_thumb, send_part and the *)
(* answers (queries.c), with the progress that the interface keeps of them *)
(* (TelegramThread::_fileUploading).                                       *)
(*                                                                         *)
(* A file is read in parts, one query each; the next part is sent when the *)
(* last was answered, and after the last part the message with the file.   *)
(* The size of a part is a power of two, at most a third of the file and   *)
(* large enough for the server's limit on the number of parts.  A file is  *)
(* its size here.  To a secret chat the parts are encrypted, in blocks of  *)
(* Align: the last part is padded, which the receiver cuts off by the size *)
(* and which is left out here, and a part before it has whole blocks, or   *)
(* an assertion ends the process.                                          *)
(*                                                                         *)
(* Totals of all the uploads together are shown as the progress of each.   *)
(***************************************************************************)
EXTENDS Integers, Sequences, FiniteSets

CONSTANTS
  Slots,       \* uploads at a time
  Sizes,       \* sizes of files
  FirstPart,   \* part size tried first (32 KB), a power of two
  MaxPart,     \* largest part size (512 KB)
  MaxParts,    \* parts of a file that the server takes (3000)
  Align,       \* block of the cipher (16)
  MaxFiles,    \* bound: files sent
  MaxRefusals  \* bound: queries refused by the server

\* A multiple of the block: x & 15 is 0.
Aligned(x) == \E k \in 0..x : x = k * Align

\* Halves of FirstPart are whole blocks, down to one.
UploadsAssumption ==
  /\ IsFiniteSet(Slots) /\ Sizes \subseteq Nat
  /\ {MaxFiles, MaxRefusals} \subseteq Nat
  /\ {FirstPart, MaxPart, MaxParts, Align} \subseteq Nat \ {0}
  /\ \E P \in SUBSET (1..FirstPart) :
       /\ FirstPart \in P
       /\ \A p \in P : Aligned(p) /\ (p > Align => p \div 2 \in P)

\* The name of a photo is a part of the command line, that of another file a
\* copy.  Videos and documents have a thumb, except in a secret chat (encr).
Kind == {"photo", "thumbed", "other"}

VARIABLES
  file,       \* of each slot: the send_file, or NoFile
  waits,      \* of each slot: the query that is not answered
  last,       \* history: the file that was sent last, and whether it is encr
  uploading,  \* cur_uploading_bytes
  uploaded,   \* cur_uploaded_bytes
  progress,   \* interface: the slots with an entry in uploads
  process,    \* "runs"; "stuck" in the loop that makes the part size;
              \* "broken" by a name that was freed and not allocated;
              \* "aborted" by an assertion
  stored,     \* server: how many parts it has of each slot, and their units
  torn,       \* history: a message was sent before, or not with, all parts
  overlapped, \* history: two files were sent at a time
  files, refusals

upload_vars == <<file, waits, last, uploading, uploaded, progress, process, stored,
                 torn, overlapped, files, refusals>>

NoFile == [size |-> 0, part |-> 0, num |-> 0, offset |-> 0, open |-> FALSE,
           encr |-> FALSE]
NoParts == [parts |-> 0, units |-> <<>>]
Waits == {"nothing", "thumb", "part", "media"}
Process == {"runs", "stuck", "broken", "aborted"}
Last == [size : Sizes \cup {0}, kind : Kind, encr : BOOLEAN]
Active == {s \in Slots : file[s] # NoFile}
Begun == {s \in Slots : file[s].num > 0}

\* One type invariant: offsets are within the file, a slot that waits has one.
TypeOK ==
  /\ \A s \in Slots : file[s].offset \in 0..file[s].size
  /\ waits \in [Slots -> Waits]
  /\ last \in Last
  /\ uploading \in Int /\ uploaded \in Int
  /\ progress \subseteq Slots /\ process \in Process
  /\ {torn, overlapped} \subseteq BOOLEAN
  /\ \A s \in Slots : waits[s] = "part" => file[s].num > 0
  /\ files \in 0..MaxFiles /\ refusals \in 0..MaxRefusals

Init ==
  /\ file = [s \in Slots |-> NoFile] /\ waits = [s \in Slots |-> "nothing"]
  /\ last = [size |-> 0, kind |-> "other", encr |-> FALSE]
  /\ uploading = 0 /\ uploaded = 0 /\ progress = {}
  /\ process = "runs"
  /\ stored = [s \in Slots |-> NoParts] /\ torn = FALSE
  /\ overlapped = FALSE /\ files = 0 /\ refusals = 0

-----------------------------------------------------------------------------
(* The size of a part *)

Ceil(a, b) == (a + b - 1) \div b

Halve(p, third) == IF p > third THEN p \div 2 ELSE p
Double(p, least) == IF p < least THEN 2 * p ELSE p

\* while (part_size > size / 3) part_size /= 2, which takes at most p turns.
Halved(p, third) ==
  LET halved[n \in 0..p] == IF n = 0 THEN p ELSE Halve(halved[n - 1], third)
  IN  halved[p]

\* while (part_size < (size + 2999) / 3000) part_size *= 2, which never ends
\* from 0: then the result is 0.  Else it takes at most as many turns as least.
Doubled(p, least) ==
  LET doubled[n \in 0..least] == IF n = 0 THEN p ELSE Double(doubled[n - 1], least)
  IN  doubled[least]

PartSize(size) == Doubled(Halved(FirstPart, size \div 3), Ceil(size, MaxParts))

-----------------------------------------------------------------------------
(* The interface *)

\* _fileUploading: the entry is made, and removed when the totals agree.
Progress(shown, s, total, done) ==
  IF total <= done THEN shown \ {s} ELSE shown \cup {s}

-----------------------------------------------------------------------------
(* Sending *)

\* n units from the place at on.
Units(at, n) == [i \in 1..n |-> at + i]

\* upload.saveFilePart: what the server has, and one part more.
Stored(parts, units) == [parts |-> parts.parts + 1, units |-> parts.units \o units]

\* f with x units more of it sent: the file is closed after the last of them.
Sent(f, x) == [f EXCEPT !.num = @ + 1, !.offset = @ + x,
                        !.open = IF f.offset + x = f.size THEN FALSE ELSE @]

\* What is read of f: a part, or what is left.
Length(f) == IF f.size - f.offset < f.part THEN f.size - f.offset ELSE f.part

\* The assertion: only the last part of a file for a secret chat is padded.
Breaks(f) == f.encr /\ ~Aligned(Length(f)) /\ f.offset + Length(f) # f.size

Abort ==
  /\ process' = "aborted"
  /\ UNCHANGED <<file, waits, uploading, uploaded, progress, stored, torn>>

\* Slip: the last part is sent with the length of the others.
SendFilePart_Full(s, f) ==
  LET g == [f EXCEPT !.num = @ + 1,
                     !.offset = IF @ + f.part > f.size THEN f.size
                                ELSE @ + f.part,
                     !.open = f.offset + f.part < f.size]
      up == uploading + (IF f.num = 0 THEN f.size ELSE 0)
  IN /\ file' = [file EXCEPT ![s] = g]
     /\ waits' = [waits EXCEPT ![s] = "part"]
     /\ stored' = [stored EXCEPT ![s] = Stored(@, Units(f.offset, f.part))]
     /\ uploading' = up /\ uploaded' = uploaded + f.part
     /\ progress' = Progress(progress, s, up, uploaded')
     /\ UNCHANGED <<torn, process>>

\* A part of f goes out: cur_uploading_bytes grows with the first of them.
PartGoes(s, f) ==
  LET x == Length(f)
      g == Sent(f, x)
      up == uploading + (IF f.num = 0 THEN f.size ELSE 0)
  IN /\ file' = [file EXCEPT ![s] = g]
     /\ waits' = [waits EXCEPT ![s] = "part"]
     /\ stored' = [stored EXCEPT ![s] = Stored(@, Units(f.offset, x))]
     /\ uploading' = up /\ uploaded' = uploaded + x
     /\ progress' = Progress(progress, s, up, uploaded')
     /\ UNCHANGED <<torn, process>>

\* send_part, of a file that is open.
SendFilePart(s, f) == IF Breaks(f) THEN Abort ELSE PartGoes(s, f)

\* The message names the number of the parts that are stored, and they are the
\* file, from its first unit to its last.
Whole(s, f) == stored[s] = [parts |-> f.num, units |-> Units(0, f.size)]

\* The message.  send_file is freed and then shown: whom the progress is of
\* is read from freed memory.
SendMedia(s, f) ==
  /\ file' = [file EXCEPT ![s] = NoFile]
  /\ waits' = [waits EXCEPT ![s] = "media"]
  /\ uploading' = uploading - f.size /\ uploaded' = uploaded - f.size
  /\ torn' = (torn \/ ~Whole(s, f))
  /\ \/ progress' = Progress(progress, s, uploading', uploaded')
     \/ UNCHANGED progress
  /\ stored' = [stored EXCEPT ![s] = NoParts]
  /\ UNCHANGED process

SendPart(s) ==
  IF file[s].open THEN SendFilePart(s, file[s]) ELSE SendMedia(s, file[s])

\* send_file_thumb: videos and documents, except to a secret chat.
SendFileThumb(s, f) ==
  /\ file' = [file EXCEPT ![s] = f] /\ waits' = [waits EXCEPT ![s] = "thumb"]
  /\ UNCHANGED <<uploading, uploaded, progress, process, stored, torn>>

Same == UNCHANGED <<file, waits, uploading, uploaded, progress, stored, torn,
                    overlapped>>

\* No such file, an empty or a too large one: the name is freed.  That of a
\* photo is a part of the command line, which free may survive or not.
DoNotSend(kind) ==
  /\ \/ UNCHANGED process
     \/ kind = "photo" /\ process' = "broken"
  /\ Same

\* do_send_photo, which sends every kind of file.
Start(s, size, kind, encr) ==
  LET f == [size |-> size, part |-> PartSize(size), num |-> 0, offset |-> 0,
            open |-> TRUE, encr |-> encr]
  IN \/ size = 0 /\ DoNotSend(kind)
     \/ size > 0 /\ f.part = 0 /\ process' = "stuck" /\ Same
     \/ size > 0 /\ f.part > MaxPart /\ DoNotSend(kind)
     \/ /\ size > 0 /\ f.part \in 1..MaxPart
        /\ overlapped' = (overlapped \/ Active # {})
        /\ \/ kind = "thumbed" /\ ~encr /\ SendFileThumb(s, f)
           \/ (kind # "thumbed" \/ encr) /\ SendFilePart(s, f)

DoSendPhoto ==
  /\ process = "runs" /\ files < MaxFiles /\ files' = files + 1
  /\ \E s \in Slots, size \in Sizes, kind \in Kind, encr \in BOOLEAN :
       /\ file[s] = NoFile /\ waits[s] = "nothing"
       /\ last' = [size |-> size, kind |-> kind, encr |-> encr]
       /\ \/ DoNotSend(kind)
          \/ Start(s, size, kind, encr)
  /\ UNCHANGED refusals

-----------------------------------------------------------------------------
(* Answers *)

\* Slip: the thumb's answer does not go on to the parts.
SendFilePartOnAnswer_PartsOnly(s) ==
  IF waits[s] = "part" THEN SendPart(s)
  ELSE /\ waits' = [waits EXCEPT ![s] = "nothing"]
       /\ UNCHANGED <<file, uploading, uploaded, progress, process, stored, torn>>

\* send_file_part_on_answer, of a thumb or a part.
SendFilePartOnAnswer(s) == SendPart(s)

\* send_file_on_answer, send_encr_file_on_answer: the message is shown.
SendFileOnAnswer(s) ==
  /\ waits' = [waits EXCEPT ![s] = "nothing"]
  /\ UNCHANGED <<file, uploading, uploaded, progress, process, stored, torn>>

Answered == \E s \in Slots :
  /\ process = "runs"
  /\ \/ waits[s] \in {"thumb", "part"} /\ SendFilePartOnAnswer(s)
     \/ waits[s] = "media" /\ SendFileOnAnswer(s)
  /\ UNCHANGED <<last, overlapped, files, refusals>>

\* None of the three has an on_error: the query is forgotten, and what was to
\* follow does not.
Refused == \E s \in Slots :
  /\ process = "runs" /\ waits[s] # "nothing"
  /\ refusals < MaxRefusals /\ refusals' = refusals + 1
  /\ waits' = [waits EXCEPT ![s] = "nothing"]
  /\ UNCHANGED <<file, last, uploading, uploaded, progress, process, stored, torn,
                 overlapped, files>>

Next == DoSendPhoto \/ Answered \/ Refused

\* Every query is answered (RpcQueries).
Fairness == WF_upload_vars(Answered)
Spec == Init /\ [][Next]_upload_vars
FairSpec == Spec /\ Fairness

-----------------------------------------------------------------------------
(* Properties *)

\* The message of a file is sent only when the server has every part of it.
PartsBeforeMessage == ~torn

\* The sum of n: there are as many pairs of an index and a number up to its value.
Total(n) == Cardinality(UNION {{s} \X (1..n[s]) : s \in DOMAIN n})

\* The totals are those of the uploads that have begun, and zero without any.
TotalsAgree ==
  /\ uploading = Total([s \in Begun |-> file[s].size])
  /\ uploaded = Total([s \in Begun |-> file[s].offset])

\* The client survives every file but three kinds: one of one or two bytes, for
\* which the loop that doubles the part never ends; a photo that is not sent; and,
\* to a secret chat, one of less than three blocks, whose parts are no whole blocks.
\* The assertion fails when such a file is sent, never in the middle of another.
StopsOnlyForKnownFiles ==
  /\ process = "stuck" => last.size \in {1, 2}
  /\ process = "broken" => last.kind = "photo"
  /\ process = "aborted" => last.encr /\ last.size < 3 * Align

\* A file is sent in no more parts than the server takes.
PartsFew == \A s \in Slots : file[s].num <= MaxParts

\* Without an upload under way no file is shown as being sent, if files were
\* sent one after the other: the totals of several together hide the end of
\* the one that ends first.
ProgressCleared == Active = {} /\ ~overlapped => progress = {}

\* Every upload that begins is answered to its end, unless a query is refused or the
\* process stops.
UploadsEnd == \A s \in Slots :
  file[s] # NoFile ~> file[s] = NoFile \/ refusals > 0 \/ process # "runs"

-----------------------------------------------------------------------------
(* The inductive invariant *)

SendFile == [size : Nat, part : Nat, num : Nat, offset : Nat, open : BOOLEAN,
             encr : BOOLEAN]

\* A file is open until its last part is sent, and the server has what was sent.
FileFits == \A s \in Slots :
  /\ file[s].open <=> file[s].offset # file[s].size
  /\ file[s].num = 0 <=> file[s].offset = 0
  /\ file[s] # NoFile => file[s].size > 0 /\ file[s].part > 0
  /\ waits[s] \in {"thumb", "part"} => file[s] # NoFile
  /\ stored[s] = [parts |-> file[s].num, units |-> Units(0, file[s].offset)]

\* Of files sent one after the other only the one under way is shown, as long as
\* parts of it are to be sent.
ShownFits == ~overlapped =>
  /\ \A s, t \in Active : s = t
  /\ progress \subseteq {s \in Active : file[s].open}

\* All parts but the last have the part's size, and MaxParts of them are enough;
\* to a secret chat they are whole blocks.
Smooth(f) == f.encr /\ f.open => Aligned(f.part)
Fits(f) ==
  /\ f.size <= MaxParts * f.part /\ f.num <= MaxParts
  /\ f.open => f.offset = f.num * f.part
  /\ Smooth(f)
PartsFit == \A s \in Slots : Fits(file[s])

\* Inductive: each action keeps it.
IInv ==
  /\ TypeOK /\ file \in [Slots -> SendFile] /\ stored \in [Slots -> [parts : Nat, units : Seq(Nat)]]
  /\ FileFits /\ PartsBeforeMessage /\ TotalsAgree /\ ShownFits

\* The size of a part, which does not depend on the rest, is inductive with it.
UInv == IInv /\ PartsFit /\ StopsOnlyForKnownFiles
=============================================================================
