--------------------------------- MODULE Paging ---------------------------------
(***************************************************************************)
(* Output in pages: the file tool's `read`, which scans a file forwards    *)
(* chunk by chunk, and a job's poll, which pages its log from the newest   *)
(* line backwards, each while the text may still grow (tools/files.rs,     *)
(* jobs/log.rs).                                                           *)
(* Neither changes the text, so a behaviour has one of them.               *)
(*                                                                         *)
(* A line is its number and its length; the bytes of a line are alike.     *)
(***************************************************************************)
EXTENDS Integers, Sequences, FiniteSetsExt

CONSTANTS
  MaxRead,           \* MAX_READ_LINE_BYTES, of a line while `read` scans it
  Seal, Back,        \* the length of LINE_TRUNCATED; of a split character
  MaxLine, Tag,      \* MAX_LINE_BYTES, of a line in a page; the length of its `[+N bytes]`
  MaxPage,           \* MAX_PAGE_BYTES
  Keep,              \* the lines a trim of the log leaves
  Default,           \* DEFAULT_PAGE
  Limit, Start,      \* the limits clients ask for, and the cursors they start at
  MaxSize, MaxLines  \* bounds on the text: bytes of a line, lines

ASSUME PageConstants ==
  /\ MaxRead \in Nat \ {0} /\ MaxLine \in Nat \ {0} /\ MaxPage \in Nat /\ Tag \in Nat
  /\ Back \in 0..MaxRead /\ Seal \in Nat /\ Seal > Back
  /\ Keep \in Nat \ {0} /\ Default \in Nat \ {0} /\ Limit \subseteq Nat /\ Start \subseteq Nat
  /\ MaxSize \in Nat \ {0} /\ MaxLines \in Nat

VARIABLES
  text,     \* the lines of the file or log
  open,     \* its last line has no newline yet
  stopped,  \* nobody writes to it any more
  reader,   \* an agent that reads the text as a file, from a line to its end
  got,      \* what it has been given
  poller,   \* an agent that polls it as a job's log, back to its beginning
  shown     \* the numbers of the lines it has been given

vars == <<text, open, stopped, reader, got, poller, shown>>

Lines == [no : 0..MaxLines, size : 0..MaxSize]
(* A line read: the bytes kept of it, and whether its tail was dropped. *)
Copies == [no : 0..MaxLines, kept : 0..MaxRead, cut : BOOLEAN]

Smaller(a, b) == IF a < b THEN a ELSE b

(* A limit of zero taken as it is. *)
AsAsked(limit) == limit

(* limit.max(1) *)
AtLeastOne(limit) == IF limit = 0 THEN 1 ELSE limit

Readers == [pc : {"off", "scan", "page", "done"}, first : Nat, cursor : Nat, limit : Nat,
            total : Nat, line : [kept : 0..MaxRead, cut : BOOLEAN], off : Nat, window : Seq(Copies), eof : BOOLEAN]
Pollers == [pc : {"off", "paging", "done"}, cursor : Nat, limit : Nat, first : Nat, oldest : Nat]

TypeOK ==
  /\ text \in Seq(Lines) /\ open \in BOOLEAN /\ stopped \in BOOLEAN
  /\ reader \in Readers /\ Len(reader.window) <= reader.limit
  /\ got \in Seq(Copies)
  /\ poller \in Pollers /\ shown \subseteq 0..MaxLines

NoLine == [kept |-> 0, cut |-> FALSE]
Reading(pc, first, cursor, limit) ==
  [pc |-> pc, first |-> first, cursor |-> cursor, limit |-> limit, total |-> 0, line |-> NoLine,
   off |-> 0, window |-> <<>>, eof |-> FALSE]

Init ==
  /\ text = <<>> /\ open = FALSE /\ stopped = FALSE
  /\ reader = Reading("off", 0, 0, 0) /\ got = <<>>
  /\ poller = [pc |-> "off", cursor |-> 0, limit |-> 0, first |-> 0, oldest |-> 0]
  /\ shown = {}

-----------------------------------------------------------------------------
(* paginate and paginate_tail, on lines of given sizes.                    *)

Clamped(size) == IF size <= MaxLine THEN size ELSE MaxLine + Tag

(* What the lines cost in a page: each as clamped, and a newline. *)
Cost(sizes, from, to) == MapThenSumSet(LAMBDA i : Clamped(sizes[i]) + 1, from..to)

(* How many lines of `sizes` from `start` on a page takes: `limit` of them *)
(* and no more than fit, but always one.                                   *)
PageLength(sizes, start, limit) ==
  Max({n \in 0..Smaller(limit, Len(sizes) - start) :
         n <= 1 \/ Cost(sizes, start + 1, start + n) <= MaxPage})

(* Likewise the lines that end at `end`, from the newest one back. *)
TailLength(sizes, end, limit) ==
  Max({n \in 0..Smaller(limit, end) : n <= 1 \/ Cost(sizes, end - n + 1, end) <= MaxPage})

-----------------------------------------------------------------------------
(* Whoever writes the text appends to it.  A job's log is trimmed once     *)
(* nobody does (JobLog); a file is not.                                    *)

readFrame == <<reader, got>>
pollFrame == <<poller, shown>>

WriteBytes ==
  /\ ~stopped
  /\ \E n \in 1..MaxSize :
       \/ /\ open /\ n <= MaxSize - text[Len(text)].size
          /\ text' = [text EXCEPT ![Len(text)].size = @ + n]
       \/ /\ ~open /\ Len(text) < MaxLines
          /\ text' = Append(text, [no |-> Len(text) + 1, size |-> n])
  /\ open' = TRUE
  /\ UNCHANGED <<stopped, readFrame, pollFrame>>

WriteNewline ==
  /\ ~stopped
  /\ \/ open /\ UNCHANGED text
     \/ /\ ~open /\ Len(text) < MaxLines
        /\ text' = Append(text, [no |-> Len(text) + 1, size |-> 0])
  /\ open' = FALSE
  /\ UNCHANGED <<stopped, readFrame, pollFrame>>

Stop ==
  /\ ~stopped /\ stopped' = TRUE
  /\ UNCHANGED <<text, open, readFrame, pollFrame>>

(* trim_log, of a text nobody reads as a file; 0 is the marker's number. *)
Trim ==
  /\ stopped /\ reader.pc = "off" /\ Len(text) > Keep /\ text[1].no # 0
  /\ text' = <<[no |-> 0, size |-> 1]>> \o SubSeq(text, Len(text) - Keep + 1, Len(text))
  /\ open' = FALSE
  /\ UNCHANGED <<stopped, readFrame, pollFrame>>

-----------------------------------------------------------------------------
(* read: one chunk of the buffered reader a step, the text growing in      *)
(* between.                                                                *)

(* A log once trimmed is no file that only grows. *)
Untrimmed == \A i \in DOMAIN text : text[i].no # 0

ReadStart ==
  /\ reader.pc = "off" /\ poller.pc = "off" /\ Untrimmed
  /\ \E cursor \in Start, limit \in Limit :
       reader' = Reading("scan", cursor, cursor, AtLeastOne(limit))
  /\ UNCHANGED <<text, open, stopped, got, pollFrame>>

(* The line in flight, once this line's bytes are over. *)
Copy == [no |-> text[reader.total + 1].no, kept |-> reader.line.kept, cut |-> reader.line.cut]

(* append_capped taking a full line for a sealed one. *)
SealedEarly(line, n) ==
  IF line.kept >= MaxRead THEN {line}
  ELSE IF n <= MaxRead - line.kept THEN {[line EXCEPT !.kept = @ + n]}
  ELSE {[kept |-> MaxRead - b, cut |-> TRUE] : b \in 0..Back}

(* read_until, which keeps a line whatever its length. *)
Slurped(line, n) == {[line EXCEPT !.kept = @ + n]}

(* append_capped: a line that outgrows the cap keeps its head, less a      *)
(* split character, and gets the marker, which seals it by its length.     *)
Size(line) == line.kept + IF line.cut THEN Seal ELSE 0
AppendCapped(line, n) ==
  IF Size(line) > MaxRead THEN {line}
  ELSE IF n <= MaxRead - line.kept THEN {[line EXCEPT !.kept = @ + n]}
  ELSE {[kept |-> MaxRead - b, cut |-> TRUE] : b \in 0..Back}

Full == Len(reader.window) >= reader.limit
AtEnd ==
  \/ reader.total = Len(text)
  \/ reader.total + 1 = Len(text) /\ open /\ reader.off = text[Len(text)].size

(* The window takes the line when the cursor is reached. *)
Taken(copy) == IF reader.total >= reader.cursor THEN Append(reader.window, copy) ELSE reader.window

(* The chunk ends inside the line. *)
ScanBytes ==
  /\ reader.pc = "scan" /\ ~Full /\ ~AtEnd
  /\ \E n \in 1..(text[reader.total + 1].size - reader.off) :
       \E line \in AppendCapped(reader.line, n) :
         reader' = [reader EXCEPT !.line = line, !.off = @ + n]
  /\ UNCHANGED <<text, open, stopped, got, pollFrame>>

(* The chunk has the line's newline. *)
ScanLine ==
  /\ reader.pc = "scan" /\ ~Full /\ ~AtEnd
  /\ ~(open /\ reader.total + 1 = Len(text))
  /\ LET rest == text[reader.total + 1].size - reader.off IN
       \E line \in AppendCapped(reader.line, rest) :
         reader' = [reader EXCEPT !.total = @ + 1, !.off = 0, !.line = NoLine,
                      !.window = Taken([no |-> text[reader.total + 1].no,
                                        kept |-> line.kept, cut |-> line.cut])]
  /\ UNCHANGED <<text, open, stopped, got, pollFrame>>

(* No more bytes: a last line without its newline counts. *)
ScanEnd ==
  /\ reader.pc = "scan" /\ ~Full /\ AtEnd
  /\ reader' = [(IF reader.off = 0 THEN reader
                 ELSE [reader EXCEPT !.window = Taken(Copy), !.total = @ + 1])
                EXCEPT !.pc = "page", !.eof = TRUE]
  /\ UNCHANGED <<text, open, stopped, got, pollFrame>>

(* The early stop: a full window is a page. *)
ScanFull ==
  /\ reader.pc = "scan" /\ Full
  /\ reader' = [reader EXCEPT !.pc = "page"]
  /\ UNCHANGED <<text, open, stopped, got, pollFrame>>

Sizes(window) == [i \in DOMAIN window |-> Size(window[i])]

(* more_remains: past an early stop there is more, or may be. *)
MoreRemains(next) == ~reader.eof \/ next < reader.total

(* The answer; the agent asks for the rest with the cursor it is given. *)
ReadAnswer ==
  /\ reader.pc = "page"
  /\ LET n == PageLength(Sizes(reader.window), 0, reader.limit)
         next == Smaller(reader.cursor, reader.total) + n
     IN /\ got' = got \o SubSeq(reader.window, 1, n)
        /\ \E limit \in Limit :
             reader' = IF MoreRemains(next) THEN Reading("scan", reader.first, next, AtLeastOne(limit))
                       ELSE [reader EXCEPT !.pc = "done"]
  /\ UNCHANGED <<text, open, stopped, pollFrame>>

-----------------------------------------------------------------------------
(* A job's log, which every page reads whole: `bash` answers a job that    *)
(* ended in its inline window with the top of it, job(poll) goes backwards.*)

(* read_page, from the log's first line. *)
InlineLength == PageLength([i \in DOMAIN text |-> text[i].size], 0, AtLeastOne(Default))

Newest == IF text = <<>> THEN 0 ELSE text[Len(text)].no

(* bash: what did not fit the page is left to polling, from the newest on. *)
Inline ==
  /\ poller.pc = "off" /\ reader.pc = "off"
  /\ shown' = {text[i].no : i \in 1..InlineLength}
  /\ \E limit \in Limit :
       poller' = IF InlineLength < Len(text)
                 THEN [pc |-> "paging", cursor |-> 0, limit |-> limit, first |-> 0, oldest |-> 0]
                 ELSE [pc |-> "done", cursor |-> 0, limit |-> limit, first |-> Newest, oldest |-> 0]
  /\ UNCHANGED <<text, open, stopped, readFrame>>

PollStart ==
  /\ poller.pc = "off" /\ reader.pc = "off"
  /\ \E limit \in Limit :
       poller' = [pc |-> "paging", cursor |-> 0, limit |-> limit, first |-> 0, oldest |-> 0]
  /\ UNCHANGED <<text, open, stopped, readFrame, shown>>

(* next_cursor from the limit asked for, whatever the page held. *)
ByLimit(cursor, n, limit) == cursor + limit

NextCursor(cursor, n, limit) == cursor + n

PollPage ==
  /\ poller.pc = "paging"
  /\ LET end == Len(text) - Smaller(poller.cursor, Len(text))
         limit == AtLeastOne(poller.limit)
         n == TailLength([i \in DOMAIN text |-> text[i].size], end, limit)
         page == {text[i].no : i \in (end - n + 1)..end}
     IN /\ shown' = shown \cup page
        /\ poller' = [poller EXCEPT
             !.cursor = NextCursor(@, n, limit),
             !.pc = IF end - n > 0 THEN "paging" ELSE "done",
             !.first = IF poller.cursor = 0 /\ page # {} THEN text[end].no ELSE @,
             !.oldest = IF page = {} THEN @ ELSE text[end - n + 1].no]
  /\ UNCHANGED <<text, open, stopped, readFrame>>

Read == ReadStart \/ ScanBytes \/ ScanLine \/ ScanEnd \/ ScanFull \/ ReadAnswer

Next == WriteBytes \/ WriteNewline \/ Stop \/ Trim \/ Read \/ Inline \/ PollStart \/ PollPage

Spec == Init /\ [][Next]_vars

(* An agent asks for its next page; nobody has to write, stop or trim. *)
LiveSpec == Spec /\ WF_vars(Read) /\ WF_vars(PollPage)

-----------------------------------------------------------------------------
(* Properties *)

(* The pages of a file that grows while it is read, each asked for with    *)
(* the cursor of the one before, are the file's lines from the first one   *)
(* asked for: none skipped, repeated or given half, whatever the limits,   *)
(* the byte budget and the chunks.  A line's tail is missing only behind   *)
(* the marker, and only an answer at the end of the file has no cursor     *)
(* (read, append_capped, paginate).                                        *)
Faithful(copy, size) ==
  IF copy.cut THEN size > MaxRead /\ copy.kept \in (MaxRead - Back)..MaxRead
  ELSE copy.kept = size

PagesTile ==
  /\ \A k \in DOMAIN got :
       LET size == text[got[k].no].size IN
       /\ got[k].no = reader.first + k
       /\ \/ Faithful(got[k], size)
          \/ k = Len(got) /\ reader.pc = "done" /\ \E s \in 1..size : Faithful(got[k], s)
  /\ reader.pc = "done" => reader.eof /\ Len(got) = Max({0, reader.total - reader.first})

(* An inline answer that offers no polling is the whole log, and polling   *)
(* back from the newest line of a log that grows or is trimmed meanwhile   *)
(* shows every line there was at the first poll, as far as the polls have  *)
(* gone: one may be shown twice, and a trim may take it, but none is       *)
(* skipped (read_page's has_more, paginate_tail's cursor from the end).    *)
PollSkipsNothing ==
  \A i \in DOMAIN text :
    /\ text[i].no # 0 /\ text[i].no <= poller.first
    /\ poller.pc = "done" \/ text[i].no >= poller.oldest
    => poller.pc = "off" \/ text[i].no \in shown

(* Paging comes to an end once the text stops growing, also for a client   *)
(* that asks for no lines at all: every page makes progress.               *)
PagingEnds ==
  /\ stopped /\ reader.pc = "scan" ~> reader.pc = "done"
  /\ stopped /\ poller.pc = "paging" ~> poller.pc = "done"

=============================================================================
