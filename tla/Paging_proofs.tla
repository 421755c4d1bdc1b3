------------------------------ MODULE Paging_proofs ------------------------------
(***************************************************************************)
(* However a text grows between two chunks of a read and two polls, and    *)
(* whatever the limits and budgets: the pages of a file tile it, and       *)
(* polling back from the newest line skips none.                           *)
(***************************************************************************)
EXTENDS Paging, WellFoundedInduction, TLAPS

USE PageConstants

Line == [no : Nat, size : Nat]
CopyOf == [no : Nat, kept : Nat, cut : BOOLEAN]

(***************************************************************************)
(* The text: lines are numbered in order, but for the marker a trim puts   *)
(* first, which nothing follows while a file is read.                      *)
(***************************************************************************)
TextInv ==
  /\ text \in Seq(Line) /\ open \in BOOLEAN
  /\ open => text # <<>> /\ text[Len(text)].size >= 1
  /\ Newest >= Len(text)
  /\ \A i \in DOMAIN text : \/ text[i].no = Newest - Len(text) + i
                            \/ i = 1 /\ text[1].no = 0 /\ Len(text) >= 2
  /\ \/ \A i \in DOMAIN text : text[i].no = i
     \/ stopped /\ reader.pc = "off" /\ ~open /\ text # <<>> /\ text[1].no = 0

(***************************************************************************)
(* The poller: everything between the oldest line it has been shown and    *)
(* the newest of its first page has been shown, and its cursor, counted    *)
(* from an end that may only have moved away since, leaves out no line     *)
(* older than that.                                                        *)
(***************************************************************************)
ShownSince(oldest) ==
  \A i \in DOMAIN text :
    text[i].no # 0 /\ text[i].no <= poller.first /\ text[i].no >= oldest => text[i].no \in shown

PollInv ==
  /\ poller \in [pc : {"off", "paging", "done"}, cursor : Nat, limit : Nat, first : Nat, oldest : Nat]
  /\ poller.first <= Newest
  /\ poller.pc = "paging" =>
       \/ poller.cursor = 0 /\ poller.first = 0
       \/ /\ poller.cursor > 0 /\ poller.oldest <= Newest - poller.cursor + 1
          /\ ShownSince(poller.oldest)
  /\ poller.pc = "done" => ShownSince(0)

-----------------------------------------------------------------------------
(* How long a page is                                                      *)

LEMMA Greatest ==
  ASSUME NEW bound \in Nat, NEW S \in SUBSET (0..bound), S # {}
  PROVE Max(S) \in S /\ \A n \in S : Max(S) >= n
<1> DEFINE Below == {bound - n : n \in S}
           Less == {ss \in Nat \X Nat : ss[1] < ss[2]}
<1>0. IsWellFoundedOn(Less, Nat)
  BY NatLessThanWellFounded DEF OpToRel
<1>1. Below \subseteq Nat /\ Below # {}
  <2>1. \A n \in S : n \in 0..bound
    OBVIOUS
  <2>2. \A n \in S : bound - n \in Nat
    BY <2>1
  <2> QED
    BY <2>2
<1>2. PICK m \in Below : \A k \in Below : m <= k
  <2>1. PICK m \in Below : \A k \in Below : ~(<<k, m>> \in Less)
    <3> HIDE DEF Below, Less
    <3> QED
      BY <1>0, <1>1, WFMin
  <2>2. \A k \in Below : ~(k < m)
    <3> SUFFICES ASSUME NEW k \in Below PROVE ~(k < m)
      OBVIOUS
    <3>1. k \in Nat /\ m \in Nat
      BY <1>1
    <3> HIDE DEF Below
    <3>2. k < m => <<k, m>> \in Less
      BY <3>1
    <3> QED
      BY <2>1, <3>2
  <2> HIDE DEF Below
  <2> QED
    BY <1>1, <2>2
<1>3. PICK x \in S : m = bound - x
  BY <1>2
<1>4. \A y \in S : x >= y
  <2> SUFFICES ASSUME NEW y \in S PROVE x >= y
    OBVIOUS
  <2>1. bound - x <= bound - y
    BY <1>2, <1>3
  <2>2. x \in Int /\ y \in Int
    OBVIOUS
  <2> QED
    BY <2>1, <2>2
<1> QED
  BY <1>3, <1>4 DEF Max

LEMMA TailFits ==
  ASSUME NEW sizes, NEW end \in Nat, NEW limit \in Nat \ {0}
  PROVE /\ TailLength(sizes, end, limit) \in 0..end
        /\ end >= 1 => TailLength(sizes, end, limit) >= 1
<1> DEFINE S == {n \in 0..Smaller(limit, end) : n <= 1 \/ Cost(sizes, end - n + 1, end) <= MaxPage}
<1>1. Smaller(limit, end) \in Nat /\ Smaller(limit, end) <= end
      /\ (end >= 1 => Smaller(limit, end) >= 1)
  BY DEF Smaller
<1>2. S \in SUBSET (0..Smaller(limit, end)) /\ 0 \in S /\ (end >= 1 => 1 \in S)
  BY <1>1
<1>3. Max(S) \in S /\ \A n \in S : Max(S) >= n
  <2> HIDE DEF S
  <2> QED
    BY <1>1, <1>2, Greatest
<1>4. TailLength(sizes, end, limit) = Max(S)
  BY DEF TailLength
<1>5. Max(S) \in 0..Smaller(limit, end)
  BY <1>3
<1> HIDE DEF S
<1> QED
  BY <1>1, <1>2, <1>3, <1>4, <1>5

LEMMA PageFits ==
  ASSUME NEW sizes, Len(sizes) \in Nat, NEW limit \in Nat \ {0}
  PROVE /\ PageLength(sizes, 0, limit) \in 0..Len(sizes)
        /\ Len(sizes) >= 1 => PageLength(sizes, 0, limit) >= 1
<1> DEFINE S == {n \in 0..Smaller(limit, Len(sizes) - 0) :
                   n <= 1 \/ Cost(sizes, 0 + 1, 0 + n) <= MaxPage}
           top == Smaller(limit, Len(sizes) - 0)
<1>1. top \in Nat /\ top <= Len(sizes) /\ (Len(sizes) >= 1 => top >= 1)
  BY DEF Smaller
<1>2. S \in SUBSET (0..top) /\ 0 \in S /\ (Len(sizes) >= 1 => 1 \in S)
  BY <1>1
<1>3. Max(S) \in S /\ \A n \in S : Max(S) >= n
  <2> HIDE DEF S, top
  <2> QED
    BY <1>1, <1>2, Greatest
<1>4. PageLength(sizes, 0, limit) = Max(S)
  BY DEF PageLength
<1>5. Max(S) \in 0..top
  BY <1>3
<1> HIDE DEF S, top
<1> QED
  BY <1>1, <1>2, <1>3, <1>4, <1>5
-----------------------------------------------------------------------------
(* The text                                                                *)

LEMMA TextTyped ==
  ASSUME TextInv
  PROVE /\ Len(text) \in Nat /\ DOMAIN text = 1..Len(text)
        /\ \A i \in DOMAIN text : text[i] \in Line /\ text[i].no \in Nat /\ text[i].size \in Nat
        /\ Newest \in Nat
        /\ text = <<>> => Len(text) = 0
        /\ text # <<>> => Len(text) >= 1
        /\ ~stopped => \A i \in DOMAIN text : text[i].no = i
        /\ ~stopped => Newest = Len(text)
<1>1. /\ Len(text) \in Nat /\ DOMAIN text = 1..Len(text)
      /\ \A i \in DOMAIN text : text[i] \in Line
      /\ text = <<>> => Len(text) = 0
      /\ text # <<>> => Len(text) >= 1
  BY DEF TextInv
<1>2. \A i \in DOMAIN text : text[i].no \in Nat /\ text[i].size \in Nat
  BY <1>1 DEF Line
<1>3. Newest \in Nat
  BY <1>1, <1>2 DEF Newest
<1>4. ~stopped => \A i \in DOMAIN text : text[i].no = i
  BY DEF TextInv
<1>5. ~stopped => Newest = Len(text)
  BY <1>1, <1>4 DEF Newest
<1> QED
  BY <1>1, <1>2, <1>3, <1>4, <1>5

LEMMA NextTyped ==
  ASSUME TextInv'
  PROVE /\ Len(text') \in Nat /\ DOMAIN text' = 1..Len(text')
        /\ \A i \in DOMAIN text' : text'[i].no \in Nat /\ text'[i].size \in Nat
        /\ Newest' \in Nat
<1>1. /\ Len(text') \in Nat /\ DOMAIN text' = 1..Len(text')
      /\ \A i \in DOMAIN text' : text'[i] \in Line
      /\ text' # <<>> => Len(text') >= 1
  BY DEF TextInv
<1>2. \A i \in DOMAIN text' : text'[i].no \in Nat /\ text'[i].size \in Nat
  BY <1>1 DEF Line
<1>3. Newest' \in Nat
  BY <1>1, <1>2 DEF Newest
<1> QED
  BY <1>1, <1>2, <1>3

(* A line is as long as it will be. *)
Closed(no) == no < Len(text) \/ ~open

(* What a writer may do to the text. *)
Grown ==
  /\ text' \in Seq(Line) /\ Len(text') >= Len(text)
  /\ \A i \in DOMAIN text : text'[i].no = text[i].no /\ text'[i].size >= text[i].size
  /\ \A i \in DOMAIN text : Closed(i) => text'[i].size = text[i].size /\ (i < Len(text') \/ ~open')

LEMMA SameGrown == ASSUME TextInv, text' = text, open' = open PROVE Grown
  BY TextTyped DEF Grown, Closed, TextInv

(* The text with one line more. *)
LEMMA Longer ==
  ASSUME TextInv, ~stopped, stopped' = stopped, ~open, NEW n \in Nat, open' \in BOOLEAN,
         text' = Append(text, [no |-> Len(text) + 1, size |-> n]), open' => n >= 1
  PROVE TextInv' /\ Grown
<1> DEFINE line == [no |-> Len(text) + 1, size |-> n]
<1>1. line \in Line /\ text \in Seq(Line)
  BY TextTyped DEF Line, TextInv
<1>2. /\ text' \in Seq(Line) /\ Len(text') = Len(text) + 1 /\ DOMAIN text' = 1..(Len(text) + 1)
      /\ \A i \in DOMAIN text : text'[i] = text[i]
      /\ text'[Len(text) + 1] = line
  BY <1>1
<1>3. text' # <<>>
  BY <1>2, TextTyped
<1>4. \A i \in DOMAIN text' : text'[i].no = i
  <2> SUFFICES ASSUME NEW i \in DOMAIN text' PROVE text'[i].no = i
    OBVIOUS
  <2>1. CASE i \in DOMAIN text
    BY <1>2, <2>1, TextTyped
  <2>2. CASE i = Len(text) + 1
    BY <1>2, <2>2
  <2> QED
    BY <1>2, <2>1, <2>2, TextTyped
<1>5. Newest' = Len(text')
  BY <1>2, <1>3, <1>4, TextTyped DEF Newest
<1>6. TextInv'
  <2>1. open' => text'[Len(text')].size >= 1
    BY <1>2
  <2>2. Len(text') \in Nat
    BY <1>2, TextTyped
  <2> QED
    BY <1>2, <1>3, <1>4, <1>5, <2>1, <2>2 DEF TextInv
<1>7. Grown
  <2>1. \A i \in DOMAIN text : i < Len(text')
    BY <1>2, TextTyped
  <2> QED
    BY <1>2, <2>1, TextTyped DEF Grown
<1> QED
  BY <1>6, <1>7

LEMMA WriteBytesText == ASSUME TextInv, WriteBytes PROVE TextInv' /\ Grown
<1>1. PICK n \in 1..MaxSize :
        \/ /\ open
           /\ text' = [text EXCEPT ![Len(text)].size = @ + n]
        \/ /\ ~open
           /\ text' = Append(text, [no |-> Len(text) + 1, size |-> n])
  BY DEF WriteBytes
<1>2. ~stopped /\ stopped' = stopped /\ open' = TRUE
  BY DEF WriteBytes
<1>3. CASE open /\ text' = [text EXCEPT ![Len(text)].size = @ + n]
  <2> DEFINE last == [text[Len(text)] EXCEPT !.size = text[Len(text)].size + n]
  <2>1. Len(text) \in DOMAIN text /\ text[Len(text)] \in Line /\ text \in Seq(Line)
    BY <1>3, TextTyped DEF TextInv
  <2>2. /\ last \in Line /\ last.no = text[Len(text)].no
        /\ last.size = text[Len(text)].size + n
    <3>1. PICK l \in Line : l = text[Len(text)]
      BY <2>1
    <3>2. n \in Nat
      OBVIOUS
    <3>3. [l EXCEPT !.size = l.size + n] \in Line
      BY <3>2 DEF Line
    <3> QED
      BY <3>1, <3>3 DEF Line
  <2>3. text' = [text EXCEPT ![Len(text)] = last]
    BY <1>3, <2>1
  <2> HIDE DEF last
  <2>4. /\ text' \in Seq(Line) /\ Len(text') = Len(text) /\ DOMAIN text' = DOMAIN text
        /\ text'[Len(text)] = last /\ \A i \in DOMAIN text \ {Len(text)} : text'[i] = text[i]
    BY <2>1, <2>2, <2>3
  <2>5. /\ \A i \in DOMAIN text : text'[i].no = text[i].no /\ text'[i].size >= text[i].size
        /\ text'[Len(text)].size >= 1
    <3>1. \A i \in DOMAIN text : text[i].size \in Nat /\ text[i].size + n >= 1
      BY TextTyped
    <3>2. last.size >= text[Len(text)].size /\ last.size >= 1
      BY <2>1, <2>2, <3>1
    <3>3. \A i \in DOMAIN text : text[i].size >= text[i].size
      BY <3>1
    <3> QED
      BY <2>1, <2>2, <2>4, <3>2, <3>3
  <2>6. text' # <<>>
    BY <2>1, <2>4, TextTyped
  <2>7. Newest' = Newest
    BY <2>1, <2>4, <2>5, <2>6, TextTyped, <1>3 DEF Newest, TextInv
  <2>8. \A i \in DOMAIN text' : text'[i].no = i
    BY <1>2, <2>4, <2>5, TextTyped
  <2>9. Newest' = Len(text')
    BY <1>2, <2>4, <2>7, TextTyped
  <2>10. TextInv'
    BY <1>2, <2>4, <2>5, <2>6, <2>8, <2>9, TextTyped DEF TextInv
  <2>11. Grown
    BY <1>3, <2>4, <2>5, TextTyped DEF Grown, Closed
  <2> QED
    BY <2>10, <2>11
<1>4. CASE ~open /\ text' = Append(text, [no |-> Len(text) + 1, size |-> n])
  BY <1>2, <1>4, Longer
<1> QED
  BY <1>1, <1>3, <1>4

LEMMA WriteNewlineText == ASSUME TextInv, WriteNewline PROVE TextInv' /\ Grown
<1>1. ~stopped /\ stopped' = stopped /\ open' = FALSE /\ reader' = reader
  BY DEF WriteNewline, readFrame
<1>2. CASE open /\ text' = text
  <2>1. TextInv'
    BY <1>1, <1>2 DEF TextInv, Newest
  <2>2. Grown
    BY <1>1, <1>2, TextTyped DEF Grown, TextInv
  <2> QED
    BY <2>1, <2>2
<1>3. CASE ~open /\ text' = Append(text, [no |-> Len(text) + 1, size |-> 0])
  BY <1>1, <1>3, Longer
<1> QED
  BY <1>2, <1>3 DEF WriteNewline

(* A trim keeps the newest lines and their numbers. *)
LEMMA TrimText ==
  ASSUME TextInv, Trim
  PROVE /\ TextInv' /\ Newest' = Newest
        /\ \A i \in DOMAIN text' : text'[i].no = 0 \/ \E j \in DOMAIN text : text'[i].no = text[j].no
<1> DEFINE kept == SubSeq(text, Len(text) - Keep + 1, Len(text))
           mark == [no |-> 0, size |-> 1]
<1>1. stopped /\ stopped' = stopped /\ reader.pc = "off" /\ reader' = reader
      /\ Len(text) > Keep /\ text' = <<mark>> \o kept /\ open' = FALSE
  BY DEF Trim, readFrame
<1>2. /\ kept \in Seq(Line) /\ Len(kept) = Keep
      /\ \A i \in 1..Keep : kept[i] = text[Len(text) - Keep + i]
  <2>1. /\ Len(text) - Keep + 1 \in 1..Len(text) /\ Len(text) \in 1..Len(text)
        /\ text \in Seq(Line)
    BY <1>1, TextTyped DEF TextInv
  <2> QED
    BY <2>1, <1>1, TextTyped
<1>3. mark \in Line
  BY DEF Line
<1>4. /\ text' \in Seq(Line) /\ Len(text') = Keep + 1 /\ DOMAIN text' = 1..(Keep + 1)
      /\ text'[1] = mark /\ \A i \in 2..(Keep + 1) : text'[i] = kept[i - 1]
  <2> HIDE DEF kept, mark
  <2> QED
    BY <1>1, <1>2, <1>3
<1>5. \A i \in 2..(Keep + 1) : text'[i] = text[Len(text) - Keep + i - 1]
  <2> SUFFICES ASSUME NEW i \in 2..(Keep + 1) PROVE text'[i] = text[Len(text) - Keep + i - 1]
    OBVIOUS
  <2>1. i - 1 \in 1..Keep /\ Len(text) - Keep + (i - 1) = Len(text) - Keep + i - 1
    BY TextTyped
  <2>2. kept[i - 1] = text[Len(text) - Keep + (i - 1)]
    BY <1>2, <2>1
  <2> QED
    BY <1>4, <2>1, <2>2
<1>6. text' # <<>> /\ text'[1].no = 0
  BY <1>4
<1>7. Newest' = Newest
  <2>1. text'[Keep + 1] = text[Len(text)]
    <3>1. Keep + 1 \in 2..(Keep + 1) /\ Len(text) - Keep + (Keep + 1) - 1 = Len(text)
      BY TextTyped
    <3> QED
      BY <1>5, <3>1
  <2>2. text # <<>>
    BY <1>1, TextTyped
  <2> QED
    BY <1>4, <1>6, <2>1, <2>2 DEF Newest
<1>8. ASSUME NEW i \in DOMAIN text', i # 1
      PROVE /\ Len(text) - Keep + i - 1 \in DOMAIN text
            /\ text'[i] = text[Len(text) - Keep + i - 1]
            /\ text'[i].no = Newest' - Len(text') + i
  <2>1. i \in 2..(Keep + 1)
    BY <1>4, <1>8
  <2>2. PICK j \in DOMAIN text : j = Len(text) - Keep + i - 1 /\ j # 1
    BY <1>1, <2>1, TextTyped
  <2>3. text[j].no = Newest - Len(text) + j
    BY <2>2 DEF TextInv
  <2>4. text'[i] = text[j]
    BY <1>5, <2>1, <2>2
  <2>5. text'[i].no = Newest' - Len(text') + i
    BY <1>4, <1>7, <2>1, <2>2, <2>3, <2>4, TextTyped
  <2> QED
    BY <2>2, <2>4, <2>5
<1>9. TextInv'
  <2>1. Newest' >= Len(text')
    BY <1>1, <1>4, <1>7, TextTyped DEF TextInv
  <2>2. \A i \in DOMAIN text' : \/ text'[i].no = Newest' - Len(text') + i
                                \/ i = 1 /\ text'[1].no = 0 /\ Len(text') >= 2
    BY <1>4, <1>6, <1>8
  <2> QED
    BY <1>1, <1>4, <1>6, <2>1, <2>2 DEF TextInv
<1> QED
  BY <1>6, <1>7, <1>8, <1>9
-----------------------------------------------------------------------------
(* The poller                                                              *)

(* What is left of the text was there before, and what is new is newer. *)
LEMMA PollKept ==
  ASSUME TextInv, PollInv, UNCHANGED <<poller, shown>>, TextInv', Newest' >= Newest,
         \A i \in DOMAIN text' : \/ text'[i].no = 0
                                 \/ \E j \in DOMAIN text : text'[i].no = text[j].no
                                 \/ text'[i].no > Newest
  PROVE PollInv'
<1>1. Newest \in Nat /\ Newest' \in Nat
  BY TextTyped, NextTyped
<1>2. /\ poller.first \in Nat /\ poller.cursor \in Nat /\ poller.oldest \in Nat
      /\ poller.first <= Newest
  BY DEF PollInv
<1>3. \A i \in DOMAIN text' : text'[i].no \in Nat
  BY NextTyped
<1>4. ASSUME NEW oldest \in Nat, ShownSince(oldest) PROVE ShownSince(oldest)'
  <2> SUFFICES ASSUME NEW i \in DOMAIN text', text'[i].no # 0, text'[i].no <= poller.first,
                      text'[i].no >= oldest
               PROVE text'[i].no \in shown
    BY DEF ShownSince
  <2>1. PICK j \in DOMAIN text : text'[i].no = text[j].no
    BY <1>1, <1>2, <1>3
  <2> QED
    BY <1>4, <2>1 DEF ShownSince
<1>5. poller' = poller
  OBVIOUS
<1>6. poller.oldest <= Newest - poller.cursor + 1 => poller.oldest <= Newest' - poller.cursor + 1
  BY <1>1, <1>2
<1>7. poller.first <= Newest'
  BY <1>1, <1>2
<1>8. ShownSince(0) => ShownSince(0)'
  BY <1>4
<1>9. ShownSince(poller.oldest) => ShownSince(poller.oldest)'
  BY <1>2, <1>4, <1>5
<1> QED
  BY <1>5, <1>6, <1>7, <1>8, <1>9 DEF PollInv

LEMMA GrownNumbers ==
  ASSUME TextInv, TextInv', Grown, ~stopped, ~stopped'
  PROVE /\ Newest' >= Newest
        /\ \A i \in DOMAIN text' : \/ \E j \in DOMAIN text : text'[i].no = text[j].no
                                   \/ text'[i].no > Newest
<1>1. /\ Newest = Len(text) /\ Len(text) \in Nat /\ DOMAIN text = 1..Len(text)
      /\ \A i \in DOMAIN text : text[i].no = i
  BY TextTyped
<1>2. /\ Len(text') \in Nat /\ DOMAIN text' = 1..Len(text') /\ \A i \in DOMAIN text' : text'[i].no = i
      /\ (text' = <<>> => Len(text') = 0) /\ (text' # <<>> => Len(text') \in DOMAIN text')
  BY DEF TextInv
<1>3. Newest' = Len(text')
  BY <1>2 DEF Newest
<1> QED
  BY <1>1, <1>2, <1>3 DEF Grown

LEMMA PollStartsOff == ASSUME TextInv, PollInv, PollStart PROVE PollInv'
<1>1. PICK limit \in Limit :
        poller' = [pc |-> "paging", cursor |-> 0, limit |-> limit, first |-> 0, oldest |-> 0]
  BY DEF PollStart
<1>2. Newest' = Newest /\ Newest \in Nat
  BY TextTyped DEF PollStart, Newest
<1>3. limit \in Nat
  OBVIOUS
<1> QED
  BY <1>1, <1>2, <1>3 DEF PollInv

LEMMA InlinePage == ASSUME TextInv, PollInv, Inline PROVE PollInv'
<1> DEFINE sizes == [i \in DOMAIN text |-> text[i].size]
<1>1. text' = text /\ Newest' = Newest /\ Newest \in Nat /\ shown' = {text[i].no : i \in 1..InlineLength}
  BY TextTyped DEF Inline, Newest
<1>2. PICK limit \in Limit :
        poller' = IF InlineLength < Len(text)
                  THEN [pc |-> "paging", cursor |-> 0, limit |-> limit, first |-> 0, oldest |-> 0]
                  ELSE [pc |-> "done", cursor |-> 0, limit |-> limit, first |-> Newest, oldest |-> 0]
  BY DEF Inline
<1>3. limit \in Nat
  OBVIOUS
<1>4. InlineLength \in 0..Len(text)
  <2>1. sizes \in Seq(Nat) /\ Len(sizes) = Len(text)
    BY TextTyped
  <2>2. AtLeastOne(Default) \in Nat \ {0}
    BY DEF AtLeastOne
  <2>3. PageLength(sizes, 0, AtLeastOne(Default)) \in 0..Len(sizes)
    <3> HIDE DEF sizes
    <3>1. Len(sizes) \in Nat
      BY <2>1
    <3> QED
      BY <2>2, <3>1, PageFits
  <2> QED
    BY <2>1, <2>3 DEF InlineLength
<1>5. CASE InlineLength < Len(text)
  BY <1>1, <1>2, <1>3, <1>5 DEF PollInv
<1>6. CASE ~(InlineLength < Len(text))
  <2>0. Len(text) \in Nat
    BY TextTyped
  <2>1. InlineLength = Len(text)
    <3> HIDE DEF sizes
    <3> QED
      BY <1>4, <1>6, <2>0
  <2>2. ShownSince(0)'
    BY <1>1, <2>1, TextTyped DEF ShownSince
  <2> QED
    BY <1>1, <1>2, <1>3, <1>6, <2>2 DEF PollInv
<1> QED
  BY <1>5, <1>6

LEMMA NextPage == ASSUME TextInv, PollInv, PollPage PROVE PollInv'
<1> DEFINE end == Len(text) - Smaller(poller.cursor, Len(text))
           limit == AtLeastOne(poller.limit)
           sizes == [i \in DOMAIN text |-> text[i].size]
           n == TailLength(sizes, end, limit)
           page == {text[i].no : i \in (end - n + 1)..end}
           next == poller.cursor + n
<1>1. /\ poller.pc = "paging" /\ poller.cursor \in Nat /\ poller.limit \in Nat
      /\ poller.first \in Nat /\ poller.oldest \in Nat /\ poller.first <= Newest
  BY DEF PollInv, PollPage
<1>2. text' = text /\ Newest' = Newest
  BY DEF PollPage, Newest
<1>3. Len(text) \in Nat /\ DOMAIN text = 1..Len(text) /\ Newest \in Nat /\ Newest >= Len(text)
  BY TextTyped DEF TextInv
<1>4. /\ end \in 0..Len(text)
      /\ poller.cursor <= Len(text) => end = Len(text) - poller.cursor
      /\ poller.cursor > Len(text) => end = 0
  BY <1>1, <1>3 DEF Smaller
<1>0. poller.cursor = 0 => end = Len(text)
  <2>1. ASSUME poller.cursor = 0 PROVE Smaller(poller.cursor, Len(text)) = 0
    <3>1. CASE 0 < Len(text)
      BY <2>1, <3>1 DEF Smaller
    <3>2. CASE ~(0 < Len(text))
      BY <1>3, <2>1, <3>2 DEF Smaller
    <3> QED
      BY <3>1, <3>2
  <2> QED
    BY <1>3, <2>1
<1>5. n \in 0..end /\ (end >= 1 => n >= 1)
  <2>1. limit \in Nat \ {0}
    BY <1>1 DEF AtLeastOne
  <2>2. end \in Nat
    BY <1>3, <1>4
  <2> HIDE DEF end, limit, sizes
  <2> QED
    BY <2>1, <2>2, TailFits
<1>6. /\ shown' = shown \cup page
      /\ poller' = [poller EXCEPT
           !.cursor = next, !.pc = IF end - n > 0 THEN "paging" ELSE "done",
           !.first = IF poller.cursor = 0 /\ page # {} THEN text[end].no ELSE @,
           !.oldest = IF page = {} THEN @ ELSE text[end - n + 1].no]
  BY DEF PollPage, NextCursor
<1> HIDE DEF end, limit, sizes, n
<1>7. end \in Nat /\ n \in Nat /\ next \in Nat
  BY <1>1, <1>3, <1>4, <1>5
<1>8. page = {} <=> end = 0
  <2>1. ASSUME end # 0 PROVE page # {}
    <3>1. end \in (end - n + 1)..end
      BY <1>5, <1>7, <2>1
    <3> QED
      BY <3>1
  <2>2. ASSUME end = 0 PROVE page = {}
    <3>1. (end - n + 1)..end = {}
      BY <1>5, <1>7, <2>2
    <3> QED
      BY <3>1
  <2> HIDE DEF page
  <2> QED
    BY <2>1, <2>2
<1>9. end # 0 => /\ end - n + 1 \in DOMAIN text /\ end \in DOMAIN text
                 /\ text[end].no \in Nat /\ text[end - n + 1].no \in Nat
  <2>1. end # 0 => end - n + 1 \in DOMAIN text /\ end \in DOMAIN text
    BY <1>3, <1>4, <1>5, <1>7
  <2> QED
    BY <2>1, TextTyped
<1> DEFINE first == IF poller.cursor = 0 /\ page # {} THEN text[end].no ELSE poller.first
           oldest == IF page = {} THEN poller.oldest ELSE text[end - n + 1].no
           pc == IF end - n > 0 THEN "paging" ELSE "done"
<1>10. /\ poller' \in [pc : {"off", "paging", "done"}, cursor : Nat, limit : Nat, first : Nat, oldest : Nat]
       /\ poller'.pc = pc /\ poller'.cursor = next /\ poller'.first = first /\ poller'.oldest = oldest
  <2>1. first \in Nat /\ oldest \in Nat /\ pc \in {"paging", "done"}
    BY <1>1, <1>8, <1>9
  <2>2. poller \in [pc : {"off", "paging", "done"}, cursor : Nat, limit : Nat, first : Nat, oldest : Nat]
    BY DEF PollInv
  <2>3. poller' = [poller EXCEPT !.cursor = next, !.pc = pc, !.first = first, !.oldest = oldest]
    BY <1>6
  <2> HIDE DEF first, oldest, pc, next
  <2> QED
    BY <1>7, <2>1, <2>2, <2>3
<1>11. first <= Newest
  <2>1. CASE poller.cursor = 0 /\ page # {}
    <3>1. end = Len(text) /\ text # <<>>
      <4>1. end # 0
        BY <1>8, <2>1
      <4>2. end = Len(text)
        BY <1>0, <2>1
      <4> QED
        BY <4>1, <4>2, TextTyped
    <3> QED
      BY <1>3, <2>1, <3>1 DEF Newest
  <2>2. CASE ~(poller.cursor = 0 /\ page # {})
    BY <1>1, <2>2
  <2> QED
    BY <2>1, <2>2
<1>12. ASSUME NEW i \in DOMAIN text, i > end, text[i].no <= first, text[i].no # 0
       PROVE text[i].no \in shown
  <2>0. i \in 1..Len(text)
    BY <1>3, <1>12
  <2>1. poller.cursor > 0
    BY <1>1, <1>3, <1>4, <1>12, <2>0
  <2>2. /\ poller.oldest <= Newest - poller.cursor + 1 /\ ShownSince(poller.oldest)
        /\ first = poller.first
    BY <1>1, <2>1 DEF PollInv
  <2>3. text[i].no = Newest - Len(text) + i
    BY <1>12 DEF TextInv
  <2>4. text[i].no >= poller.oldest
    <3>1. i >= Len(text) - poller.cursor + 1
      BY <1>1, <1>3, <1>4, <1>7, <1>12, <2>0, SMTT(30)
    <3> QED
      BY <1>1, <1>3, <2>0, <2>2, <2>3, <3>1
  <2> QED
    BY <1>12, <2>2, <2>4 DEF ShownSince
<1>13. ASSUME NEW i \in DOMAIN text, i \in (end - n + 1)..end PROVE text[i].no \in shown'
  BY <1>6, <1>13
<1>14. ASSUME NEW i \in DOMAIN text, text[i].no <= first, text[i].no # 0, i >= end - n + 1
       PROVE text[i].no \in shown'
  <2>1. CASE i > end
    BY <1>6, <1>12, <1>14, <2>1
  <2>2. CASE i <= end
    BY <1>3, <1>7, <1>13, <1>14, <2>2
  <2> QED
    BY <1>3, <1>7, <2>1, <2>2
<1>15. CASE end - n > 0
  <2>1. page # {} /\ end \in Nat /\ end # 0 /\ n >= 1
    BY <1>5, <1>7, <1>8, <1>15
  <2>2. poller.cursor <= Len(text) /\ end = Len(text) - poller.cursor
    BY <1>1, <1>3, <1>4, <2>1
  <2>3. text[end - n + 1].no = Newest - Len(text) + (end - n + 1)
    BY <1>7, <1>9, <1>15, <2>1 DEF TextInv
  <2>4. oldest = Newest - next + 1 /\ next > 0
    <3>1. oldest = text[end - n + 1].no
      BY <2>1
    <3>2. Len(text) - end = poller.cursor
      BY <1>1, <1>3, <2>2
    <3>3. n >= 1
      BY <2>1
    <3> HIDE DEF oldest, page
    <3> QED
      BY <1>1, <1>3, <1>7, <2>3, <3>1, <3>2, <3>3, SMTT(30)
  <2>5. ASSUME NEW i \in DOMAIN text, text[i].no # 0, text[i].no <= first, text[i].no >= oldest
        PROVE text[i].no \in shown'
    <3>1. text[i].no = Newest - Len(text) + i
      BY <2>5 DEF TextInv
    <3>2. oldest = text[end - n + 1].no
      BY <2>1
    <3>3. i >= end - n + 1
      <4> HIDE DEF oldest
      <4> QED
        BY <1>3, <1>7, <2>3, <2>5, <3>1, <3>2
    <3> QED
      BY <1>14, <2>5, <3>3
  <2>6. ShownSince(poller.oldest)'
    <3>1. \A i \in DOMAIN text' : text'[i].no # 0 /\ text'[i].no <= poller'.first
                                  /\ text'[i].no >= poller'.oldest => text'[i].no \in shown'
      BY <1>2, <1>10, <2>5
    <3> HIDE DEF first, oldest, page, pc, next
    <3> QED
      BY <3>1 DEF ShownSince
  <2>7. poller'.oldest <= Newest' - poller'.cursor + 1 /\ poller'.cursor > 0
    <3> HIDE DEF oldest, next
    <3>1. oldest \in Nat
      BY <1>10
    <3> QED
      BY <1>2, <1>3, <1>7, <1>10, <2>4, <3>1
  <2>8. poller'.pc = "paging" /\ poller'.first <= Newest'
    BY <1>2, <1>10, <1>11, <1>15
  <2> QED
    <3> HIDE DEF first, oldest, page, pc, next
    <3> QED
      BY <1>10, <2>6, <2>7, <2>8 DEF PollInv
<1>16. CASE ~(end - n > 0)
  <2>1. end - n = 0
    BY <1>5, <1>7, <1>16
  <2>2. \A i \in DOMAIN text : text[i].no # 0 /\ text[i].no <= first => text[i].no \in shown'
    <3>1. \A i \in DOMAIN text : i >= end - n + 1
      BY <1>3, <1>7, <2>1
    <3> HIDE DEF first, page
    <3> QED
      BY <1>14, <3>1
  <2>3. ShownSince(0)'
    BY <1>2, <1>10, <2>2 DEF ShownSince
  <2>4. poller'.pc = "done" /\ poller'.first <= Newest'
    BY <1>2, <1>10, <1>11, <1>16
  <2> QED
    BY <1>10, <2>3, <2>4 DEF PollInv
<1> QED
  BY <1>15, <1>16
-----------------------------------------------------------------------------
(* The reader                                                              *)

(* A line as given: the one that is there, or a beginning of the last.     *)
Given(copy) ==
  /\ copy.no \in DOMAIN text /\ Closed(copy.no)
  /\ Faithful(copy, text[copy.no].size)
Begun(copy) ==
  /\ copy.no \in DOMAIN text
  /\ \E s \in 1..text[copy.no].size : Faithful(copy, s)

ReaderTyped ==
  /\ reader \in [pc : {"off", "scan", "page", "done"}, first : Nat, cursor : Nat, limit : Nat,
                 total : Nat, line : [kept : Nat, cut : BOOLEAN], off : Nat,
                 window : Seq(CopyOf), eof : BOOLEAN]
  /\ got \in Seq(CopyOf)

(* The scan is at byte `off` of the line after `total`, and the line in    *)
(* flight is what a copy of those bytes is.                                *)
ScanInv ==
  reader.pc = "scan" =>
    /\ ~reader.eof
    /\ reader.total < Len(text) => reader.off <= text[reader.total + 1].size
    /\ reader.total = Len(text) => reader.off = 0
    /\ Faithful(reader.line, reader.off)
    /\ ~reader.line.cut => reader.line.kept <= MaxRead

(* The window has the lines from the cursor to the last one scanned.       *)
WindowInv ==
  reader.pc \in {"scan", "page"} =>
    /\ reader.limit >= 1 /\ reader.total <= Len(text)
    /\ Len(reader.window) = IF reader.total >= reader.cursor THEN reader.total - reader.cursor ELSE 0
    /\ \A j \in DOMAIN reader.window :
         /\ reader.window[j].no = reader.cursor + j
         /\ \/ Given(reader.window[j])
            \/ reader.eof /\ j = Len(reader.window) /\ Begun(reader.window[j])
    /\ reader.cursor = reader.first + Len(got)
    /\ got # <<>> => reader.cursor <= Len(text)

PageInv ==
  reader.pc = "page" =>
    /\ reader.eof \/ Len(reader.window) >= reader.limit
    /\ reader.eof /\ got # <<>> => reader.total >= reader.cursor

(* What was given tiles the file so far.                                   *)
GotInv ==
  /\ reader.pc = "off" => got = <<>>
  /\ \A k \in DOMAIN got :
       /\ got[k].no = reader.first + k
       /\ \/ Given(got[k])
          \/ k = Len(got) /\ reader.pc = "done" /\ Begun(got[k])
  /\ reader.pc = "done" =>
       /\ reader.eof
       /\ Len(got) = IF reader.total >= reader.first THEN reader.total - reader.first ELSE 0

ReadInv == ReaderTyped /\ ScanInv /\ WindowInv /\ PageInv /\ GotInv

IInv == TextInv /\ PollInv /\ ReadInv

LEMMA GotTiles == ReadInv => PagesTile
<1> SUFFICES ASSUME ReadInv PROVE PagesTile
  OBVIOUS
<1>1. /\ Len(got) \in Nat /\ reader.total \in Nat /\ reader.first \in Nat
  BY DEF ReadInv, ReaderTyped
<1>2. ASSUME NEW n \in Int PROVE Max({0, n}) = IF n >= 0 THEN n ELSE 0
  <2> DEFINE m == IF n >= 0 THEN n ELSE 0
  <2>1. m \in {0, n} /\ \A y \in {0, n} : m >= y
    OBVIOUS
  <2>2. PICK x \in {0, n} : x = Max({0, n}) /\ \A y \in {0, n} : x >= y
    BY <2>1 DEF Max
  <2> QED
    BY <2>1, <2>2
<1>3. reader.pc = "done" => reader.eof /\ Len(got) = Max({0, reader.total - reader.first})
  <2>1. reader.total - reader.first \in Int
    BY <1>1
  <2>2. Max({0, reader.total - reader.first})
          = IF reader.total - reader.first >= 0 THEN reader.total - reader.first ELSE 0
    BY <1>2, <2>1
  <2> QED
    BY <1>1, <2>2 DEF ReadInv, GotInv
<1>4. \A k \in DOMAIN got :
        LET size == text[got[k].no].size IN
        /\ got[k].no = reader.first + k
        /\ \/ Faithful(got[k], size)
           \/ k = Len(got) /\ reader.pc = "done" /\ \E s \in 1..size : Faithful(got[k], s)
  BY DEF ReadInv, GotInv, Given, Begun
<1> QED
  BY <1>3, <1>4 DEF PagesTile

(* A text that grows under a reader leaves what it has been given true. *)
LEMMA ReadKept ==
  ASSUME TextInv, TextInv', ReadInv, Grown, UNCHANGED <<reader, got>>
  PROVE ReadInv'
<1>1. /\ Len(text) \in Nat /\ DOMAIN text = 1..Len(text)
      /\ Len(text') \in Nat /\ DOMAIN text' = 1..Len(text')
      /\ \A i \in DOMAIN text : text[i].size \in Nat
      /\ \A i \in DOMAIN text' : text'[i].size \in Nat
  BY TextTyped, NextTyped
<1>2. /\ Len(text') >= Len(text)
      /\ \A i \in DOMAIN text : text'[i].no = text[i].no /\ text'[i].size >= text[i].size
      /\ \A i \in DOMAIN text : Closed(i) => text'[i].size = text[i].size /\ Closed(i)'
  BY DEF Grown, Closed
<1>3. \A i \in DOMAIN text : i \in DOMAIN text'
  BY <1>1, <1>2
<1>4. ASSUME NEW copy, Given(copy) PROVE Given(copy)'
  BY <1>2, <1>3, <1>4 DEF Given, Faithful
<1>5. ASSUME NEW copy, Begun(copy) PROVE Begun(copy)'
  <2>1. copy.no \in DOMAIN text /\ copy.no \in DOMAIN text'
    BY <1>3, <1>5 DEF Begun
  <2>2. PICK s \in 1..text[copy.no].size : Faithful(copy, s)
    BY <1>5 DEF Begun
  <2>3. s \in 1..text'[copy.no].size
    BY <1>1, <1>2, <2>1, <2>2
  <2> QED
    BY <2>1, <2>2, <2>3 DEF Begun, Faithful
<1>6. reader' = reader /\ got' = got
  OBVIOUS
<1>7. ReaderTyped'
  BY <1>6 DEF ReadInv, ReaderTyped
<1>8. ScanInv'
  <2>1. SUFFICES ASSUME reader.pc = "scan"
                 PROVE /\ reader.total < Len(text') => reader.off <= text'[reader.total + 1].size
                       /\ reader.total = Len(text') => reader.off = 0
    BY <1>6 DEF ReadInv, ScanInv, Faithful
  <2>2. /\ reader.total \in Nat /\ reader.off \in Nat /\ reader.total <= Len(text)
        /\ reader.total < Len(text) => reader.off <= text[reader.total + 1].size
        /\ reader.total = Len(text) => reader.off = 0
    BY <2>1 DEF ReadInv, ReaderTyped, ScanInv, WindowInv
  <2>3. CASE reader.total < Len(text)
    <3>1. reader.total + 1 \in DOMAIN text
      BY <1>1, <2>2, <2>3
    <3> QED
      BY <1>1, <1>2, <1>3, <2>2, <2>3, <3>1
  <2>4. CASE reader.total = Len(text)
    <3>1. reader.total < Len(text') => reader.total + 1 \in DOMAIN text'
      BY <1>1, <2>2
    <3>2. reader.off = 0
      BY <2>2, <2>4
    <3> QED
      BY <1>1, <2>2, <3>1, <3>2
  <2> QED
    BY <1>1, <2>2, <2>3, <2>4
<1>9. WindowInv'
  <2> SUFFICES ASSUME reader.pc \in {"scan", "page"} PROVE WindowInv'
    BY <1>6 DEF WindowInv
  <2>1. reader.total \in Nat /\ reader.cursor \in Nat
    BY DEF ReadInv, ReaderTyped
  <2>2. \A j \in DOMAIN reader.window :
          /\ reader.window[j].no = reader.cursor + j
          /\ \/ Given(reader.window[j])'
             \/ reader.eof /\ j = Len(reader.window) /\ Begun(reader.window[j])'
    BY <1>4, <1>5, <1>6 DEF ReadInv, WindowInv
  <2> QED
    BY <1>1, <1>2, <1>6, <2>1, <2>2 DEF ReadInv, WindowInv
<1>10. PageInv'
  BY <1>6 DEF ReadInv, PageInv
<1>11. GotInv'
  <2>1. \A k \in DOMAIN got :
          /\ got[k].no = reader.first + k
          /\ \/ Given(got[k])'
             \/ k = Len(got) /\ reader.pc = "done" /\ Begun(got[k])'
    BY <1>4, <1>5, <1>6 DEF ReadInv, GotInv
  <2> QED
    BY <1>6, <2>1 DEF ReadInv, GotInv
<1> QED
  BY <1>7, <1>8, <1>9, <1>10, <1>11 DEF ReadInv
-----------------------------------------------------------------------------
(* The reader's steps                                                      *)

readerVars == <<text, open, stopped, got, poller, shown>>

LEMMA TextSame ==
  ASSUME TextInv, UNCHANGED <<text, open, stopped>>,
         reader.pc = "off" => reader'.pc = "off" \/ Untrimmed
  PROVE TextInv'
<1>1. Untrimmed => \A i \in DOMAIN text : text[i].no = i
  <2>1. Untrimmed => ~(text # <<>> /\ text[1].no = 0)
    BY TextTyped DEF Untrimmed
  <2> QED
    BY <2>1 DEF TextInv
<1>2. \/ \A i \in DOMAIN text : text[i].no = i
      \/ stopped /\ reader'.pc = "off" /\ ~open /\ text # <<>> /\ text[1].no = 0
  <2>1. CASE \A i \in DOMAIN text : text[i].no = i
    BY <2>1
  <2>2. CASE stopped /\ reader.pc = "off" /\ ~open /\ text # <<>> /\ text[1].no = 0
    BY <1>1, <2>2
  <2> QED
    BY <2>1, <2>2 DEF TextInv
<1> QED
  BY <1>2 DEF TextInv, Newest

(* The numbers are the positions while a file is read. *)
LEMMA ReadNumbers ==
  ASSUME TextInv, reader.pc # "off"
  PROVE \A i \in DOMAIN text : text[i].no = i
  BY DEF TextInv

LEMMA Appends ==
  ASSUME NEW line \in [kept : Nat, cut : BOOLEAN], NEW off \in Nat, NEW n \in Nat,
         Faithful(line, off), ~line.cut => line.kept <= MaxRead,
         NEW next \in AppendCapped(line, n)
  PROVE /\ next \in [kept : Nat, cut : BOOLEAN] /\ Faithful(next, off + n)
        /\ ~next.cut => next.kept <= MaxRead
<1>1. line.kept \in Nat /\ line.cut \in BOOLEAN
  OBVIOUS
<1>2. CASE Size(line) > MaxRead /\ next = line
  <2>1. line.cut
    BY <1>1, <1>2 DEF Size
  <2> QED
    BY <1>1, <1>2, <2>1 DEF Faithful
<1>3. CASE ~(Size(line) > MaxRead)
  <2>1. ~line.cut
    BY <1>1, <1>3 DEF Size, Faithful
  <2>2. line.kept = off /\ off <= MaxRead
    BY <1>1, <2>1 DEF Faithful
  <2>3. CASE n <= MaxRead - line.kept
    <3>1. next = [line EXCEPT !.kept = line.kept + n]
      BY <1>3, <2>3 DEF AppendCapped
    <3>2. next \in [kept : Nat, cut : BOOLEAN] /\ next.kept = line.kept + n /\ ~next.cut
      BY <1>1, <2>1, <3>1
    <3> QED
      BY <2>2, <2>3, <3>2 DEF Faithful
  <2>4. CASE ~(n <= MaxRead - line.kept)
    <3>1. PICK b \in 0..Back : next = [kept |-> MaxRead - b, cut |-> TRUE]
      BY <1>3, <2>4 DEF AppendCapped
    <3>2. MaxRead - b \in Nat /\ MaxRead - b \in (MaxRead - Back)..MaxRead
      OBVIOUS
    <3>3. next \in [kept : Nat, cut : BOOLEAN] /\ next.kept = MaxRead - b /\ next.cut
      BY <3>1, <3>2
    <3>4. off + n > MaxRead
      BY <2>2, <2>4
    <3> QED
      BY <3>2, <3>3, <3>4 DEF Faithful
  <2> QED
    BY <2>3, <2>4
<1> QED
  BY <1>2, <1>3 DEF AppendCapped

LEMMA ReaderFacts ==
  ASSUME TextInv, ReadInv, reader.pc \in {"scan", "page"}
  PROVE /\ reader.total \in Nat /\ reader.cursor \in Nat /\ reader.first \in Nat
        /\ reader.limit \in Nat \ {0} /\ reader.off \in Nat /\ reader.eof \in BOOLEAN
        /\ reader.line \in [kept : Nat, cut : BOOLEAN]
        /\ reader.window \in Seq(CopyOf) /\ got \in Seq(CopyOf)
        /\ Len(got) \in Nat /\ Len(reader.window) \in Nat
        /\ reader.total <= Len(text)
        /\ DOMAIN text = 1..Len(text) /\ Len(text) \in Nat
        /\ \A i \in DOMAIN text : text[i].no = i /\ text[i].size \in Nat
<1>1. /\ reader.total \in Nat /\ reader.cursor \in Nat /\ reader.first \in Nat
      /\ reader.limit \in Nat /\ reader.off \in Nat /\ reader.eof \in BOOLEAN
      /\ reader.line \in [kept : Nat, cut : BOOLEAN]
      /\ reader.window \in Seq(CopyOf) /\ got \in Seq(CopyOf)
  BY DEF ReadInv, ReaderTyped
<1>2. reader.limit >= 1 /\ reader.total <= Len(text)
  BY DEF ReadInv, WindowInv
<1> QED
  BY <1>1, <1>2, TextTyped, ReadNumbers

LEMMA Fresh ==
  ASSUME NEW first \in Nat, NEW cursor \in Nat, NEW limit \in Nat,
         reader' = Reading("scan", first, cursor, limit)
  PROVE /\ reader' \in [pc : {"off", "scan", "page", "done"}, first : Nat, cursor : Nat,
                        limit : Nat, total : Nat, line : [kept : Nat, cut : BOOLEAN], off : Nat,
                        window : Seq(CopyOf), eof : BOOLEAN]
        /\ reader'.pc = "scan" /\ reader'.first = first /\ reader'.cursor = cursor
        /\ reader'.limit = limit /\ reader'.total = 0 /\ reader'.line = NoLine /\ reader'.off = 0
        /\ reader'.window = <<>> /\ ~reader'.eof
<1>1. <<>> \in Seq(CopyOf)
  OBVIOUS
<1>2. NoLine \in [kept : Nat, cut : BOOLEAN]
  BY DEF NoLine
<1> HIDE DEF NoLine
<1> QED
  BY <1>1, <1>2 DEF Reading

(* A page starts at the first line of the text. *)
LEMMA FreshScan ==
  ASSUME TextInv, text' = text, open' = open, NEW first \in Nat, NEW cursor \in Nat,
         NEW limit \in Nat \ {0},
         reader' = Reading("scan", first, cursor, limit), got' \in Seq(CopyOf),
         cursor = first + Len(got'), got' # <<>> => cursor <= Len(text),
         \A k \in DOMAIN got' : got'[k].no = first + k /\ Given(got'[k])
  PROVE ReadInv'
<1>1. /\ reader' \in [pc : {"off", "scan", "page", "done"}, first : Nat, cursor : Nat,
                      limit : Nat, total : Nat, line : [kept : Nat, cut : BOOLEAN], off : Nat,
                      window : Seq(CopyOf), eof : BOOLEAN]
      /\ reader'.pc = "scan" /\ reader'.first = first /\ reader'.cursor = cursor
      /\ reader'.limit = limit /\ reader'.total = 0 /\ reader'.line = NoLine /\ reader'.off = 0
      /\ reader'.window = <<>> /\ ~reader'.eof
  BY Fresh
<1>2. Len(text) \in Nat /\ DOMAIN text = 1..Len(text) /\ \A i \in DOMAIN text : text[i].size \in Nat
  BY TextTyped
<1>3. NoLine.kept = 0 /\ ~NoLine.cut
  BY DEF NoLine
<1>4. ReaderTyped'
  BY <1>1 DEF ReaderTyped
<1>5. ScanInv'
  BY <1>1, <1>2, <1>3 DEF ScanInv, Faithful
<1>6. WindowInv'
  <2>1. Len(<<>>) = 0 /\ DOMAIN <<>> = {}
    OBVIOUS
  <2> QED
    BY <1>1, <1>2, <2>1 DEF WindowInv
<1>7. PageInv'
  BY <1>1 DEF PageInv
<1>8. GotInv'
  <2>1. \A k \in DOMAIN got' : Given(got'[k]) => Given(got[k])'
    BY DEF Given, Closed, Faithful
  <2>2. \A k \in DOMAIN got' : got'[k].no = reader'.first + k /\ Given(got[k])'
    BY <1>1, <2>1
  <2>3. reader'.pc # "off" /\ reader'.pc # "done"
    BY <1>1
  <2> QED
    BY <2>2, <2>3 DEF GotInv
<1> QED
  BY <1>4, <1>5, <1>6, <1>7, <1>8 DEF ReadInv
LEMMA ReadStartInv == ASSUME TextInv, ReadInv, ReadStart PROVE ReadInv'
<1>1. PICK cursor \in Start, limit \in Limit :
        reader' = Reading("scan", cursor, cursor, AtLeastOne(limit))
  BY DEF ReadStart
<1>2. cursor \in Nat /\ AtLeastOne(limit) \in Nat \ {0}
  BY DEF AtLeastOne
<1>3. got = <<>> /\ got' = got /\ text' = text /\ open' = open
  BY DEF ReadStart, ReadInv, GotInv
<1>4. got' \in Seq(CopyOf) /\ cursor = cursor + Len(got') /\ DOMAIN got' = {}
  BY <1>2, <1>3
<1> QED
  BY <1>1, <1>2, <1>3, <1>4, FreshScan

(* A line joins the window. *)
LEMMA Joins ==
  ASSUME TextInv, ReadInv, reader.pc = "scan", NEW copy \in CopyOf, copy.no = reader.total + 1
  PROVE LET w == Taken(copy) IN
          /\ w \in Seq(CopyOf)
          /\ Len(w) = IF reader.total + 1 >= reader.cursor THEN reader.total + 1 - reader.cursor ELSE 0
          /\ \A j \in DOMAIN w :
               /\ w[j].no = reader.cursor + j
               /\ \/ Given(w[j])
                  \/ j = Len(w) /\ w[j] = copy
<1> DEFINE w == Taken(copy)
           old == reader.window
<1>1. /\ reader.total \in Nat /\ reader.cursor \in Nat /\ old \in Seq(CopyOf) /\ Len(old) \in Nat
  BY ReaderFacts
<1>2. /\ Len(old) = IF reader.total >= reader.cursor THEN reader.total - reader.cursor ELSE 0
      /\ \A j \in DOMAIN old : old[j].no = reader.cursor + j /\ Given(old[j])
  BY DEF ReadInv, WindowInv, ScanInv
<1>3. CASE reader.total >= reader.cursor
  <2>1. w = Append(old, copy)
    BY <1>3 DEF Taken
  <2> HIDE DEF w
  <2>2. /\ w \in Seq(CopyOf) /\ Len(w) = Len(old) + 1 /\ DOMAIN w = 1..(Len(old) + 1)
        /\ w[Len(old) + 1] = copy /\ (\A j \in DOMAIN old : w[j] = old[j]) /\ DOMAIN old = 1..Len(old)
    BY <1>1, <2>1
  <2>3. Len(old) + 1 = reader.total + 1 - reader.cursor /\ reader.total + 1 >= reader.cursor
    BY <1>1, <1>2, <1>3
  <2>4. ASSUME NEW j \in DOMAIN w
        PROVE /\ w[j].no = reader.cursor + j
              /\ Given(w[j]) \/ (j = Len(w) /\ w[j] = copy)
    <3>1. CASE j \in DOMAIN old
      BY <1>2, <2>2, <3>1
    <3>2. CASE j = Len(old) + 1
      BY <1>1, <2>2, <2>3, <3>2
    <3> QED
      BY <1>1, <2>2, <3>1, <3>2
  <2> QED
    BY <2>2, <2>3, <2>4 DEF w
<1>4. CASE ~(reader.total >= reader.cursor)
  <2>1. w = old /\ Len(old) = 0
    BY <1>2, <1>4 DEF Taken
  <2>2. DOMAIN old = {}
    BY <1>1, <2>1
  <2>3. reader.total + 1 >= reader.cursor => reader.total + 1 - reader.cursor = 0
    BY <1>1, <1>4
  <2> HIDE DEF w
  <2> QED
    BY <1>1, <2>1, <2>2, <2>3 DEF w
<1> QED
  BY <1>3, <1>4

LEMMA NotAtEnd ==
  ASSUME TextInv, ReadInv, reader.pc = "scan", ~AtEnd
  PROVE /\ reader.total < Len(text) /\ reader.total + 1 \in DOMAIN text
        /\ reader.off <= text[reader.total + 1].size
        /\ text[reader.total + 1].size - reader.off \in Nat
<1>1. reader.total \in Nat /\ Len(text) \in Nat /\ reader.total <= Len(text) /\ reader.off \in Nat
      /\ DOMAIN text = 1..Len(text) /\ \A i \in DOMAIN text : text[i].size \in Nat
  BY ReaderFacts
<1>2. reader.total < Len(text) /\ reader.total + 1 \in DOMAIN text
  BY <1>1 DEF AtEnd
<1>3. reader.off <= text[reader.total + 1].size
  BY <1>2 DEF ReadInv, ScanInv
<1>4. text[reader.total + 1].size \in Nat
  BY <1>1, <1>2
<1> QED
  BY <1>1, <1>2, <1>3, <1>4

LEMMA LineInFlight ==
  ASSUME TextInv, ReadInv, reader.pc = "scan"
  PROVE /\ reader.line \in [kept : Nat, cut : BOOLEAN] /\ Faithful(reader.line, reader.off)
        /\ ~reader.line.cut => reader.line.kept <= MaxRead
        /\ ~reader.eof
  BY ReaderFacts DEF ReadInv, ScanInv

LEMMA ScanBytesInv == ASSUME TextInv, ReadInv, ScanBytes PROVE ReadInv'
<1>1. reader.pc = "scan" /\ ~AtEnd /\ UNCHANGED <<text, open, got>>
  BY DEF ScanBytes
<1>0. PICK n \in 1..(text[reader.total + 1].size - reader.off) :
        \E line \in AppendCapped(reader.line, n) :
          reader' = [reader EXCEPT !.line = line, !.off = @ + n]
  BY DEF ScanBytes
<1>2. PICK line \in AppendCapped(reader.line, n) :
        reader' = [reader EXCEPT !.line = line, !.off = reader.off + n]
  <2>1. PICK line \in AppendCapped(reader.line, n) :
          reader' = [reader EXCEPT !.line = line, !.off = @ + n]
    BY <1>0
  <2>2. reader.off \in Nat
    BY <1>1, ReaderFacts
  <2> QED
    BY <2>1, <2>2
<1>3. /\ reader.off \in Nat /\ reader.total \in Nat
      /\ reader.total < Len(text) /\ Len(text) \in Nat /\ reader.total + 1 \in DOMAIN text
      /\ text[reader.total + 1].size \in Nat
  BY <1>1, ReaderFacts, NotAtEnd
<1>4. n \in Nat /\ reader.off + n <= text[reader.total + 1].size /\ reader.off + n \in Nat
  BY <1>1, <1>3, NotAtEnd
<1>5. /\ line \in [kept : Nat, cut : BOOLEAN] /\ Faithful(line, reader.off + n)
      /\ ~line.cut => line.kept <= MaxRead
  BY <1>1, <1>2, <1>3, <1>4, LineInFlight, Appends
<1>6. ReaderTyped /\ ~reader.eof
  BY <1>1, LineInFlight DEF ReadInv
<1>7. /\ ReaderTyped'
      /\ reader'.pc = reader.pc /\ reader'.first = reader.first /\ reader'.cursor = reader.cursor
      /\ reader'.limit = reader.limit /\ reader'.total = reader.total /\ reader'.line = line
      /\ reader'.off = reader.off + n /\ reader'.window = reader.window /\ reader'.eof = reader.eof
  BY <1>1, <1>2, <1>4, <1>5, <1>6 DEF ReaderTyped
<1>8. ScanInv'
  BY <1>1, <1>3, <1>4, <1>5, <1>6, <1>7 DEF ScanInv, Faithful
<1>9. WindowInv'
  BY <1>1, <1>7 DEF ReadInv, WindowInv, Given, Begun, Closed, Faithful
<1>10. PageInv'
  BY <1>1, <1>7 DEF PageInv
<1>11. GotInv'
  BY <1>1, <1>7 DEF ReadInv, GotInv, Given, Closed, Faithful
<1> QED
  BY <1>7, <1>8, <1>9, <1>10, <1>11 DEF ReadInv

LEMMA ScanLineInv == ASSUME TextInv, ReadInv, ScanLine PROVE ReadInv'
<1>1. /\ reader.pc = "scan" /\ ~AtEnd /\ UNCHANGED <<text, open, got>>
      /\ ~(open /\ reader.total + 1 = Len(text))
  BY DEF ScanLine
<1> DEFINE no == reader.total + 1
           rest == text[no].size - reader.off
<1>2. PICK line \in AppendCapped(reader.line, rest) :
        reader' = [reader EXCEPT !.total = no, !.off = 0, !.line = NoLine,
                     !.window = Taken([no |-> text[no].no, kept |-> line.kept, cut |-> line.cut])]
  BY DEF ScanLine
<1>3. /\ reader.off \in Nat /\ reader.total \in Nat /\ reader.cursor \in Nat
      /\ reader.total < Len(text) /\ Len(text) \in Nat /\ no \in DOMAIN text
      /\ DOMAIN text = 1..Len(text)
      /\ text[no].size \in Nat /\ text[no].no = no /\ rest \in Nat
      /\ \A i \in DOMAIN text : text[i].size \in Nat
  BY <1>1, ReaderFacts, NotAtEnd
<1>4. reader.off + rest = text[no].size
  BY <1>3
<1>5. /\ line \in [kept : Nat, cut : BOOLEAN] /\ Faithful(line, text[no].size)
  <2>1. Faithful(line, reader.off + rest) /\ line \in [kept : Nat, cut : BOOLEAN]
    <3> HIDE DEF rest
    <3> QED
      BY <1>1, <1>2, <1>3, LineInFlight, Appends
  <2> QED
    BY <1>4, <2>1
<1> DEFINE copy == [no |-> no, kept |-> line.kept, cut |-> line.cut]
<1>6. /\ copy \in CopyOf /\ copy.no = reader.total + 1 /\ copy.kept = line.kept
      /\ copy.cut = line.cut
  BY <1>3, <1>5 DEF CopyOf
<1>7. Given(copy)
  <2>1. Closed(no)
    BY <1>1, <1>3 DEF Closed
  <2>2. Faithful(copy, text[no].size)
    BY <1>5, <1>6 DEF Faithful
  <2> QED
    BY <1>3, <1>6, <2>1, <2>2 DEF Given
<1> DEFINE w == Taken(copy)
<1>8. /\ w \in Seq(CopyOf)
      /\ Len(w) = IF reader.total + 1 >= reader.cursor THEN reader.total + 1 - reader.cursor ELSE 0
      /\ \A j \in DOMAIN w : w[j].no = reader.cursor + j /\ Given(w[j])
  <2> HIDE DEF copy
  <2> QED
    BY <1>1, <1>6, <1>7, Joins
<1>9. reader' = [reader EXCEPT !.total = no, !.off = 0, !.line = NoLine, !.window = w]
  BY <1>2, <1>3
<1>10. ReaderTyped /\ ~reader.eof
  BY <1>1, LineInFlight DEF ReadInv
<1>11. NoLine \in [kept : Nat, cut : BOOLEAN] /\ NoLine.kept = 0 /\ ~NoLine.cut
  BY DEF NoLine
<1> HIDE DEF w, copy
<1>12. /\ ReaderTyped'
       /\ reader'.pc = reader.pc /\ reader'.first = reader.first /\ reader'.cursor = reader.cursor
       /\ reader'.limit = reader.limit /\ reader'.total = no /\ reader'.line = NoLine
       /\ reader'.off = 0 /\ reader'.window = w /\ reader'.eof = reader.eof
  <2> HIDE DEF NoLine
  <2>1. no \in Nat
    BY <1>3
  <2> QED
    BY <1>1, <1>8, <1>9, <1>10, <1>11, <2>1 DEF ReaderTyped
<1>13. ScanInv'
  <2>1. no < Len(text) => 0 <= text[no + 1].size
    BY <1>3
  <2> QED
    BY <1>1, <1>10, <1>11, <1>12, <2>1 DEF ScanInv, Faithful
<1>14. WindowInv'
  <2>1. \A j \in DOMAIN w : Given(w[j]) => Given(reader.window[j])'
    BY <1>1, <1>12 DEF Given, Closed, Faithful
  <2>2. no <= Len(text)
    BY <1>3
  <2>3. \A j \in DOMAIN reader'.window :
          reader'.window[j].no = reader'.cursor + j /\ Given(reader.window[j])'
    BY <1>8, <1>12, <2>1
  <2>4. /\ reader'.limit >= 1 /\ reader'.total <= Len(text')
        /\ reader'.cursor = reader'.first + Len(got')
        /\ got' # <<>> => reader'.cursor <= Len(text')
    BY <1>1, <1>12, <2>2 DEF ReadInv, WindowInv
  <2>5. Len(reader'.window)
          = IF reader'.total >= reader'.cursor THEN reader'.total - reader'.cursor ELSE 0
    <3>1. /\ reader'.total = reader.total + 1 /\ reader'.cursor = reader.cursor
          /\ reader'.window = w
      BY <1>12
    <3>2. Len(w) = IF reader.total + 1 >= reader.cursor THEN reader.total + 1 - reader.cursor ELSE 0
      BY <1>8
    <3>3. PICK t \in Nat, c \in Nat, t1 \in Nat, s \in Seq(CopyOf) :
            /\ t = reader.total /\ c = reader.cursor /\ t1 = t + 1 /\ s = w
            /\ t1 = reader'.total /\ c = reader'.cursor /\ s = reader'.window
      BY <1>8, <1>10, <3>1 DEF ReaderTyped
    <3>4. Len(s) = IF t1 >= c THEN t1 - c ELSE 0
      BY <3>2, <3>3, SMTT(30)
    <3> HIDE DEF no, rest
    <3> QED
      BY <3>3, <3>4
  <2>6. \A j \in DOMAIN reader'.window :
          /\ reader'.window[j].no = reader'.cursor + j
          /\ \/ Given(reader.window[j])'
             \/ reader'.eof /\ j = Len(reader'.window) /\ Begun(reader.window[j])'
    BY <2>3
  <2> HIDE DEF no, rest
  <2> QED
    BY <2>4, <2>5, <2>6 DEF WindowInv
<1>15. PageInv'
  BY <1>1, <1>12 DEF PageInv
<1>16. GotInv'
  BY <1>1, <1>12 DEF ReadInv, GotInv, Given, Closed, Faithful
<1> QED
  BY <1>12, <1>13, <1>14, <1>15, <1>16 DEF ReadInv
LEMMA ScanEndInv == ASSUME TextInv, ReadInv, ScanEnd PROVE ReadInv'
<1>1. reader.pc = "scan" /\ ~Full /\ AtEnd /\ UNCHANGED <<text, open, got>>
  BY DEF ScanEnd
<1>2. /\ reader.off \in Nat /\ reader.total \in Nat /\ reader.cursor \in Nat
      /\ reader.total <= Len(text) /\ Len(text) \in Nat /\ DOMAIN text = 1..Len(text)
      /\ \A i \in DOMAIN text : text[i].no = i /\ text[i].size \in Nat
  BY <1>1, ReaderFacts
<1>3. ReaderTyped /\ WindowInv /\ GotInv
  BY DEF ReadInv
<1>4. CASE reader.off = 0
  <2>1. reader.total = Len(text)
    <3>1. CASE reader.total + 1 = Len(text) /\ open /\ reader.off = text[Len(text)].size
      BY <1>2, <1>4, <3>1 DEF TextInv
    <3> QED
      BY <1>1, <3>1 DEF AtEnd
  <2>2. reader' = [reader EXCEPT !.pc = "page", !.eof = TRUE]
    BY <1>4 DEF ScanEnd
  <2>3. /\ ReaderTyped'
        /\ reader'.pc = "page" /\ reader'.eof = TRUE
        /\ reader'.first = reader.first /\ reader'.cursor = reader.cursor
        /\ reader'.limit = reader.limit /\ reader'.total = reader.total
        /\ reader'.window = reader.window
    BY <1>1, <1>3, <2>2 DEF ReaderTyped
  <2>4. ScanInv'
    BY <2>3 DEF ScanInv
  <2>5. WindowInv'
    <3>1. \A j \in DOMAIN reader.window : Given(reader.window[j]) => Given(reader.window[j])'
      BY <1>1, <2>3 DEF Given, Closed, Faithful
    <3>2. \A j \in DOMAIN reader.window : reader.window[j].no = reader.cursor + j /\ Given(reader.window[j])
      BY <1>1, <1>3 DEF WindowInv, ReadInv, ScanInv
    <3> QED
      BY <1>1, <1>3, <2>3, <3>1, <3>2 DEF WindowInv
  <2>6. PageInv'
    <3>1. got # <<>> => reader.cursor <= Len(text)
      BY <1>1, <1>3 DEF WindowInv
    <3> QED
      BY <1>1, <1>2, <2>1, <2>3, <3>1 DEF PageInv
  <2>7. GotInv'
    BY <1>1, <1>3, <2>3 DEF GotInv, Given, Closed, Faithful
  <2> QED
    BY <2>3, <2>4, <2>5, <2>6, <2>7 DEF ReadInv
<1>5. CASE reader.off # 0
  <2> DEFINE no == reader.total + 1
  <2>1. reader.total # Len(text)
    BY <1>1, <1>5 DEF ReadInv, ScanInv
  <2>2. no = Len(text) /\ open /\ reader.off = text[no].size /\ no \in DOMAIN text /\ text[no].no = no
    BY <1>1, <1>2, <2>1 DEF AtEnd
  <2>3. /\ reader.line \in [kept : Nat, cut : BOOLEAN] /\ Faithful(reader.line, reader.off)
    BY <1>1, LineInFlight
  <2> DEFINE w == Taken(Copy)
  <2>4. /\ Copy \in CopyOf /\ Copy.no = no /\ Copy.kept = reader.line.kept
        /\ Copy.cut = reader.line.cut
    BY <1>2, <2>2, <2>3 DEF Copy, CopyOf
  <2>5. Begun(Copy)
    <3>1. reader.off \in 1..text[no].size
      BY <1>2, <1>5, <2>2
    <3>2. Faithful(Copy, reader.off)
      BY <2>3, <2>4 DEF Faithful
    <3> QED
      BY <2>2, <2>4, <3>1, <3>2 DEF Begun
  <2>6. /\ w \in Seq(CopyOf)
        /\ Len(w) = IF reader.total + 1 >= reader.cursor THEN reader.total + 1 - reader.cursor ELSE 0
        /\ \A j \in DOMAIN w :
             /\ w[j].no = reader.cursor + j
             /\ \/ Given(w[j])
                \/ j = Len(w) /\ Begun(w[j])
    <3>1. PICK c \in CopyOf : c = Copy /\ c.no = reader.total + 1
      BY <2>4
    <3> QED
      BY <1>1, <2>5, <3>1, Joins
  <2>7. reader' = [reader EXCEPT !.window = w, !.total = no, !.pc = "page", !.eof = TRUE]
    <3>1. reader' = [[reader EXCEPT !.window = w, !.total = @ + 1] EXCEPT !.pc = "page", !.eof = TRUE]
      BY <1>5 DEF ScanEnd
    <3> HIDE DEF w
    <3> QED
      BY <1>3, <3>1 DEF ReaderTyped
  <2> HIDE DEF w
  <2>8. /\ ReaderTyped'
        /\ reader'.pc = "page" /\ reader'.eof = TRUE
        /\ reader'.first = reader.first /\ reader'.cursor = reader.cursor
        /\ reader'.limit = reader.limit /\ reader'.total = no
        /\ reader'.window = w
    <3>1. no \in Nat
      BY <1>2
    <3> QED
      BY <1>1, <1>3, <2>6, <2>7, <3>1 DEF ReaderTyped
  <2>9. ScanInv'
    BY <2>8 DEF ScanInv
  <2>10. WindowInv'
    <3>1. \A j \in DOMAIN w : /\ Given(w[j]) => Given(reader.window[j])'
                              /\ Begun(w[j]) => Begun(reader.window[j])'
      BY <1>1, <2>8 DEF Given, Begun, Closed, Faithful
    <3>2. \A j \in DOMAIN reader'.window :
            /\ reader'.window[j].no = reader'.cursor + j
            /\ \/ Given(reader.window[j])'
               \/ reader'.eof /\ j = Len(reader'.window) /\ Begun(reader.window[j])'
      BY <2>6, <2>8, <3>1
    <3>3. no <= Len(text)
      BY <1>2, <2>2
    <3>4. /\ reader'.limit >= 1 /\ reader'.total <= Len(text')
          /\ reader'.cursor = reader'.first + Len(got')
          /\ got' # <<>> => reader'.cursor <= Len(text')
      BY <1>1, <1>3, <2>8, <3>3 DEF WindowInv
    <3>5. Len(reader'.window)
            = IF reader'.total >= reader'.cursor THEN reader'.total - reader'.cursor ELSE 0
      <4>1. /\ reader'.total = reader.total + 1 /\ reader'.cursor = reader.cursor
            /\ reader'.window = w
        BY <2>8
      <4>2. Len(w) = IF reader.total + 1 >= reader.cursor THEN reader.total + 1 - reader.cursor ELSE 0
        BY <2>6
      <4>3. PICK t \in Nat, c \in Nat, t1 \in Nat, s \in Seq(CopyOf) :
              /\ t = reader.total /\ c = reader.cursor /\ t1 = t + 1 /\ s = w
              /\ t1 = reader'.total /\ c = reader'.cursor /\ s = reader'.window
        BY <1>2, <2>6, <4>1
      <4>4. Len(s) = IF t1 >= c THEN t1 - c ELSE 0
        BY <4>2, <4>3, SMTT(30)
      <4> HIDE DEF no
      <4> QED
        BY <4>3, <4>4
    <3> HIDE DEF no
    <3> QED
      BY <3>2, <3>4, <3>5 DEF WindowInv
  <2>11. PageInv'
    <3>1. got # <<>> => reader.cursor <= Len(text)
      BY <1>1, <1>3 DEF WindowInv
    <3> QED
      BY <1>1, <1>2, <2>2, <2>8, <3>1 DEF PageInv
  <2>12. GotInv'
    BY <1>1, <1>3, <2>8 DEF GotInv, Given, Closed, Faithful
  <2> QED
    BY <2>8, <2>9, <2>10, <2>11, <2>12 DEF ReadInv
<1> QED
  BY <1>4, <1>5

LEMMA ScanFullInv == ASSUME TextInv, ReadInv, ScanFull PROVE ReadInv'
<1>1. /\ reader.pc = "scan" /\ Full /\ UNCHANGED <<text, open, got>>
      /\ reader' = [reader EXCEPT !.pc = "page"]
  BY DEF ScanFull
<1>2. ReaderTyped /\ WindowInv /\ GotInv /\ ~reader.eof
  BY <1>1, LineInFlight DEF ReadInv
<1>3. /\ ReaderTyped'
      /\ reader'.pc = "page" /\ reader'.first = reader.first /\ reader'.cursor = reader.cursor
      /\ reader'.limit = reader.limit /\ reader'.total = reader.total
      /\ reader'.window = reader.window /\ reader'.eof = reader.eof
  BY <1>1, <1>2 DEF ReaderTyped
<1>4. ScanInv'
  BY <1>3 DEF ScanInv
<1>5. WindowInv'
  BY <1>1, <1>2, <1>3 DEF WindowInv, Given, Begun, Closed, Faithful
<1>6. PageInv'
  BY <1>1, <1>2, <1>3 DEF PageInv, Full
<1>7. GotInv'
  BY <1>1, <1>2, <1>3 DEF GotInv, Given, Closed, Faithful
<1> QED
  BY <1>3, <1>4, <1>5, <1>6, <1>7 DEF ReadInv

LEMMA Concat ==
  ASSUME NEW S, NEW a \in Seq(S), NEW b \in Seq(S)
  PROVE /\ a \o b \in Seq(S) /\ Len(a \o b) = Len(a) + Len(b)
        /\ DOMAIN (a \o b) = 1..(Len(a) + Len(b))
        /\ \A k \in DOMAIN a : (a \o b)[k] = a[k]
        /\ \A k \in 1..(Len(a) + Len(b)) : k > Len(a) => (a \o b)[k] = b[k - Len(a)]
  OBVIOUS

LEMMA ReadAnswerInv == ASSUME TextInv, ReadInv, ReadAnswer PROVE ReadInv'
<1> DEFINE w == reader.window
           n == PageLength(Sizes(w), 0, reader.limit)
           next == Smaller(reader.cursor, reader.total) + n
           page == SubSeq(w, 1, n)
<1>1. /\ reader.pc = "page" /\ UNCHANGED <<text, open, stopped>>
      /\ got' = got \o page
  BY DEF ReadAnswer
<1>2. PICK limit \in Limit :
        reader' = IF MoreRemains(next) THEN Reading("scan", reader.first, next, AtLeastOne(limit))
                  ELSE [reader EXCEPT !.pc = "done"]
  BY DEF ReadAnswer
<1>3. /\ reader.total \in Nat /\ reader.cursor \in Nat /\ reader.first \in Nat
      /\ reader.limit \in Nat \ {0} /\ reader.eof \in BOOLEAN
      /\ w \in Seq(CopyOf) /\ got \in Seq(CopyOf) /\ Len(got) \in Nat /\ Len(w) \in Nat
      /\ reader.total <= Len(text) /\ Len(text) \in Nat
      /\ DOMAIN w = 1..Len(w) /\ DOMAIN got = 1..Len(got)
  BY <1>1, ReaderFacts
<1>4. /\ Len(w) = IF reader.total >= reader.cursor THEN reader.total - reader.cursor ELSE 0
      /\ \A j \in DOMAIN w : /\ w[j].no = reader.cursor + j
                             /\ \/ Given(w[j])
                                \/ reader.eof /\ j = Len(w) /\ Begun(w[j])
      /\ reader.cursor = reader.first + Len(got)
      /\ got # <<>> => reader.cursor <= Len(text)
      /\ reader.eof \/ Len(w) >= reader.limit
      /\ reader.eof /\ got # <<>> => reader.total >= reader.cursor
      /\ \A k \in DOMAIN got : got[k].no = reader.first + k /\ Given(got[k])
  BY <1>1 DEF ReadInv, WindowInv, PageInv, GotInv
<1>5. n \in 0..Len(w) /\ (Len(w) >= 1 => n >= 1)
  <2>0. ASSUME NEW copy \in CopyOf PROVE Size(copy) \in Nat
    BY DEF Size, CopyOf
  <2>1. \A i \in DOMAIN w : Size(w[i]) \in Nat
    <3> HIDE DEF w
    <3> QED
      BY <1>3, <2>0
  <2>2. Sizes(w) \in Seq(Nat) /\ Len(Sizes(w)) = Len(w)
    BY <1>3, <2>1 DEF Sizes
  <2>3. Len(Sizes(w)) \in Nat
    BY <1>3, <2>2
  <2>4. PageLength(Sizes(w), 0, reader.limit) \in 0..Len(Sizes(w))
        /\ (Len(Sizes(w)) >= 1 => PageLength(Sizes(w), 0, reader.limit) >= 1)
    BY <1>3, <2>3, PageFits
  <2> QED
    BY <2>2, <2>4
<1> HIDE DEF n
<1>6. n \in Nat /\ n <= Len(w)
  BY <1>3, <1>5
<1>7. /\ page \in Seq(CopyOf) /\ Len(page) = n /\ DOMAIN page = 1..n
      /\ \A j \in 1..n : page[j] = w[j]
  BY <1>3, <1>6
<1> HIDE DEF page, w
<1>8. /\ got' \in Seq(CopyOf) /\ Len(got') = Len(got) + n /\ DOMAIN got' = 1..(Len(got) + n)
      /\ \A k \in DOMAIN got : got'[k] = got[k]
      /\ \A k \in DOMAIN got' : k > Len(got) => got'[k] = page[k - Len(got)]
  <2>1. PICK g \in Seq(CopyOf), p \in Seq(CopyOf) : g = got /\ p = page
    BY <1>3, <1>7
  <2>2. got' = g \o p
    BY <1>1, <2>1
  <2>3. /\ g \o p \in Seq(CopyOf) /\ Len(g \o p) = Len(g) + Len(p)
        /\ DOMAIN (g \o p) = 1..(Len(g) + Len(p))
        /\ \A k \in DOMAIN g : (g \o p)[k] = g[k]
        /\ \A k \in 1..(Len(g) + Len(p)) : k > Len(g) => (g \o p)[k] = p[k - Len(g)]
    BY Concat
  <2> QED
    BY <1>7, <2>1, <2>2, <2>3, Zenon
<1>9. ASSUME NEW k \in DOMAIN got'
      PROVE /\ got'[k].no = reader.first + k
            /\ \/ Given(got'[k])
               \/ reader.eof /\ k = Len(got') /\ n = Len(w) /\ Begun(got'[k])
  <2>1. CASE k \in DOMAIN got
    BY <1>4, <1>8, <2>1
  <2>2. CASE k > Len(got)
    <3>1. PICK j \in 1..n : j = k - Len(got)
      BY <1>3, <1>6, <1>8, <2>2
    <3>2. j \in DOMAIN w /\ got'[k] = w[j]
      BY <1>3, <1>6, <1>7, <1>8, <2>2, <3>1
    <3>3. got'[k].no = reader.first + k
      BY <1>3, <1>4, <1>6, <1>8, <3>1, <3>2, SMTT(30)
    <3>4. CASE reader.eof /\ j = Len(w) /\ Begun(w[j])
      <4>1. n = Len(w) /\ k = Len(got')
        <5>1. Len(w) \in Nat /\ Len(got) \in Nat /\ n <= Len(w) /\ n \in Nat /\ j = Len(w)
          BY <1>3, <1>6, <3>4
        <5>2. n = Len(w)
          BY <3>1, <5>1
        <5>3. k = Len(got) + j
          BY <1>8, <3>1, <5>1
        <5> QED
          BY <1>8, <3>4, <5>2, <5>3
      <4> QED
        BY <3>2, <3>3, <3>4, <4>1
    <3> QED
      BY <1>4, <3>2, <3>3, <3>4
  <2>3. k \in DOMAIN got \/ k > Len(got)
    <3>1. k \in 1..(Len(got) + n)
      BY <1>8
    <3>2. Len(got) \in Nat /\ DOMAIN got = 1..Len(got) /\ n \in Nat
      BY <1>3, <1>6
    <3> QED
      BY <3>1, <3>2
  <2> QED
    BY <2>1, <2>2, <2>3
<1>10. CASE MoreRemains(next)
  <2>1. reader.total >= reader.cursor
    <3>1. CASE ~(reader.total >= reader.cursor)
      <4>1. Len(w) = 0 /\ n = 0 /\ reader.eof
        BY <1>3, <1>4, <1>6, <3>1
      <4>2. next = reader.total
        BY <1>3, <3>1, <4>1 DEF Smaller
      <4> QED
        BY <1>3, <1>10, <4>1, <4>2 DEF MoreRemains
    <3> QED
      BY <3>1
  <2>2. next = reader.cursor + n
    BY <1>3, <1>6, <2>1 DEF Smaller
  <2>0. /\ reader.total \in Nat /\ reader.cursor \in Nat /\ reader.first \in Nat
        /\ Len(got) \in Nat /\ Len(text) \in Nat /\ reader.total <= Len(text)
        /\ Len(w) = reader.total - reader.cursor /\ n \in Nat /\ n <= Len(w)
        /\ reader.cursor = reader.first + Len(got) /\ Len(got') = Len(got) + n
    BY <1>3, <1>4, <1>6, <1>8, <2>1
  <2>3. next = reader.first + Len(got') /\ next <= Len(text) /\ next \in Nat
    <3>1. next = reader.first + Len(got')
      BY <2>0, <2>2
    <3>2. next <= reader.total
      BY <2>0, <2>2, SMTT(30)
    <3>3. PICK c \in Nat, s \in Nat : c = reader.cursor /\ s = n /\ next = c + s
      BY <2>0, <2>2
    <3> HIDE DEF next
    <3>4. next \in Nat
      BY <3>3
    <3>5. next <= Len(text)
      BY <2>0, <3>2, <3>4
    <3> QED
      BY <3>1, <3>4, <3>5
  <2>4. ~(reader.eof /\ n = Len(w))
    <3> HIDE DEF next
    <3> QED
      BY <1>10, <2>0, <2>2, SMTT(30) DEF MoreRemains
  <2>5. \A k \in DOMAIN got' : got'[k].no = reader.first + k /\ Given(got'[k])
    BY <1>9, <2>4
  <2>6. AtLeastOne(limit) \in Nat \ {0}
    BY DEF AtLeastOne
  <2>7. reader' = Reading("scan", reader.first, next, AtLeastOne(limit))
    BY <1>2, <1>10
  <2> HIDE DEF next
  <2>8. PICK first \in Nat, cursor \in Nat, lim \in Nat \ {0} :
          first = reader.first /\ cursor = next /\ lim = AtLeastOne(limit)
    BY <1>3, <2>3, <2>6
  <2> QED
    BY <1>1, <1>8, <2>3, <2>5, <2>7, <2>8, FreshScan
<1>11. CASE ~MoreRemains(next)
  <2>1. reader' = [reader EXCEPT !.pc = "done"]
    BY <1>2, <1>11
  <2>2. ReaderTyped
    BY DEF ReadInv
  <2>3. /\ ReaderTyped'
        /\ reader'.pc = "done" /\ reader'.first = reader.first /\ reader'.total = reader.total
        /\ reader'.eof = reader.eof
    BY <1>8, <2>1, <2>2 DEF ReaderTyped
  <2>4. reader.eof /\ next >= reader.total
    <3>0. PICK s \in Nat : s = Smaller(reader.cursor, reader.total)
      BY <1>3 DEF Smaller
    <3>1. next \in Nat
      BY <1>6, <3>0
    <3> HIDE DEF next
    <3> QED
      BY <1>3, <1>11, <3>1 DEF MoreRemains
  <2>5. Len(got') = IF reader.total >= reader.first THEN reader.total - reader.first ELSE 0
    <3>1. CASE reader.total >= reader.cursor
      <4>1. next = reader.cursor + n
        BY <1>3, <1>6, <3>1 DEF Smaller
      <4>2. n = reader.total - reader.cursor
        BY <1>3, <1>4, <1>6, <2>4, <3>1, <4>1, SMTT(30)
      <4> QED
        BY <1>3, <1>4, <1>8, <3>1, <4>2, SMTT(30)
    <3>2. CASE ~(reader.total >= reader.cursor)
      <4>1. n = 0 /\ got = <<>>
        BY <1>3, <1>4, <1>6, <2>4, <3>2
      <4>2. Len(got) = 0
        BY <4>1
      <4> QED
        BY <1>3, <1>4, <1>8, <3>2, <4>1, <4>2
    <3> QED
      BY <3>1, <3>2
  <2>6. GotInv'
    <3>1. \A k \in DOMAIN got' : /\ Given(got'[k]) => Given(got[k])'
                                 /\ Begun(got'[k]) => Begun(got[k])'
      BY <1>1 DEF Given, Begun, Closed, Faithful
    <3>2. \A k \in DOMAIN got' :
            /\ got'[k].no = reader'.first + k
            /\ \/ Given(got[k])'
               \/ k = Len(got') /\ reader'.pc = "done" /\ Begun(got[k])'
      BY <1>9, <2>3, <3>1
    <3> QED
      BY <2>3, <2>4, <2>5, <3>2 DEF GotInv
  <2>7. ScanInv' /\ WindowInv' /\ PageInv'
    BY <2>3 DEF ScanInv, WindowInv, PageInv
  <2> QED
    BY <2>3, <2>6, <2>7 DEF ReadInv
<1> QED
  BY <1>10, <1>11
-----------------------------------------------------------------------------
(* Every step keeps the invariant                                          *)

LEMMA InitInv == Init => IInv
<1> SUFFICES ASSUME Init PROVE IInv
  OBVIOUS
<1>1. TextInv
  <2>1. text = <<>> /\ open = FALSE /\ Newest = 0 /\ Len(text) = 0 /\ DOMAIN text = {}
    BY DEF Init, Newest
  <2>2. <<>> \in Seq(Line)
    OBVIOUS
  <2>3. \A i \in DOMAIN text : text[i].no = i
    BY <2>1
  <2>4. \A i \in DOMAIN text : \/ text[i].no = Newest - Len(text) + i
                               \/ i = 1 /\ text[1].no = 0 /\ Len(text) >= 2
    BY <2>1
  <2>5. text \in Seq(Line) /\ open \in BOOLEAN
    BY <2>1, <2>2
  <2>6. Newest >= Len(text)
    BY <2>1
  <2> QED
    BY <2>1, <2>3, <2>4, <2>5, <2>6 DEF TextInv
<1>2. PollInv
  <2>1. text = <<>> /\ Newest = 0
    BY DEF Init, Newest
  <2> QED
    BY <2>1 DEF Init, PollInv
<1>3. ReadInv
  <2>1. /\ reader.pc = "off" /\ reader.first = 0 /\ reader.cursor = 0 /\ reader.limit = 0
        /\ reader.total = 0 /\ reader.line = NoLine /\ reader.off = 0 /\ reader.window = <<>>
        /\ reader.eof = FALSE /\ got = <<>>
    BY DEF Init, Reading
  <2>2. NoLine \in [kept : Nat, cut : BOOLEAN]
    BY DEF NoLine
  <2>3. <<>> \in Seq(CopyOf)
    OBVIOUS
  <2>4. ReaderTyped
    <3> HIDE DEF NoLine
    <3> QED
      BY <2>2, <2>3 DEF Init, Reading, ReaderTyped
  <2>5. GotInv
    BY <2>1 DEF GotInv
  <2> QED
    BY <2>1, <2>4, <2>5 DEF ReadInv, ScanInv, WindowInv, PageInv
<1> QED
  BY <1>1, <1>2, <1>3 DEF IInv

(* A step of the reader, or of nobody, leaves the poller what it had. *)
LEMMA PollerUntouched ==
  ASSUME TextInv, TextInv', PollInv, UNCHANGED <<text, poller, shown>>
  PROVE PollInv'
<1>1. Newest' = Newest /\ Newest \in Nat
  BY TextTyped DEF Newest
<1>2. \A i \in DOMAIN text' : \E j \in DOMAIN text : text'[i].no = text[j].no
  OBVIOUS
<1> QED
  BY <1>1, <1>2, PollKept

LEMMA ReaderSteps == ASSUME IInv, Read PROVE IInv'
<1>1. TextInv /\ PollInv /\ ReadInv
  BY DEF IInv
<1>2. UNCHANGED <<text, open, stopped, poller, shown>>
  BY DEF Read, ReadStart, ScanBytes, ScanLine, ScanEnd, ScanFull, ReadAnswer, pollFrame
<1>3. reader.pc = "off" => Untrimmed
  BY DEF Read, ReadStart, ScanBytes, ScanLine, ScanEnd, ScanFull, ReadAnswer
<1>4. TextInv'
  BY <1>1, <1>2, <1>3, TextSame
<1>5. PollInv'
  BY <1>1, <1>2, <1>4, PollerUntouched
<1>6. ReadInv'
  BY <1>1, ReadStartInv, ScanBytesInv, ScanLineInv, ScanEndInv, ScanFullInv, ReadAnswerInv DEF Read
<1> QED
  BY <1>4, <1>5, <1>6 DEF IInv

LEMMA WriterSteps ==
  ASSUME IInv, WriteBytes \/ WriteNewline
  PROVE IInv'
<1>1. TextInv /\ PollInv /\ ReadInv
  BY DEF IInv
<1>2. ~stopped /\ ~stopped' /\ UNCHANGED <<reader, got, poller, shown>>
  BY DEF WriteBytes, WriteNewline, readFrame, pollFrame
<1>3. TextInv' /\ Grown
  BY <1>1, WriteBytesText, WriteNewlineText
<1>4. PollInv'
  BY <1>1, <1>2, <1>3, GrownNumbers, PollKept
<1>5. ReadInv'
  BY <1>1, <1>2, <1>3, ReadKept
<1> QED
  BY <1>3, <1>4, <1>5 DEF IInv

LEMMA StopStep == ASSUME IInv, Stop PROVE IInv'
<1>1. TextInv /\ PollInv /\ ReadInv
  BY DEF IInv
<1>2. stopped' /\ UNCHANGED <<text, open, reader, got, poller, shown>>
  BY DEF Stop, readFrame, pollFrame
<1>3. TextInv'
  BY <1>1, <1>2 DEF TextInv, Newest
<1>4. PollInv'
  BY <1>1, <1>2, <1>3, PollerUntouched
<1>5. ReadInv'
  BY <1>1, <1>2, <1>3, SameGrown, ReadKept
<1> QED
  BY <1>3, <1>4, <1>5 DEF IInv

LEMMA TrimStep == ASSUME IInv, Trim PROVE IInv'
<1>1. TextInv /\ PollInv /\ ReadInv
  BY DEF IInv
<1>2. reader.pc = "off" /\ UNCHANGED <<reader, got, poller, shown>>
  BY DEF Trim, readFrame, pollFrame
<1>3. /\ TextInv' /\ Newest' = Newest /\ Newest \in Nat
      /\ \A i \in DOMAIN text' : text'[i].no = 0 \/ \E j \in DOMAIN text : text'[i].no = text[j].no
  BY <1>1, TrimText, TextTyped
<1>4. PollInv'
  BY <1>1, <1>2, <1>3, PollKept
<1>5. ReadInv'
  <2>1. got = <<>> /\ got' = <<>> /\ reader' = reader
    BY <1>1, <1>2 DEF ReadInv, GotInv
  <2>2. ReaderTyped'
    BY <1>1, <1>2 DEF ReadInv, ReaderTyped
  <2>3. GotInv'
    BY <1>2, <2>1 DEF GotInv
  <2> QED
    BY <1>2, <2>2, <2>3 DEF ReadInv, ScanInv, WindowInv, PageInv
<1> QED
  BY <1>3, <1>4, <1>5 DEF IInv

LEMMA PollerSteps ==
  ASSUME IInv, Inline \/ PollStart \/ PollPage
  PROVE IInv'
<1>1. TextInv /\ PollInv /\ ReadInv
  BY DEF IInv
<1>2. UNCHANGED <<text, open, stopped, reader, got>>
  BY DEF Inline, PollStart, PollPage, readFrame
<1>3. TextInv'
  BY <1>1, <1>2, TextSame
<1>4. PollInv'
  BY <1>1, InlinePage, PollStartsOff, NextPage
<1>5. ReadInv'
  BY <1>1, <1>2, <1>3, SameGrown, ReadKept
<1> QED
  BY <1>3, <1>4, <1>5 DEF IInv

LEMMA NextInv == IInv /\ [Next]_vars => IInv'
<1> SUFFICES ASSUME IInv, [Next]_vars PROVE IInv'
  OBVIOUS
<1>1. CASE UNCHANGED vars
  <2>1. TextInv /\ PollInv /\ ReadInv /\ UNCHANGED <<text, open, stopped, reader, got, poller, shown>>
    BY <1>1 DEF IInv, vars
  <2>2. TextInv'
    BY <2>1, TextSame
  <2> QED
    BY <2>1, <2>2, PollerUntouched, SameGrown, ReadKept DEF IInv
<1> QED
  BY <1>1, ReaderSteps, WriterSteps, StopStep, TrimStep, PollerSteps DEF Next

LEMMA ShownIsAll == IInv => PollSkipsNothing
<1> SUFFICES ASSUME IInv, NEW i \in DOMAIN text, text[i].no # 0, text[i].no <= poller.first,
                    poller.pc = "done" \/ text[i].no >= poller.oldest, poller.pc # "off"
             PROVE text[i].no \in shown
  BY DEF PollSkipsNothing
<1>1. TextInv /\ PollInv
  BY DEF IInv
<1>2. text[i].no \in Nat
  BY <1>1, TextTyped
<1>3. CASE poller.pc = "done"
  BY <1>1, <1>2, <1>3 DEF PollInv, ShownSince
<1>4. CASE poller.pc = "paging"
  <2>1. text[i].no >= poller.oldest /\ poller.first # 0
    BY <1>2, <1>4
  <2> QED
    BY <1>1, <1>4, <2>1 DEF PollInv, ShownSince
<1> QED
  BY <1>1, <1>3, <1>4 DEF PollInv

(***************************************************************************)
(* The invariant holds of every read and every poll, for every cap,        *)
(* budget, limit and cursor.                                               *)
(***************************************************************************)
THEOREM Invariance == Spec => []IInv
<1>1. Init => IInv
  BY InitInv
<1>2. IInv /\ [Next]_vars => IInv'
  BY NextInv
<1> QED
  BY <1>1, <1>2, PTL DEF Spec

(***************************************************************************)
(* The file tool's pages are the file: the lines from the first one asked  *)
(* for, one after the other, none skipped, repeated or given half, however *)
(* the file grows between two chunks of the scan and between two pages.    *)
(***************************************************************************)
THEOREM PagesAlwaysTile == Spec => []PagesTile
<1>1. IInv => PagesTile
  BY GotTiles DEF IInv
<1> QED
  BY <1>1, Invariance, PTL

(***************************************************************************)
(* Polling a job back from its newest line skips no line there was at the  *)
(* first poll, however the log grows and though it is trimmed meanwhile;   *)
(* nor does the inline answer of `bash` that offers no polling.            *)
(***************************************************************************)
THEOREM PollsSkipNothing == Spec => []PollSkipsNothing
<1> QED
  BY ShownIsAll, Invariance, PTL
-----------------------------------------------------------------------------
(* Types                                                                   *)

(***************************************************************************)
(* The bounds of the types, which the invariant above does not need: what  *)
(* is kept of a line is within the cap, the window within the limit.       *)
(***************************************************************************)
InBounds ==
  /\ text \in Seq(Lines) /\ reader.window \in Seq(Copies) /\ got \in Seq(Copies)
  /\ reader.line.kept <= MaxRead /\ Len(reader.window) <= reader.limit
  /\ stopped \in BOOLEAN /\ shown \subseteq 0..MaxLines

LEMMA Typed == IInv /\ InBounds => TypeOK
<1> SUFFICES ASSUME IInv, InBounds PROVE TypeOK
  OBVIOUS
<1>1. /\ TextInv /\ PollInv
      /\ reader \in [pc : {"off", "scan", "page", "done"}, first : Nat, cursor : Nat, limit : Nat,
                     total : Nat, line : [kept : Nat, cut : BOOLEAN], off : Nat,
                     window : Seq(CopyOf), eof : BOOLEAN]
  BY DEF IInv, ReadInv, ReaderTyped
<1>2. open \in BOOLEAN /\ poller \in Pollers
  BY <1>1 DEF TextInv, PollInv, Pollers
<1>3. reader.line \in [kept : 0..MaxRead, cut : BOOLEAN]
  BY <1>1 DEF InBounds
<1>4. reader \in Readers
  BY <1>1, <1>3 DEF InBounds, Readers
<1> QED
  BY <1>2, <1>4 DEF InBounds, TypeOK

LEMMA CapsLines ==
  ASSUME NEW line \in [kept : Nat, cut : BOOLEAN], line.kept <= MaxRead, NEW n \in Nat,
         NEW l \in AppendCapped(line, n)
  PROVE l \in [kept : 0..MaxRead, cut : BOOLEAN]
<1>1. line \in [kept : 0..MaxRead, cut : BOOLEAN]
  OBVIOUS
<1>2. CASE l = line
  BY <1>1, <1>2
<1>3. CASE n <= MaxRead - line.kept /\ l = [line EXCEPT !.kept = @ + n]
  <2>1. line.kept + n \in 0..MaxRead
    BY <1>3
  <2> QED
    BY <1>3, <2>1
<1>4. ASSUME NEW b \in 0..Back, l = [kept |-> MaxRead - b, cut |-> TRUE]
      PROVE l \in [kept : 0..MaxRead, cut : BOOLEAN]
  <2>1. MaxRead - b \in 0..MaxRead
    OBVIOUS
  <2> QED
    BY <1>4, <2>1
<1> QED
  BY <1>2, <1>3, <1>4 DEF AppendCapped

(* The window takes one line more while it is not full. *)
LEMMA TakenInBounds ==
  ASSUME TextInv, ReadInv, InBounds, reader.pc = "scan", ~Full, NEW copy \in Copies
  PROVE Taken(copy) \in Seq(Copies) /\ Len(Taken(copy)) <= reader.limit
<1>1. /\ reader.window \in Seq(Copies) /\ Len(reader.window) \in Nat
      /\ reader.limit \in Nat /\ Len(reader.window) < reader.limit
  BY ReaderFacts DEF InBounds, Full
<1> QED
  BY <1>1 DEF Taken

(* The line after those scanned has a number of the text's. *)
LEMMA NumberInBounds ==
  ASSUME TextInv, InBounds, NEW i \in DOMAIN text
  PROVE text[i].no \in 0..MaxLines /\ text[i].size \in 0..MaxSize
<1>1. text[i] \in Lines
  BY TextTyped DEF InBounds
<1> QED
  BY <1>1 DEF Lines

LEMMA WriteBytesBounds == ASSUME TextInv, InBounds, WriteBytes PROVE text' \in Seq(Lines)
<1>1. PICK n \in 1..MaxSize :
        \/ /\ open /\ n <= MaxSize - text[Len(text)].size
           /\ text' = [text EXCEPT ![Len(text)].size = @ + n]
        \/ /\ ~open /\ Len(text) < MaxLines
           /\ text' = Append(text, [no |-> Len(text) + 1, size |-> n])
  BY DEF WriteBytes
<1>2. text \in Seq(Lines) /\ Len(text) \in Nat
  BY DEF InBounds
<1>3. CASE open /\ n <= MaxSize - text[Len(text)].size /\ text' = [text EXCEPT ![Len(text)].size = @ + n]
  <2>1. Len(text) \in DOMAIN text
    BY <1>3, TextTyped DEF TextInv
  <2>2. PICK l \in Lines : l = text[Len(text)]
    BY <1>2, <2>1
  <2>3. [l EXCEPT !.size = l.size + n] \in Lines
    <3>0. l.size \in Nat /\ n \in Nat /\ n <= MaxSize - l.size
      BY <1>3, <2>2 DEF Lines
    <3>1. l.size + n \in 0..MaxSize
      BY <3>0
    <3> QED
      BY <3>1 DEF Lines
  <2>4. text' = [text EXCEPT ![Len(text)] = [l EXCEPT !.size = l.size + n]]
    BY <1>3, <2>1, <2>2
  <2> QED
    BY <1>2, <2>1, <2>3, <2>4
<1>4. CASE ~open /\ Len(text) < MaxLines /\ text' = Append(text, [no |-> Len(text) + 1, size |-> n])
  <2>1. [no |-> Len(text) + 1, size |-> n] \in Lines
    BY <1>2, <1>4 DEF Lines
  <2> QED
    BY <1>2, <1>4, <2>1
<1> QED
  BY <1>1, <1>3, <1>4

LEMMA WriteNewlineBounds == ASSUME TextInv, InBounds, WriteNewline PROVE text' \in Seq(Lines)
<1>1. text \in Seq(Lines) /\ Len(text) \in Nat
  BY DEF InBounds
<1>2. CASE ~open /\ Len(text) < MaxLines /\ text' = Append(text, [no |-> Len(text) + 1, size |-> 0])
  <2>1. [no |-> Len(text) + 1, size |-> 0] \in Lines
    BY <1>1, <1>2 DEF Lines
  <2> QED
    BY <1>1, <1>2, <2>1
<1> QED
  BY <1>1, <1>2 DEF WriteNewline

LEMMA TrimBounds == ASSUME TextInv, InBounds, Trim PROVE text' \in Seq(Lines)
<1>1. /\ text \in Seq(Lines) /\ Len(text) > Keep /\ Len(text) \in Nat
      /\ text' = <<[no |-> 0, size |-> 1]>> \o SubSeq(text, Len(text) - Keep + 1, Len(text))
  BY TextTyped DEF InBounds, Trim
<1>2. Len(text) - Keep + 1 \in 1..Len(text) /\ Len(text) \in 1..Len(text)
  BY <1>1
<1>3. SubSeq(text, Len(text) - Keep + 1, Len(text)) \in Seq(Lines)
  BY <1>1, <1>2
<1>4. <<[no |-> 0, size |-> 1]>> \in Seq(Lines)
  BY DEF Lines
<1> QED
  BY <1>1, <1>3, <1>4

LEMMA WriterBounds ==
  ASSUME TextInv, InBounds, WriteBytes \/ WriteNewline \/ Stop \/ Trim
  PROVE InBounds'
<1>1. UNCHANGED <<reader, got, poller, shown>>
  BY DEF WriteBytes, WriteNewline, Stop, Trim, readFrame, pollFrame
<1>2. text' \in Seq(Lines)
  <2>1. Stop => text' = text
    BY DEF Stop
  <2> QED
    BY <2>1, WriteBytesBounds, WriteNewlineBounds, TrimBounds DEF InBounds
<1>3. stopped' \in BOOLEAN
  BY DEF WriteBytes, WriteNewline, Stop, Trim, InBounds
<1> QED
  BY <1>1, <1>2, <1>3 DEF InBounds

LEMMA ReadStartBounds == ASSUME InBounds, ReadStart PROVE InBounds'
<1>1. PICK cursor \in Start, limit \in Limit :
        reader' = Reading("scan", cursor, cursor, AtLeastOne(limit))
  BY DEF ReadStart
<1>2. AtLeastOne(limit) \in Nat
  BY DEF AtLeastOne
<1>3. reader'.window = <<>> /\ reader'.line.kept = 0 /\ reader'.limit \in Nat
  BY <1>1, <1>2 DEF Reading, NoLine
<1>4. UNCHANGED <<text, stopped, got, shown>>
  BY DEF ReadStart, pollFrame
<1> QED
  BY <1>3, <1>4 DEF InBounds

LEMMA ScanBytesBounds == ASSUME TextInv, ReadInv, InBounds, ScanBytes PROVE InBounds'
<1>1. reader.pc = "scan" /\ ~AtEnd /\ UNCHANGED <<text, stopped, got, shown>>
  BY DEF ScanBytes, pollFrame
<1>0. PICK n \in 1..(text[reader.total + 1].size - reader.off) :
        \E line \in AppendCapped(reader.line, n) :
          reader' = [reader EXCEPT !.line = line, !.off = @ + n]
  BY DEF ScanBytes
<1>2. PICK line \in AppendCapped(reader.line, n) :
        reader' = [reader EXCEPT !.line = line, !.off = @ + n]
  BY <1>0
<1>3. n \in Nat
  BY <1>0, <1>1, NotAtEnd, ReaderFacts
<1>4. line \in [kept : 0..MaxRead, cut : BOOLEAN]
  BY <1>1, <1>3, CapsLines, ReaderFacts DEF InBounds
<1>5. reader'.line = line /\ reader'.window = reader.window /\ reader'.limit = reader.limit
  BY <1>2 DEF ReadInv, ReaderTyped
<1> QED
  BY <1>1, <1>4, <1>5 DEF InBounds

LEMMA ScanLineBounds == ASSUME TextInv, ReadInv, InBounds, ScanLine PROVE InBounds'
<1> DEFINE rest == text[reader.total + 1].size - reader.off
           copy(line) == [no |-> text[reader.total + 1].no, kept |-> line.kept, cut |-> line.cut]
<1>1. /\ reader.pc = "scan" /\ ~Full /\ ~AtEnd
      /\ UNCHANGED <<text, stopped, got, shown>>
  BY DEF ScanLine, pollFrame
<1>2. PICK line \in AppendCapped(reader.line, rest) :
        reader' = [reader EXCEPT !.total = @ + 1, !.off = 0, !.line = NoLine,
                     !.window = Taken(copy(line))]
  BY DEF ScanLine
<1>3. reader.total + 1 \in DOMAIN text /\ rest \in Nat
  BY <1>1, NotAtEnd, ReaderFacts
<1>4. line \in [kept : 0..MaxRead, cut : BOOLEAN]
  <2> HIDE DEF rest
  <2> QED
    BY <1>1, <1>3, CapsLines, ReaderFacts DEF InBounds
<1>5. copy(line) \in Copies
  BY <1>3, <1>4, NumberInBounds DEF Copies
<1>6. Taken(copy(line)) \in Seq(Copies) /\ Len(Taken(copy(line))) <= reader.limit
  <2> HIDE DEF copy
  <2> QED
    BY <1>1, <1>5, TakenInBounds
<1>7. /\ reader'.line = NoLine /\ reader'.window = Taken(copy(line)) /\ reader'.limit = reader.limit
  BY <1>2 DEF ReadInv, ReaderTyped
<1> HIDE DEF copy
<1> QED
  BY <1>1, <1>6, <1>7 DEF InBounds, NoLine

LEMMA ScanEndBounds == ASSUME TextInv, ReadInv, InBounds, ScanEnd PROVE InBounds'
<1>1. /\ reader.pc = "scan" /\ ~Full /\ AtEnd
      /\ UNCHANGED <<text, stopped, got, shown>>
  BY DEF ScanEnd, pollFrame
<1>2. CASE reader.off = 0
  <2>1. reader' = [reader EXCEPT !.pc = "page", !.eof = TRUE]
    BY <1>2 DEF ScanEnd
  <2>2. reader'.line = reader.line /\ reader'.window = reader.window /\ reader'.limit = reader.limit
    BY <2>1 DEF ReadInv, ReaderTyped
  <2> QED
    BY <1>1, <2>2 DEF InBounds
<1>3. CASE reader.off # 0
  <2>1. reader.total + 1 \in DOMAIN text
    <3>1. reader.total # Len(text)
      BY <1>1, <1>3 DEF ReadInv, ScanInv
    <3> QED
      BY <1>1, <3>1, ReaderFacts
  <2>2. reader.line \in [kept : 0..MaxRead, cut : BOOLEAN]
    BY <1>1, ReaderFacts DEF InBounds
  <2>3. Copy \in Copies
    BY <2>1, <2>2, NumberInBounds DEF Copy, Copies
  <2>4. Taken(Copy) \in Seq(Copies) /\ Len(Taken(Copy)) <= reader.limit
    BY <1>1, <2>3, TakenInBounds
  <2>5. /\ reader' = [[reader EXCEPT !.window = Taken(Copy), !.total = @ + 1]
                        EXCEPT !.pc = "page", !.eof = TRUE]
    BY <1>3 DEF ScanEnd
  <2>6. /\ reader'.line = reader.line /\ reader'.window = Taken(Copy) /\ reader'.limit = reader.limit
    BY <2>5 DEF ReadInv, ReaderTyped
  <2> QED
    BY <1>1, <2>2, <2>4, <2>6 DEF InBounds
<1> QED
  BY <1>2, <1>3

LEMMA ScanFullBounds == ASSUME ReadInv, InBounds, ScanFull PROVE InBounds'
<1>1. UNCHANGED <<text, stopped, got, shown>> /\ reader' = [reader EXCEPT !.pc = "page"]
  BY DEF ScanFull, pollFrame
<1>2. reader'.line = reader.line /\ reader'.window = reader.window /\ reader'.limit = reader.limit
  BY <1>1 DEF ReadInv, ReaderTyped
<1> QED
  BY <1>1, <1>2 DEF InBounds

LEMMA ReadAnswerBounds == ASSUME TextInv, ReadInv, InBounds, ReadAnswer PROVE InBounds'
<1> DEFINE w == reader.window
           n == PageLength(Sizes(w), 0, reader.limit)
           next == Smaller(reader.cursor, reader.total) + n
<1>1. /\ reader.pc = "page" /\ UNCHANGED <<text, stopped, shown>>
      /\ got' = got \o SubSeq(w, 1, n)
  BY DEF ReadAnswer, pollFrame
<1>2. w \in Seq(Copies) /\ Len(w) \in Nat /\ reader.limit \in Nat \ {0}
  BY <1>1, ReaderFacts DEF InBounds
<1>3. n \in 0..Len(w)
  <2>1. Len(Sizes(w)) = Len(w)
    BY <1>2 DEF Sizes
  <2> QED
    BY <1>2, <2>1, PageFits
<1>4. got' \in Seq(Copies)
  <2>1. SubSeq(w, 1, n) \in Seq(Copies)
    <3> HIDE DEF n, w
    <3> QED
      BY <1>2, <1>3
  <2> HIDE DEF n, w
  <2> QED
    BY <1>1, <2>1 DEF InBounds
<1>5. CASE MoreRemains(next)
  <2>1. PICK limit \in Limit : reader' = Reading("scan", reader.first, next, AtLeastOne(limit))
    BY <1>5 DEF ReadAnswer
  <2>2. AtLeastOne(limit) \in Nat
    BY DEF AtLeastOne
  <2>3. reader'.window = <<>> /\ reader'.line.kept = 0 /\ reader'.limit \in Nat
    BY <2>1, <2>2 DEF Reading, NoLine
  <2> QED
    BY <1>1, <1>4, <2>3 DEF InBounds
<1>6. CASE ~MoreRemains(next)
  <2>1. reader' = [reader EXCEPT !.pc = "done"]
    BY <1>6 DEF ReadAnswer
  <2>2. reader'.line = reader.line /\ reader'.window = reader.window /\ reader'.limit = reader.limit
    BY <2>1 DEF ReadInv, ReaderTyped
  <2> QED
    BY <1>1, <1>4, <2>2 DEF InBounds
<1> QED
  BY <1>5, <1>6

LEMMA PollerBounds ==
  ASSUME TextInv, PollInv, InBounds, Inline \/ PollStart \/ PollPage
  PROVE InBounds'
<1>1. UNCHANGED <<text, stopped, reader, got>>
  BY DEF Inline, PollStart, PollPage, readFrame
<1>2. Len(text) \in Nat /\ \A i \in 1..Len(text) : text[i].no \in 0..MaxLines
  BY TextTyped, NumberInBounds
<1>3. CASE Inline
  <2>1. InlineLength \in 0..Len(text)
    <3>1. Len([i \in DOMAIN text |-> text[i].size]) = Len(text)
      BY TextTyped
    <3>2. AtLeastOne(Default) \in Nat \ {0}
      BY DEF AtLeastOne
    <3> QED
      BY <1>2, <3>1, <3>2, PageFits DEF InlineLength
  <2>2. shown' = {text[i].no : i \in 1..InlineLength}
    BY <1>3 DEF Inline
  <2>3. \A i \in 1..InlineLength : text[i].no \in 0..MaxLines
    BY <1>2, <2>1
  <2>4. shown' \subseteq 0..MaxLines
    BY <2>2, <2>3
  <2> QED
    BY <1>1, <2>4 DEF InBounds
<1>4. CASE PollStart
  BY <1>1, <1>4 DEF PollStart, InBounds
<1>5. CASE PollPage
  <2> DEFINE end == Len(text) - Smaller(poller.cursor, Len(text))
             limit == AtLeastOne(poller.limit)
             n == TailLength([i \in DOMAIN text |-> text[i].size], end, limit)
  <2>1. end \in 0..Len(text) /\ limit \in Nat \ {0}
    BY <1>2 DEF PollInv, Smaller, AtLeastOne
  <2>2. n \in 0..end
    <3> HIDE DEF end, limit
    <3> QED
      BY <2>1, TailFits
  <2>3. shown' = shown \cup {text[i].no : i \in (end - n + 1)..end}
    BY <1>5 DEF PollPage
  <2> HIDE DEF end, limit, n
  <2>4. \A i \in (end - n + 1)..end : text[i].no \in 0..MaxLines
    BY <1>2, <2>1, <2>2
  <2>5. shown' \subseteq 0..MaxLines
    BY <2>3, <2>4 DEF InBounds
  <2> QED
    BY <1>1, <2>5 DEF InBounds
<1> QED
  BY <1>3, <1>4, <1>5

LEMMA InitBounds == Init => InBounds
<1> SUFFICES ASSUME Init PROVE InBounds
  OBVIOUS
<1>1. /\ reader.window = <<>> /\ reader.line.kept = 0 /\ reader.limit = 0
      /\ text = <<>> /\ got = <<>> /\ stopped = FALSE /\ shown = {}
  BY DEF Init, Reading, NoLine
<1>2. <<>> \in Seq(Lines) /\ <<>> \in Seq(Copies) /\ Len(<<>>) = 0
  OBVIOUS
<1>3. reader.line.kept <= MaxRead /\ Len(reader.window) <= reader.limit
  BY <1>1, <1>2
<1>4. text \in Seq(Lines) /\ reader.window \in Seq(Copies) /\ got \in Seq(Copies)
  BY <1>1, <1>2
<1> QED
  BY <1>1, <1>3, <1>4 DEF InBounds

LEMMA NextBounds == IInv /\ InBounds /\ [Next]_vars => InBounds'
<1> SUFFICES ASSUME IInv, InBounds, [Next]_vars PROVE InBounds'
  OBVIOUS
<1>1. TextInv /\ PollInv /\ ReadInv
  BY DEF IInv
<1>2. CASE Read
  BY <1>1, <1>2, ReadStartBounds, ScanBytesBounds, ScanLineBounds, ScanEndBounds, ScanFullBounds,
     ReadAnswerBounds DEF Read
<1>3. CASE UNCHANGED vars
  BY <1>3 DEF vars, InBounds
<1> QED
  BY <1>1, <1>2, <1>3, WriterBounds, PollerBounds DEF Next

(***************************************************************************)
(* Every variable keeps its type: what is read of a line stays within its  *)
(* cap, the window of a read within the limit asked for, and what a poll   *)
(* shows within the lines there are.                                       *)
(***************************************************************************)
THEOREM PagingIsTyped == Spec => []TypeOK
<1>1. Init => IInv /\ InBounds
  BY InitInv, InitBounds
<1>2. (IInv /\ InBounds) /\ [Next]_vars => (IInv /\ InBounds)'
  BY NextInv, NextBounds
<1>3. IInv /\ InBounds => TypeOK
  BY Typed
<1> QED
  BY <1>1, <1>2, <1>3, PTL DEF Spec

=============================================================================
