------------------------------- MODULE PatchText -------------------------------
(***************************************************************************)
(* ParseUnifiedPatch (internal/review/diff.go): the hunks of the text that  *)
(* git diff prints, read line by line.  A line is a header with the two     *)
(* line counts it declares, or one of                                       *)
(*     "+", "-", " "   added, deleted, context                              *)
(*     "---"           a file header outside a hunk, a deletion inside one  *)
(*     "\\"            no newline at the end of the file                    *)
(*     "index", ""     lines of the preamble                                *)
(*     "other"         anything else.                                       *)
(* Lines arrive one at a time until the parser refuses one, so that every   *)
(* text of at most MaxLines is read.                                        *)
(***************************************************************************)
EXTENDS Integers, Sequences, FiniteSets, SequencesExt

CONSTANTS
    Counts,        \* counts a header declares: pairs <<old, new>>
    MaxLines

VARIABLE text

Header(c) == [prefix |-> "@@", counts |-> c]
Plain(l)  == [prefix |-> l, counts |-> <<0, 0>>]
Lines == {Header(c) : c \in Counts} \cup
         {Plain(l) : l \in {"+", "-", " ", "---", "\\", "index", "", "other"}}

Preamble(l) == l.prefix \in {"---", "index", ""}
Deletion(l) == l.prefix \in {"-", "---"}

(* The state of the parser: the hunks read, the one being read, and what is *)
(* still owed to its header.                                                *)
Nothing == [inside |-> FALSE, counts |-> <<0, 0>>, payload |-> <<>>, owed |-> <<0, 0>>,
            marks |-> {}, last |-> ""]
Start == [refused |-> FALSE, hunks |-> <<>>, cur |-> Nothing]
Refuse(s) == [s EXCEPT !.refused = TRUE]
Complete(s) == s.cur.owed = <<0, 0>>

Flush(s) == IF ~s.cur.inside THEN s
            ELSE IF ~Complete(s) THEN Refuse(s)
            ELSE [s EXCEPT !.hunks = Append(@, [counts |-> s.cur.counts, payload |-> s.cur.payload,
                                                marks |-> s.cur.marks]),
                           !.cur = Nothing]
Open(s, l) == IF s.refused THEN s
              ELSE [s EXCEPT !.cur = [Nothing EXCEPT !.inside = TRUE, !.counts = l.counts,
                                                     !.owed = l.counts]]
Mark(s) == CASE Deletion(Plain(s.cur.last)) -> [s EXCEPT !.cur.marks = @ \cup {"old"}, !.cur.last = ""]
             [] s.cur.last = "+" -> [s EXCEPT !.cur.marks = @ \cup {"new"}, !.cur.last = ""]
             [] s.cur.last = " " -> [s EXCEPT !.cur.marks = {"old", "new"}, !.cur.last = ""]
             [] OTHER -> Refuse(s)
Uses(l) == CASE l.prefix = "+" -> <<0, 1>> [] Deletion(l) -> <<1, 0>>
             [] l.prefix = " " -> <<1, 1>> [] OTHER -> <<9, 9>>
Take(s, l) == LET owed == [i \in 1..2 |-> s.cur.owed[i] - Uses(l)[i]] IN
              IF owed[1] < 0 \/ owed[2] < 0 THEN Refuse(s)
              ELSE [s EXCEPT !.cur.owed = owed, !.cur.last = l.prefix,
                             !.cur.payload = Append(@, l.prefix)]
Read(s, l) ==
    CASE s.refused -> s
      [] ~s.refused /\ l.prefix = "@@" -> Open(Flush(s), l)
      [] ~s.refused /\ l.prefix # "@@" /\ ~s.cur.inside -> IF Preamble(l) THEN s ELSE Refuse(s)
      [] ~s.refused /\ l.prefix = "\\" /\ s.cur.inside -> Mark(s)
      [] OTHER -> IF ~Complete(s) THEN Take(s, l)
                  ELSE IF Preamble(l) THEN Flush(s) ELSE Refuse(s)
ParseUnifiedPatch(lines) == Flush(FoldLeft(Read, Start, lines))

Init == text = <<>>
Line(l) == text' = Append(text, l)
Next == /\ Len(text) < MaxLines /\ ~FoldLeft(Read, Start, text).refused
        /\ \E l \in Lines : Line(l)

(***************************************************************************)
(* The same patch said without a parser: a hunk owns the lines from its     *)
(* header to the next header; they are its declared lines, each marker      *)
(* right behind one of them, and then preamble only.                        *)
(***************************************************************************)
Headers(t) == {i \in DOMAIN t : t[i].prefix = "@@"}
Body(t, i) == LET later == {j \in Headers(t) : j > i}
                  end   == IF later = {} THEN Len(t) ELSE (CHOOSE j \in later : \A k \in later : j <= k) - 1 IN
              SubSeq(t, i + 1, end)
Shown(body, k) == SelectSeq(SubSeq(body, 1, k), LAMBDA l : l.prefix # "\\")
Olds(lines) == Len(SelectSeq(lines, LAMBDA l : Deletion(l) \/ l.prefix = " "))
News(lines) == Len(SelectSeq(lines, LAMBDA l : l.prefix \in {"+", " "}))
Spans(counts, body, k) ==
    /\ \A i \in 1..k : body[i].prefix \in {"+", "-", " ", "---", "\\"}
    /\ \A i \in 1..k : body[i].prefix = "\\" => i > 1 /\ body[i - 1].prefix # "\\"
    /\ Olds(Shown(body, k)) = counts[1] /\ News(Shown(body, k)) = counts[2]
    /\ k > 0 /\ body[k].prefix # "\\" => Len(Shown(body, k)) = Len(Shown(body, k - 1)) + 1
    /\ \A i \in (k + 1)..Len(body) : Preamble(body[i])
WellFormed(t) ==
    /\ \A i \in DOMAIN t : Preamble(t[i]) \/ \E h \in Headers(t) : h <= i
    /\ \A h \in Headers(t) : \E k \in 0..Len(Body(t, h)) : Spans(t[h].counts, Body(t, h), k)

(***************************************************************************)
(* A patch is read whole or refused: every well-formed text is read, no     *)
(* other is, there is a hunk for every header in their order, each holds    *)
(* exactly the lines that its header declared, and the lines behind no      *)
(* newline are noted on the side they are of.                               *)
(***************************************************************************)
PatchIsWhole ==
    LET parsed == ParseUnifiedPatch(text)
        at     == SetToSortSeq(Headers(text), <) IN
    /\ parsed.refused <=> ~WellFormed(text)
    /\ ~parsed.refused =>
          /\ Len(parsed.hunks) = Len(at)
          /\ \A i \in DOMAIN at :
                LET hunk == parsed.hunks[i]
                    body == Body(text, at[i])
                    k    == Len(hunk.payload) IN
                /\ hunk.counts = text[at[i]].counts
                /\ [j \in DOMAIN hunk.payload |-> Plain(hunk.payload[j])]
                       = SubSeq(SelectSeq(body, LAMBDA l : l.prefix # "\\"), 1, k)
                /\ Olds([j \in 1..k |-> Plain(hunk.payload[j])]) = hunk.counts[1]
                /\ News([j \in 1..k |-> Plain(hunk.payload[j])]) = hunk.counts[2]
                /\ "old" \in hunk.marks <=> \E j \in 2..Len(body) :
                       body[j].prefix = "\\" /\ (Deletion(body[j - 1]) \/ body[j - 1].prefix = " ")
                /\ "new" \in hunk.marks <=> \E j \in 2..Len(body) :
                       body[j].prefix = "\\" /\ body[j - 1].prefix \in {"+", " "}
=============================================================================
