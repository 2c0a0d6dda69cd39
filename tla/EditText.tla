----------------------------- MODULE EditText -----------------------------
(***************************************************************************)
(* editFileSafe of src/agent/tools/write.ts as a function: which text an   *)
(* edit_file call writes for the text it read.                             *)
(*                                                                         *)
(* A text is a sequence of characters, LF and CR among them.  The one that *)
(* replaces oldContent is no plain text: before.replace(oldContent,        *)
(* content) reads "$" as the start of a pattern.                           *)
(***************************************************************************)
EXTENDS Integers, Sequences, SequencesExt

CONSTANTS
  Chars,   \* the characters of texts: "a", "$", "quote", LF and so on
  NoArg    \* an optional argument that was not given

LF == "lf"
CR == "cr"

Texts == Seq(Chars)

LargerOf(a, b) == IF a >= b THEN a ELSE b

Error(code) == [ok |-> FALSE, error |-> code, text |-> <<>>]
Written(text) == [ok |-> TRUE, error |-> "", text |-> text]

WithoutCR(line) == IF line # <<>> /\ Last(line) = CR THEN Front(line) ELSE line

\* split(/\r?\n/): an LF ends a line, and takes a CR before it along.
Split(text) ==
  LET Next(lines, char) ==
        LET line == Last(lines) IN
        Front(lines) \o (IF char = LF THEN <<WithoutCR(line), <<>>>> ELSE <<Append(line, char)>>)
  IN FoldLeft(Next, <<<<>>>>, text)

\* join("\n")
Join(lines) == FoldLeft(LAMBDA text, line : text \o <<LF>> \o line, Head(lines), Tail(lines))

\* A slip that a run must notice: slice(end - 1), the last line of the range stays.
ReplaceRange_KeepsLast(before, startLine, endLine, replacement) ==
  LET lines == Split(before)
      start == LargerOf(1, startLine)
      end   == LargerOf(start, endLine)
  IN IF start > Len(lines)
     THEN Error("invalid_range")
     ELSE Written(Join(SubSeq(lines, 1, start - 1) \o Split(replacement)
                       \o SubSeq(lines, end, Len(lines))))

\* The branch for startLine, endLine and replacement.
ReplaceRange(before, startLine, endLine, replacement) ==
  LET lines == Split(before)
      start == LargerOf(1, startLine)
      end   == LargerOf(start, endLine)
  IN IF start > Len(lines)
     THEN Error("invalid_range")
     ELSE Written(Join(SubSeq(lines, 1, start - 1) \o Split(replacement)
                       \o SubSeq(lines, end + 1, Len(lines))))

OccursAt(before, old, i) == SubSeq(before, i, i + Len(old) - 1) = old

\* Where before.includes(oldContent) finds it: "" is found in front of everything.
Occurrences(before, old) ==
  {i \in 1..(Len(before) - Len(old) + 1) : OccursAt(before, old, i)}

Patterns == {"$", "&", "backquote", "quote"}

\* What String.prototype.replace inserts for a replacement string: "$$" stands for "$",
\* "$&" for the match, "$" and a backquote for what is before it, "$" and a quote for what
\* is after it.
Expanded(content, old, head, tail) ==
  LET n == Len(content)
      StandsFor(char) == CASE char = "$" -> <<"$">>
                           [] char = "&" -> old
                           [] char = "backquote" -> head
                           [] char = "quote" -> tail
      from[i \in 1..(n + 2)] ==
        IF i > n THEN <<>>
        ELSE IF content[i] = "$" /\ i < n /\ content[i + 1] \in Patterns
        THEN StandsFor(content[i + 1]) \o from[i + 2]
        ELSE <<content[i]>> \o from[i + 1]
  IN from[1]

\* A slip that a run must notice: replaceAll's last place, not replace's first.
FirstOf_Last(places) == CHOOSE i \in places : \A j \in places : i >= j

FirstOf(places) == CHOOSE i \in places : \A j \in places : i <= j

\* The branch for oldContent and content: the first occurrence is replaced.
ReplaceOld(before, old, content) ==
  LET found == Occurrences(before, old)
      at    == FirstOf(found)
      head  == SubSeq(before, 1, at - 1)
      tail  == SubSeq(before, at + Len(old), Len(before))
  IN IF found = {} THEN Error("old_content_mismatch")
     ELSE Written(head \o Expanded(content, old, head, tail) \o tail)

\* The arguments of edit_file; NoArg where one is missing.
Optional(values) == {NoArg} \cup values
EditArgs ==
  [content : Optional(Texts), old : Optional(Texts),
   start : Optional(Int), end : Optional(Int), replacement : Optional(Texts)]

\* A range is asked for by all of its arguments, and goes before what else is given.
RangeGiven(args) == args.start # NoArg /\ args.end # NoArg /\ args.replacement # NoArg

EditFile(before, args) ==
  IF RangeGiven(args)
  THEN ReplaceRange(before, args.start, args.end, args.replacement)
  ELSE IF args.old # NoArg /\ args.content # NoArg
  THEN ReplaceOld(before, args.old, args.content)
  ELSE IF args.content # NoArg
  THEN Written(args.content)
  ELSE Error("invalid_argument")

WholeOrOld(content, old) ==
  [content |-> content, old |-> old, start |-> NoArg, end |-> NoArg, replacement |-> NoArg]

---------------------------------------------------------------------------
\* A text whose lines all end in LF: each CR that is in front of one is left out.
Unix(text) ==
  LET kept == SetToSortSeq({i \in DOMAIN text :
                 ~(text[i] = CR /\ i < Len(text) /\ text[i + 1] = LF)}, <)
  IN [k \in DOMAIN kept |-> text[kept[k]]]

EndsOf(text) == {i \in DOMAIN text : text[i] = LF}

\* Where the n-th line of a text ends; before everything for n = 0.
EndOf(text, n) == SetToSortSeq({0} \cup EndsOf(text), <)[n + 1]

\* A line-range edit puts the replacement between what is up to the end of the line before
\* the range and what is after the end of its last line, whatever the bounds asked for
\* (startLine and endLine of editFileSafe count from 1, endLine included).  Nothing else
\* changes but how lines end: all of the file's, in the range or not, end in LF.
RangeKeepsTheRest(before, args) ==
  LET result == EditFile(before, args) IN
  result.ok /\ RangeGiven(args) =>
    LET first == LargerOf(1, args.start)
        last  == LargerOf(first, args.end)
        more  == last <= Cardinality(EndsOf(before))
    IN result.text =
         Unix(SubSeq(before, 1, EndOf(before, first - 1)))
         \o Unix(args.replacement)
         \o (IF more THEN <<LF>> \o Unix(SubSeq(before, EndOf(before, last) + 1, Len(before))) ELSE <<>>)

\* An oldContent edit changes one place only, the first where oldContent occurs: cutting
\* out what was inserted and putting oldContent back restores the text, and what was
\* inserted is the content as it was given, unless a "$" is in it.
ReplaceIsUndoable(before, args) ==
  LET result == EditFile(before, args) IN
  result.ok /\ args.old # NoArg /\ ~RangeGiven(args) =>
    \E at \in Occurrences(before, args.old) :
      LET grown == Len(result.text) - Len(before) + Len(args.old)
      IN /\ \A j \in Occurrences(before, args.old) : at <= j
         /\ before = SubSeq(result.text, 1, at - 1) \o args.old
                     \o SubSeq(result.text, at + grown, Len(result.text))
         /\ (\A i \in DOMAIN args.content : args.content[i] # "$") =>
              SubSeq(result.text, at, at + grown - 1) = args.content
=============================================================================
