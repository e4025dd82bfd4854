----------------------------- MODULE ChatLayout -----------------------------
(***************************************************************************)
(* Where WM_PAINT of the chat control puts things.  A list is a sequence   *)
(* of messages with author and height of the text; heights are pixels.     *)
(* The first message of an author in a row has the picture and the name.   *)
(***************************************************************************)
EXTENDS Naturals, Sequences

UsernameFieldHeight == 15
PfpSize == 40

\* The height of a line of text in the message font, and of two.
Lines == {0, 13, 26}

IsStartMsg(list, i) == i = 1 \/ list[i].author # list[i - 1].author

\* It is followed by others of its author, which fill the room of the picture.
PushBack(list, i) ==
  IsStartMsg(list, i) /\ i < Len(list) /\ ~IsStartMsg(list, i + 1)

\* Variant: no room is left for the picture.
TotalMessageHeight_NoMinimum(list, i) ==
  LET text == list[i].text
  IN  IF IsStartMsg(list, i) THEN UsernameFieldHeight + text + 6 ELSE text

TotalMessageHeight(list, i) ==
  LET named == UsernameFieldHeight + list[i].text
  IN  IF ~IsStartMsg(list, i) THEN list[i].text
      ELSE IF PushBack(list, i) THEN named
      ELSE (IF named > PfpSize THEN named ELSE PfpSize) + 6

\* msgrect.top of a message; behind the last one it is contentHeight.
Top(list, i) ==
  LET top[k \in 1..(Len(list) + 1)] ==
        IF k = 1 THEN 0 ELSE top[k - 1] + TotalMessageHeight(list, k - 1)
  IN  top[i]

ContentHeight(list) == Top(list, Len(list) + 1)

-----------------------------------------------------------------------------
Starts(list) == {i \in 1..Len(list) : IsStartMsg(list, i)}

\* Where the messages of the row that i starts end.
RowEnd(list, i) ==
  CHOOSE j \in i..Len(list) :
    /\ \A k \in (i + 1)..j : ~IsStartMsg(list, k)
    /\ j = Len(list) \/ IsStartMsg(list, j + 1)

\* No picture reaches into the next one or beyond the end of the content,
\* except above a row of several messages one of which has no text.
PicturesApart(list) ==
  \A i \in Starts(list) :
    \/ Top(list, RowEnd(list, i) + 1) >= Top(list, i) + PfpSize
    \/ RowEnd(list, i) > i /\ \E k \in i..RowEnd(list, i) : list[k].text = 0
=============================================================================
