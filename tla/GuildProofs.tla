---------------------------- MODULE GuildProofs ----------------------------
(***************************************************************************)
(* Proofs about GuildList, for any guilds, any number of read states and   *)
(* any height of the window; and, from "The channel tree" on, about        *)
(* ChannelTree, for any guilds and any number of channels and of clicks.   *)
(***************************************************************************)
EXTENDS GuildList, TreeShown, FiniteSetTheorems, TLAPS

RowType  == [id : Guilds \cup {Junk}, icon : BOOLEAN, MentionCount : Nat]
ReadType == [guild : Guilds \cup {Nobody}, n : 0..1]

-----------------------------------------------------------------------------
(* The inductive invariant.                                                 *)

UnderWay == {"grow", "realloc", "moving", "fill", "icon"}
Reading  == {"reads", "box", "mention", "done"}

\* Guilds that HandleREADY is through with, and rows that it has written.
Loaded  == Len(order) - left
Written == IF gpc = "icon" THEN Loaded + 1 ELSE Loaded

PhaseInv ==
  /\ gpc \in UnderWay => left > 0
  /\ gpc \in Reading => left = 0
  /\ gpc \notin Reading => nread = 0
  /\ gpc \in {"box", "mention"} => nread > 0 /\ Counts(nread)

\* The count is ahead of the array by one while the array is growing, and the
\* rows are the guilds in reverse; each guild has one row.
RowsInv ==
  /\ Distinct(order)
  /\ uigldcnt = Loaded + (IF gpc \in {"realloc", "moving", "fill", "icon"} THEN 1 ELSE 0)
  /\ Len(uiglds) = Loaded + (IF gpc \in {"fill", "icon"} THEN 1 ELSE 0)
  /\ \A i \in 1..Len(uiglds) :
       uiglds[i].id = IF i <= Written THEN order[Len(order) + 1 - i] ELSE Junk

TableInv ==
  DOMAIN table = {order[i] : i \in (IF gpc \in UnderWay THEN left ELSE left + 1)..Len(order)}

\* The mentions of the read state in the box are not in the table yet, and
\* those just added are not in the row yet.
Due(g) == IF gpc = "box" /\ reads[nread].guild = g THEN 1 ELSE 0

MentionsInv ==
  /\ \A g \in DOMAIN table : table[g] + Due(g) = Mentions(g)
  /\ \A i \in 1..Len(uiglds) :
       uiglds[i].id # Junk /\ ~(gpc = "mention" /\ reads[nread].guild = uiglds[i].id)
         => uiglds[i].MentionCount = table[uiglds[i].id]

\* What was drawn as a guild is still in the row it was drawn from.
ScreenInv ==
  /\ painting # 0 => painting = Len(screen.ids) + 1
  /\ \A i \in 1..Len(screen.ids) :
       screen.ids[i] # Junk => Filled(i) /\ screen.ids[i] = uiglds[i].id

SelectedInv ==
  ~wild /\ selIndex >= 0 => Filled(selIndex + 1) /\ selected = uiglds[selIndex + 1].id

LoaderInv == PhaseInv /\ RowsInv /\ TableInv /\ MentionsInv
WindowInv == ScreenInv /\ SelectedInv /\ ClickHitsPicture

Inv == TypeOK /\ LoaderInv /\ WindowInv

-----------------------------------------------------------------------------
(* Types.                                                                   *)

LEMMA RowAt ==
  ASSUME TypeOK, NEW i \in 1..Len(uiglds)
  PROVE  /\ uiglds[i] \in RowType
         /\ uiglds[i].id \in Guilds \cup {Junk} /\ uiglds[i].MentionCount \in Nat
<1>1. uiglds \in Seq(RowType)
  BY Zenon DEF TypeOK, RowType
<1>2. uiglds[i] \in RowType
  BY <1>1
<1> QED
  BY <1>2 DEF RowType

LEMMA ReadAt ==
  ASSUME TypeOK, NEW i \in 1..Len(reads)
  PROVE  /\ reads[i] \in ReadType
         /\ reads[i].guild \in Guilds \cup {Nobody} /\ reads[i].n \in 0..1
<1>1. reads \in Seq(ReadType)
  BY Zenon DEF TypeOK, ReadType
<1>2. reads[i] \in ReadType
  BY <1>1
<1> QED
  BY <1>2 DEF ReadType

LEMMA Lengths ==
  ASSUME TypeOK
  PROVE  /\ Len(order) \in Nat /\ Len(reads) \in Nat /\ Len(uiglds) \in Nat
         /\ left \in 0..Len(order) /\ nread \in 0..Len(reads) /\ Loaded \in Nat
         /\ Len(screen.ids) \in Nat
<1>1. screen.ids \in Seq(Guilds \cup {Junk})
  BY DEF TypeOK
<1> QED
  BY <1>1 DEF TypeOK, Loaded

\* A guild has one row, so a loop that stops at the first match finds it.
LEMMA OneRow ==
  ASSUME TypeOK, PhaseInv, RowsInv, NEW g \in Guilds, NEW i \in 1..Len(uiglds),
         uigldcnt = Len(uiglds)
  PROVE  uiglds[i].id = g <=> i \in FirstRow(g)
<1>1. Junk # g
  BY GuildsAssumption
<1>2. Len(order) \in Nat /\ Len(uiglds) \in Nat /\ Loaded \in Nat /\ left \in Nat /\ Written \in Nat
  BY Lengths DEF Written
<1>3. Written <= Len(order)
  BY Lengths DEF PhaseInv, UnderWay, Written, Loaded
<1>4. ASSUME NEW j \in 1..Len(uiglds), j < i, uiglds[i].id = g PROVE uiglds[j].id # g
  <2>1. i <= Written /\ j <= Written
    BY <1>1, <1>2, <1>4 DEF RowsInv
  <2>2. uiglds[i].id = order[Len(order) + 1 - i] /\ uiglds[j].id = order[Len(order) + 1 - j]
    BY <2>1 DEF RowsInv
  <2>3. /\ Len(order) + 1 - i \in 1..Len(order) /\ Len(order) + 1 - j \in 1..Len(order)
        /\ Len(order) + 1 - i # Len(order) + 1 - j
    BY <1>2, <1>3, <1>4, <2>1
  <2> QED
    BY <1>4, <2>2, <2>3 DEF RowsInv, Distinct
<1>5. \A j \in 1..(i - 1) : j \in 1..Len(uiglds) /\ j < i
  BY <1>2
<1> QED
  BY <1>4, <1>5 DEF FirstRow

-----------------------------------------------------------------------------
(* The window thread's part under the steps of the gateway thread.          *)

\* The rows that are written keep their guilds.
RowsStay ==
  \A i \in 1..Len(uiglds) :
    uiglds[i].id # Junk => i \in 1..Len(uiglds') /\ uiglds'[i].id = uiglds[i].id

LEMMA RowsStayKeepsWindow ==
  ASSUME Inv, RowsStay, TypeOK', UNCHANGED <<paint, scrollOffset, choice, wild>>
  PROVE  WindowInv'
<1>1. Len(uiglds) \in Nat /\ Len(uiglds') \in Nat /\ Len(screen.ids) \in Nat
  BY Lengths DEF Inv, TypeOK
<1>2. ASSUME NEW i \in Nat, i >= 1, Filled(i)
      PROVE  Filled(i)' /\ uiglds'[i].id = uiglds[i].id
  <2>1. i \in 1..Len(uiglds) /\ uiglds[i].id # Junk
    BY <1>1, <1>2 DEF Filled
  <2> QED
    BY <1>1, <2>1 DEF RowsStay, Filled
<1>3. ScreenInv'
  <2>1. screen' = screen /\ painting' = painting
    BY DEF paint
  <2>2. \A i \in 1..Len(screen.ids) : i \in Nat /\ i >= 1
    BY <1>1
  <2> QED
    BY <1>2, <2>1, <2>2 DEF Inv, WindowInv, ScreenInv
<1>4. SelectedInv'
  <2>1. selIndex' = selIndex /\ selected' = selected /\ wild' = wild
    BY DEF choice
  <2>2. selIndex >= 0 => selIndex + 1 \in Nat /\ selIndex + 1 >= 1
    BY DEF Inv, TypeOK
  <2> QED
    BY <1>2, <2>1, <2>2 DEF Inv, WindowInv, SelectedInv
<1>5. ClickHitsPicture'
  BY DEF Inv, WindowInv, ClickHitsPicture, choice
<1> QED
  BY <1>3, <1>4, <1>5 DEF WindowInv

-----------------------------------------------------------------------------
(* Facts about the rows, the table and the mentions.                        *)

LEMMA RowKnown ==
  ASSUME TypeOK, PhaseInv, RowsInv, TableInv, NEW i \in 1..Len(uiglds), uiglds[i].id # Junk
  PROVE  uiglds[i].id \in DOMAIN table /\ uiglds[i].id \in Guilds
<1>1. /\ Len(order) \in Nat /\ left \in 0..Len(order) /\ Len(uiglds) \in Nat
      /\ i <= Written /\ Written \in Nat
  BY Lengths DEF RowsInv, Written
<1>2. uiglds[i].id = order[Len(order) + 1 - i]
  BY <1>1 DEF RowsInv
<1>3. Len(order) + 1 - i \in (IF gpc \in UnderWay THEN left ELSE left + 1)..Len(order)
  BY <1>1 DEF Written, Loaded, UnderWay
<1> QED
  BY <1>2, <1>3, RowAt DEF TableInv

LEMMA MentionsAre ==
  ASSUME TypeOK, NEW g
  PROVE  /\ Mentions(g) \in Nat
         /\ nread = 0 => Mentions(g) = 0
<1> DEFINE M == {i \in 1..nread : reads[i].guild = g /\ reads[i].n > 0}
<1>1. nread \in Nat
  BY Lengths
<1>2. IsFiniteSet(1..nread)
  BY <1>1, FS_Interval
<1>3. Cardinality(M) \in Nat
  BY <1>2, FS_Subset, FS_CardinalityType
<1>4. nread = 0 => M = {}
  OBVIOUS
<1> QED
  BY <1>3, <1>4, FS_EmptySet DEF Mentions

LEMMA MentionsStay ==
  ASSUME UNCHANGED <<reads, nread>>, NEW g
  PROVE  Mentions(g)' = Mentions(g)
BY DEF Mentions

LEMMA MentionsNext ==
  ASSUME TypeOK, reads' = reads, nread < Len(reads), nread' = nread + 1, NEW g
  PROVE  Mentions(g)' = Mentions(g) + (IF reads[nread + 1].guild = g /\ reads[nread + 1].n > 0
                                       THEN 1 ELSE 0)
<1> DEFINE M == {i \in 1..nread : reads[i].guild = g /\ reads[i].n > 0}
           N == {i \in 1..(nread + 1) : reads[i].guild = g /\ reads[i].n > 0}
<1>1. nread \in Nat
  BY Lengths
<1>2. IsFiniteSet(M) /\ Cardinality(M) \in Nat
  <2>1. IsFiniteSet(1..nread) /\ M \subseteq 1..nread
    BY <1>1, FS_Interval
  <2> QED
    BY <2>1, FS_Subset, FS_CardinalityType
<1>3. Mentions(g) = Cardinality(M) /\ Mentions(g)' = Cardinality(N)
  BY DEF Mentions
<1>4. nread + 1 \notin M
  BY <1>1
<1>5. CASE reads[nread + 1].guild = g /\ reads[nread + 1].n > 0
  <2>1. N = M \cup {nread + 1}
    BY <1>1, <1>5
  <2> HIDE DEF M, N
  <2>2. Cardinality(N) = Cardinality(M) + 1
    BY <1>2, <1>4, <2>1, FS_AddElement
  <2> QED
    BY <1>3, <1>5, <2>2
<1>6. CASE ~(reads[nread + 1].guild = g /\ reads[nread + 1].n > 0)
  <2>1. N = M
    BY <1>1, <1>6
  <2> HIDE DEF M, N
  <2> QED
    BY <1>2, <1>3, <1>6, <2>1
<1> QED
  BY <1>5, <1>6

-----------------------------------------------------------------------------
(* The gateway thread's steps, guild by guild.                              *)

LEMMA LoadGuildKeeps ==
  ASSUME Inv, LoadGuild
  PROVE  TypeOK' /\ LoaderInv' /\ RowsStay
<1>1. /\ gpc = "guild" /\ left > 0 /\ gpc' = "grow"
      /\ table' = [g \in DOMAIN table \cup {order[left]} |->
                     IF g = order[left] THEN 0 ELSE table[g]]
      /\ UNCHANGED <<ready, left, nread, rows, paint, scrollOffset, choice, wild>>
  BY DEF LoadGuild
<1>2. UNCHANGED <<order, reads, uigldcnt, uiglds>>
  BY <1>1 DEF ready, rows
<1>3. TypeOK /\ PhaseInv /\ RowsInv /\ TableInv /\ MentionsInv
  BY DEF Inv, LoaderInv
<1>4. Len(order) \in Nat /\ left \in 1..Len(order) /\ order[left] \in Guilds
  BY <1>1, <1>3, Lengths DEF TypeOK
<1>5. TypeOK'
  <2>1. DOMAIN table' \subseteq Guilds /\ \A g \in DOMAIN table' : table'[g] \in Nat
    BY <1>1, <1>3, <1>4 DEF TypeOK
  <2> QED
    BY <1>1, <1>3, <2>1 DEF TypeOK, ready, rows, paint, choice
<1>6. PhaseInv'
  BY <1>1, <1>3 DEF PhaseInv, UnderWay, Reading
<1>7. RowsInv'
  BY <1>1, <1>2, <1>3 DEF RowsInv, Distinct, Written, Loaded
<1>8. TableInv'
  <2>1. DOMAIN table = {order[i] : i \in (left + 1)..Len(order)}
    BY <1>1, <1>3 DEF TableInv, UnderWay
  <2>2. left..Len(order) = {left} \cup (left + 1)..Len(order)
    BY <1>4
  <2>3. DOMAIN table' = {order[i] : i \in left..Len(order)}
    BY <1>1, <2>1, <2>2
  <2> QED
    BY <1>1, <1>2, <2>3 DEF TableInv, UnderWay
<1>9. MentionsInv'
  <2>1. nread = 0
    BY <1>1, <1>3 DEF PhaseInv, Reading
  <2>2. \A g : Mentions(g) = 0 /\ Mentions(g)' = 0
    BY <1>1, <1>2, <1>3, <2>1, MentionsAre, MentionsStay
  <2>3. \A g : Due(g) = 0 /\ Due(g)' = 0
    BY <1>1 DEF Due
  <2>4. \A g \in DOMAIN table : table[g] = 0
    BY <1>3, <2>2, <2>3 DEF MentionsInv, TypeOK
  <2>5. \A g \in DOMAIN table' : table'[g] = 0
    BY <1>1, <2>4
  <2>6. ASSUME NEW i \in 1..Len(uiglds), uiglds[i].id # Junk
        PROVE  uiglds[i].MentionCount = table'[uiglds[i].id]
    <3>1. uiglds[i].id \in DOMAIN table /\ uiglds[i].id \in DOMAIN table'
      BY <1>1, <1>3, <2>6, RowKnown
    <3>2. uiglds[i].MentionCount = table[uiglds[i].id]
      BY <1>1, <1>3, <2>6 DEF MentionsInv
    <3> QED
      BY <2>4, <2>5, <3>1, <3>2
  <2>7. \A g \in DOMAIN table' : table'[g] + Due(g)' = Mentions(g)'
    BY <2>2, <2>3, <2>5
  <2> QED
    BY <1>2, <2>6, <2>7 DEF MentionsInv
<1>10. RowsStay
  BY <1>2 DEF RowsStay
<1> QED
  BY <1>5, <1>6, <1>7, <1>8, <1>9, <1>10 DEF LoaderInv

LEMMA GrowKeeps ==
  ASSUME Inv, Grow
  PROVE  TypeOK' /\ LoaderInv' /\ RowsStay
<1>1. /\ gpc = "grow" /\ gpc' = "realloc" /\ uigldcnt' = uigldcnt + 1
      /\ UNCHANGED <<ready, left, nread, table, uiglds, paint, scrollOffset, choice, wild>>
  BY DEF Grow
<1>2. UNCHANGED <<order, reads>>
  BY <1>1 DEF ready
<1>3. TypeOK /\ PhaseInv /\ RowsInv /\ TableInv /\ MentionsInv
  BY DEF Inv, LoaderInv
<1>4. Len(order) \in Nat /\ left \in 1..Len(order)
  BY <1>1, <1>3, Lengths DEF PhaseInv, UnderWay
<1>5. uigldcnt = Len(order) - left
  BY <1>1, <1>3, <1>4 DEF RowsInv, Loaded
<1>6. TypeOK'
  <2>1. uigldcnt' \in 0..Len(order)
    BY <1>1, <1>4, <1>5
  <2> QED
    BY <1>1, <1>3, <2>1 DEF TypeOK, ready, paint, choice
<1>7. PhaseInv'
  BY <1>1, <1>3 DEF PhaseInv, UnderWay, Reading
<1>8. RowsInv'
  <2>1. uigldcnt' = Loaded + 1
    BY <1>1, <1>4, <1>5 DEF Loaded
  <2>2. Written' = Written /\ Loaded' = Loaded
    BY <1>1, <1>2 DEF Written, Loaded
  <2> QED
    BY <1>1, <1>2, <1>3, <2>1, <2>2 DEF RowsInv, Distinct
<1>9. TableInv'
  BY <1>1, <1>2, <1>3 DEF TableInv, UnderWay
<1>10. MentionsInv'
  BY <1>1, <1>2, <1>3 DEF MentionsInv, Due, Mentions
<1> QED
  BY <1>1, <1>6, <1>7, <1>8, <1>9, <1>10 DEF LoaderInv, RowsStay

LEMMA ReallocFreesKeeps ==
  ASSUME Inv, ReallocFrees
  PROVE  TypeOK' /\ LoaderInv' /\ RowsStay
<1>1. /\ gpc = "realloc" /\ gpc' = "moving"
      /\ UNCHANGED <<ready, left, nread, table, rows, paint, scrollOffset, choice, wild>>
  BY DEF ReallocFrees
<1>2. UNCHANGED <<order, reads, uigldcnt, uiglds>>
  BY <1>1 DEF ready, rows
<1>3. TypeOK /\ PhaseInv /\ RowsInv /\ TableInv /\ MentionsInv
  BY DEF Inv, LoaderInv
<1>4. TypeOK'
  BY <1>1, <1>2, <1>3 DEF TypeOK, paint, choice
<1>5. PhaseInv'
  BY <1>1, <1>3 DEF PhaseInv, UnderWay, Reading
<1>6. RowsInv'
  BY <1>1, <1>2, <1>3 DEF RowsInv, Distinct, Written, Loaded
<1>7. TableInv'
  BY <1>1, <1>2, <1>3 DEF TableInv, UnderWay
<1>8. MentionsInv'
  BY <1>1, <1>2, <1>3 DEF MentionsInv, Due, Mentions
<1> QED
  BY <1>2, <1>4, <1>5, <1>6, <1>7, <1>8 DEF LoaderInv, RowsStay

LEMMA ReallocAssignsKeeps ==
  ASSUME Inv, ReallocAssigns
  PROVE  TypeOK' /\ LoaderInv' /\ RowsStay
<1>1. /\ gpc = "moving" /\ gpc' = "fill" /\ uiglds' = Append(uiglds, Empty)
      /\ UNCHANGED <<ready, left, nread, table, uigldcnt, paint, scrollOffset, choice, wild>>
  BY DEF ReallocAssigns
<1>2. UNCHANGED <<order, reads>>
  BY <1>1 DEF ready
<1>3. TypeOK /\ PhaseInv /\ RowsInv /\ TableInv /\ MentionsInv
  BY DEF Inv, LoaderInv
<1>4. Empty \in RowType /\ Empty.id = Junk
  BY DEF Empty, RowType
<1>5. uiglds \in Seq(RowType)
  BY <1>3, Zenon DEF TypeOK, RowType
<1>6. /\ uiglds' \in Seq(RowType) /\ Len(uiglds) \in Nat
      /\ Len(uiglds') = Len(uiglds) + 1 /\ uiglds'[Len(uiglds) + 1] = Empty
      /\ \A i \in 1..Len(uiglds) : uiglds'[i] = uiglds[i]
  BY <1>1, <1>4, <1>5
<1>7. \A i \in 1..Len(uiglds') : i = Len(uiglds) + 1 \/ i \in 1..Len(uiglds)
  BY <1>6
<1>8. TypeOK'
  BY <1>1, <1>3, <1>6 DEF TypeOK, RowType, ready, paint, choice
<1>9. PhaseInv'
  BY <1>1, <1>3 DEF PhaseInv, UnderWay, Reading
<1>10. RowsInv'
  <2>1. Len(uiglds) = Loaded /\ Loaded \in Nat /\ Written = Loaded
    BY <1>1, <1>3, Lengths DEF RowsInv, Written
  <2>2. Written' = Written /\ Loaded' = Loaded
    BY <1>1, <1>2 DEF Written, Loaded
  <2>3. ASSUME NEW i \in 1..Len(uiglds')
        PROVE  uiglds'[i].id = IF i <= Written THEN order[Len(order) + 1 - i] ELSE Junk
    <3>1. CASE i = Len(uiglds) + 1
      <4>1. ~(i <= Written)
        BY <2>1, <3>1
      <4> QED
        BY <1>4, <1>6, <3>1, <4>1
    <3>2. CASE i # Len(uiglds) + 1
      BY <1>3, <1>6, <1>7, <3>2 DEF RowsInv
    <3> QED
      BY <3>1, <3>2
  <2>4. uigldcnt' = Loaded' + 1 /\ Len(uiglds') = Loaded' + 1
    BY <1>1, <1>3, <1>6, <2>1, <2>2 DEF RowsInv
  <2> QED
    BY <1>1, <1>2, <1>3, <2>2, <2>3, <2>4 DEF RowsInv, Distinct
<1>11. TableInv'
  BY <1>1, <1>2, <1>3 DEF TableInv, UnderWay
<1>12. MentionsInv'
  <2>1. \A g \in DOMAIN table' : table'[g] + Due(g)' = Mentions(g)'
    BY <1>1, <1>2, <1>3 DEF MentionsInv, Due, Mentions
  <2>2. \A i \in 1..Len(uiglds') : uiglds'[i].id # Junk =>
          uiglds'[i].MentionCount = table[uiglds'[i].id]
    BY <1>1, <1>3, <1>4, <1>6, <1>7 DEF MentionsInv
  <2> QED
    BY <1>1, <2>1, <2>2 DEF MentionsInv
<1>13. RowsStay
  BY <1>6 DEF RowsStay
<1> QED
  BY <1>8, <1>9, <1>10, <1>11, <1>12, <1>13 DEF LoaderInv

LEMMA FillKeeps ==
  ASSUME Inv, Fill
  PROVE  TypeOK' /\ LoaderInv' /\ RowsStay
<1> DEFINE g == order[left]
           n == Len(uiglds)
<1>1. /\ gpc = "fill" /\ uiglds' = [uiglds EXCEPT ![uigldcnt] = Row(g)]
      /\ gpc' = IF g \in WithIcon THEN "icon" ELSE "guild"
      /\ left' = IF g \in WithIcon THEN left ELSE left - 1
      /\ UNCHANGED <<ready, nread, table, uigldcnt, paint, scrollOffset, choice, wild>>
  BY DEF Fill, AfterInsert
<1>2. UNCHANGED <<order, reads>>
  BY <1>1 DEF ready
<1>3. TypeOK /\ PhaseInv /\ RowsInv /\ TableInv /\ MentionsInv
  BY DEF Inv, LoaderInv
<1>4. Len(order) \in Nat /\ left \in 1..Len(order) /\ g \in Guilds
  BY <1>1, <1>3, Lengths DEF PhaseInv, UnderWay, TypeOK
<1>5. /\ n \in Nat /\ n = Loaded + 1 /\ uigldcnt = n /\ Written = Loaded
      /\ Loaded = Len(order) - left
  BY <1>1, <1>3, Lengths DEF RowsInv, Written, Loaded
<1>6. Row(g) \in RowType /\ Row(g).id = g /\ Row(g).MentionCount = 0 /\ g # Junk
  BY <1>4, GuildsAssumption DEF Row, RowType
<1>7. uiglds \in Seq(RowType)
  BY <1>3, Zenon DEF TypeOK, RowType
<1>8. /\ uiglds' \in Seq(RowType) /\ Len(uiglds') = n /\ uiglds'[n] = Row(g)
      /\ \A i \in 1..n : i # n => uiglds'[i] = uiglds[i]
  BY <1>1, <1>4, <1>5, <1>6, <1>7
<1> HIDE DEF n
<1>9. left' \in 0..Len(order) /\ gpc' \in {"icon", "guild"}
  BY <1>1, <1>4
<1>10. TypeOK'
  BY <1>1, <1>2, <1>3, <1>8, <1>9 DEF TypeOK, RowType, ready, paint, choice
<1>11. PhaseInv'
  BY <1>1, <1>3, <1>4 DEF PhaseInv, UnderWay, Reading
<1>12. Loaded' \in Nat /\ Written' = Loaded + 1 /\ uigldcnt' = n
  BY <1>1, <1>2, <1>4, <1>5 DEF Written, Loaded
<1>13. RowsInv'
  <2>1. ASSUME NEW i \in 1..n
        PROVE  uiglds'[i].id = IF i <= Loaded + 1 THEN order[Len(order) + 1 - i] ELSE Junk
    <3>1. CASE i = n
      <4>1. Len(order) + 1 - i = left /\ i <= Loaded + 1
        BY <1>4, <1>5, <3>1
      <4> QED
        BY <1>6, <1>8, <3>1, <4>1
    <3>2. CASE i # n
      <4>1. i <= Loaded
        BY <1>4, <1>5, <3>2
      <4>2. i \in 1..Len(uiglds)
        BY DEF n
      <4>3. uiglds[i].id = order[Len(order) + 1 - i]
        BY <1>3, <1>5, <4>1, <4>2 DEF RowsInv
      <4>4. i <= Loaded + 1
        BY <1>4, <1>5, <4>1
      <4> QED
        BY <1>8, <3>2, <4>3, <4>4
    <3> QED
      BY <3>1, <3>2
  <2>2. uigldcnt' = Loaded' + (IF gpc' \in {"realloc", "moving", "fill", "icon"} THEN 1 ELSE 0)
    BY <1>1, <1>2, <1>4, <1>5, <1>12 DEF Loaded
  <2>3. Len(uiglds') = Loaded' + (IF gpc' \in {"fill", "icon"} THEN 1 ELSE 0)
    BY <1>1, <1>2, <1>4, <1>5, <1>8 DEF Loaded
  <2> QED
    BY <1>2, <1>3, <1>8, <1>12, <2>1, <2>2, <2>3 DEF RowsInv, Distinct
<1>14. TableInv'
  <2>1. (IF gpc' \in UnderWay THEN left' ELSE left' + 1) = left
    BY <1>1, <1>4 DEF UnderWay
  <2>2. (IF gpc \in UnderWay THEN left ELSE left + 1) = left
    BY <1>1 DEF UnderWay
  <2> QED
    BY <1>1, <1>2, <1>3, <2>1, <2>2 DEF TableInv
<1>15. MentionsInv'
  <2>1. \A h \in DOMAIN table' : table'[h] + Due(h)' = Mentions(h)'
    <3>1. \A h : Due(h) = 0 /\ Due(h)' = 0
      BY <1>1 DEF Due
    <3> QED
      BY <1>1, <1>2, <1>3, <3>1, MentionsStay DEF MentionsInv
  <2>2. g \in DOMAIN table /\ table[g] = 0
    <3>1. g \in DOMAIN table
      BY <1>1, <1>3, <1>4 DEF TableInv, UnderWay
    <3>2. nread = 0 /\ Due(g) = 0
      BY <1>1, <1>3 DEF PhaseInv, Reading, Due
    <3>3. table[g] + Due(g) = 0
      BY <1>3, <3>1, <3>2, MentionsAre DEF MentionsInv
    <3> QED
      BY <1>3, <3>1, <3>2, <3>3 DEF TypeOK
  <2>3. ASSUME NEW i \in 1..n, uiglds'[i].id # Junk
        PROVE  uiglds'[i].MentionCount = table[uiglds'[i].id]
    <3>1. CASE i = n
      BY <1>6, <1>8, <2>2, <3>1
    <3>2. CASE i # n
      BY <1>1, <1>3, <1>8, <2>3, <3>2 DEF MentionsInv, n
    <3> QED
      BY <3>1, <3>2
  <2> QED
    BY <1>1, <1>8, <2>1, <2>3 DEF MentionsInv
<1>16. RowsStay
  <2>1. ASSUME NEW i \in 1..n, uiglds[i].id # Junk
        PROVE  i # n
    <3>1. ~(n <= Written)
      BY <1>4, <1>5
    <3>2. uiglds[n].id = Junk
      <4>1. n \in 1..Len(uiglds)
        BY <1>4, <1>5 DEF n
      <4> QED
        BY <1>3, <3>1, <4>1 DEF RowsInv
    <3> QED
      BY <2>1, <3>2
  <2> QED
    BY <1>8, <2>1 DEF RowsStay, n
<1> QED
  BY <1>10, <1>11, <1>13, <1>14, <1>15, <1>16 DEF LoaderInv


LEMMA SetIconKeeps ==
  ASSUME Inv, SetIcon
  PROVE  TypeOK' /\ LoaderInv' /\ RowsStay
<1> DEFINE n == Len(uiglds)
<1>1. /\ gpc = "icon" /\ gpc' = "guild" /\ left' = left - 1
      /\ uiglds' = [i \in 1..n |->
                      IF i \in FirstRow(order[left]) THEN [uiglds[i] EXCEPT !.icon = TRUE]
                      ELSE uiglds[i]]
      /\ UNCHANGED <<ready, nread, table, uigldcnt, paint, scrollOffset, choice, wild>>
  BY DEF SetIcon
<1>2. UNCHANGED <<order, reads>>
  BY <1>1 DEF ready
<1>3. TypeOK /\ PhaseInv /\ RowsInv /\ TableInv /\ MentionsInv
  BY DEF Inv, LoaderInv
<1>4. Len(order) \in Nat /\ left \in 1..Len(order)
  BY <1>1, <1>3, Lengths DEF PhaseInv, UnderWay
<1>5. n \in Nat /\ Loaded = Len(order) - left /\ n = Loaded + 1 /\ uigldcnt = n /\ Written = n
  BY <1>1, <1>3, Lengths DEF RowsInv, Written, Loaded
<1>6. \A i \in 1..n : uiglds[i] \in RowType
  BY <1>3, RowAt
<1>7. ASSUME NEW i \in 1..n
      PROVE  /\ uiglds'[i] \in RowType /\ uiglds'[i].id = uiglds[i].id
             /\ uiglds'[i].MentionCount = uiglds[i].MentionCount
  <2>1. CASE i \in FirstRow(order[left])
    <3>1. uiglds'[i] = [uiglds[i] EXCEPT !.icon = TRUE]
      BY <1>1, <2>1
    <3> QED
      BY <1>6, <3>1 DEF RowType
  <2>2. CASE i \notin FirstRow(order[left])
    BY <1>1, <1>6, <2>2
  <2> QED
    BY <2>1, <2>2
<1>8. uiglds' \in Seq(RowType) /\ Len(uiglds') = n
  <2>1. uiglds' = [i \in 1..n |-> uiglds'[i]]
    BY <1>1
  <2> HIDE DEF n
  <2>2. uiglds' \in [1..n -> RowType]
    BY <1>7, <2>1
  <2> QED
    BY <1>5, <2>2
<1> HIDE DEF n
<1>9. TypeOK'
  BY <1>1, <1>2, <1>3, <1>4, <1>8 DEF TypeOK, RowType, ready, paint, choice
<1>10. PhaseInv'
  BY <1>1, <1>3, <1>4 DEF PhaseInv, UnderWay, Reading
<1>11. RowsInv'
  <2>1. Loaded' = n /\ Written' = n /\ uigldcnt' = n
    BY <1>1, <1>2, <1>4, <1>5 DEF Loaded, Written
  <2>2. \A i \in 1..n : uiglds'[i].id = order[Len(order) + 1 - i]
    BY <1>3, <1>5, <1>7 DEF RowsInv, n
  <2> QED
    BY <1>1, <1>2, <1>3, <1>5, <1>8, <2>1, <2>2 DEF RowsInv, Distinct
<1>12. TableInv'
  <2>1. (IF gpc' \in UnderWay THEN left' ELSE left' + 1) = left
    BY <1>1, <1>4 DEF UnderWay
  <2>2. (IF gpc \in UnderWay THEN left ELSE left + 1) = left
    BY <1>1 DEF UnderWay
  <2> QED
    BY <1>1, <1>2, <1>3, <2>1, <2>2 DEF TableInv
<1>13. MentionsInv'
  <2>1. \A h \in DOMAIN table' : table'[h] + Due(h)' = Mentions(h)'
    <3>1. \A h : Due(h) = 0 /\ Due(h)' = 0
      BY <1>1 DEF Due
    <3> QED
      BY <1>1, <1>2, <1>3, <3>1, MentionsStay DEF MentionsInv
  <2>2. \A i \in 1..n : uiglds'[i].id # Junk =>
          uiglds'[i].MentionCount = table[uiglds'[i].id]
    BY <1>1, <1>3, <1>7 DEF MentionsInv, n
  <2> QED
    BY <1>1, <1>8, <2>1, <2>2 DEF MentionsInv
<1>14. RowsStay
  BY <1>7, <1>8 DEF RowsStay, n
<1> QED
  BY <1>9, <1>10, <1>11, <1>12, <1>13, <1>14 DEF LoaderInv

\* From the last guild to the first read state, and past the last one.
LEMMA PhaseStepKeeps ==
  ASSUME Inv, GuildsDone \/ ReadsDone
  PROVE  TypeOK' /\ LoaderInv' /\ RowsStay
<1>1. /\ \/ gpc = "guild" /\ left = 0 /\ gpc' = "reads"
         \/ gpc = "reads" /\ gpc' = "done"
      /\ UNCHANGED <<ready, left, nread, table, rows, paint, scrollOffset, choice, wild>>
  BY DEF GuildsDone, ReadsDone
<1>2. UNCHANGED <<order, reads, uigldcnt, uiglds>>
  BY <1>1 DEF ready, rows
<1>3. TypeOK /\ PhaseInv /\ RowsInv /\ TableInv /\ MentionsInv
  BY DEF Inv, LoaderInv
<1>4. TypeOK'
  BY <1>1, <1>2, <1>3 DEF TypeOK, paint, choice
<1>5. PhaseInv'
  BY <1>1, <1>2, <1>3 DEF PhaseInv, UnderWay, Reading
<1>6. RowsInv'
  BY <1>1, <1>2, <1>3 DEF RowsInv, Distinct, Written, Loaded
<1>7. TableInv'
  BY <1>1, <1>2, <1>3 DEF TableInv, UnderWay
<1>8. MentionsInv'
  BY <1>1, <1>2, <1>3 DEF MentionsInv, Due, Mentions
<1> QED
  BY <1>2, <1>4, <1>5, <1>6, <1>7, <1>8 DEF LoaderInv, RowsStay

-----------------------------------------------------------------------------
(* The read states.                                                         *)

LEMMA ReadStateKeeps ==
  ASSUME Inv, ReadState
  PROVE  TypeOK' /\ LoaderInv' /\ RowsStay
<1>1. /\ gpc = "reads" /\ nread < Len(reads) /\ nread' = nread + 1
      /\ gpc' = IF Counts(nread + 1) THEN "box" ELSE "reads"
      /\ UNCHANGED <<ready, left, table, rows, paint, scrollOffset, choice, wild>>
  BY DEF ReadState
<1>2. UNCHANGED <<order, reads, uigldcnt, uiglds>>
  BY <1>1 DEF ready, rows
<1>3. TypeOK /\ PhaseInv /\ RowsInv /\ TableInv /\ MentionsInv
  BY DEF Inv, LoaderInv
<1>4. nread \in Nat /\ nread' \in 1..Len(reads) /\ Len(reads) \in Nat
  BY <1>1, <1>3, Lengths
<1>5. gpc' = "box" \/ gpc' = "reads"
  BY <1>1
<1>6. TypeOK'
  <2>1. nread' \in 0..Len(reads')
    BY <1>2, <1>4
  <2> QED
    BY <1>1, <1>2, <1>3, <1>5, <2>1 DEF TypeOK, paint, choice
<1>7. PhaseInv'
  <2>1. left = 0
    BY <1>1, <1>3 DEF PhaseInv, Reading
  <2>2. gpc' = "box" => Counts(nread)'
    BY <1>1, <1>2 DEF Counts
  <2> QED
    BY <1>1, <1>4, <1>5, <2>1, <2>2 DEF PhaseInv, UnderWay, Reading
<1>8. RowsInv'
  BY <1>1, <1>2, <1>3, <1>5 DEF RowsInv, Distinct, Written, Loaded
<1>9. TableInv'
  BY <1>1, <1>2, <1>3, <1>5 DEF TableInv, UnderWay
<1>10. MentionsInv'
  <2>1. ASSUME NEW g \in DOMAIN table PROVE table[g] + Due(g)' = Mentions(g)'
    <3>1. table[g] = Mentions(g) /\ Mentions(g) \in Nat
      BY <1>1, <1>3, <2>1, MentionsAre DEF MentionsInv, Due, TypeOK
    <3>2. Mentions(g)' = Mentions(g) + (IF reads[nread'].guild = g /\ reads[nread'].n > 0 THEN 1 ELSE 0)
      BY <1>1, <1>2, <1>3, MentionsNext
    <3>3. Due(g)' = IF gpc' = "box" /\ reads[nread'].guild = g THEN 1 ELSE 0
      BY <1>2 DEF Due
    <3>4. reads[nread'].guild = g => (gpc' = "box" <=> reads[nread'].n > 0)
      BY <1>1, <2>1 DEF Counts
    <3> QED
      BY <3>1, <3>2, <3>3, <3>4
  <2>2. \A i \in 1..Len(uiglds) : uiglds[i].id # Junk =>
          uiglds[i].MentionCount = table[uiglds[i].id]
    BY <1>1, <1>3 DEF MentionsInv
  <2> QED
    BY <1>1, <1>2, <2>1, <2>2 DEF MentionsInv
<1> QED
  BY <1>2, <1>6, <1>7, <1>8, <1>9, <1>10 DEF LoaderInv, RowsStay

LEMMA AddMentionsKeeps ==
  ASSUME Inv, AddMentions
  PROVE  TypeOK' /\ LoaderInv' /\ RowsStay
<1> DEFINE r == reads[nread]
<1>1. /\ gpc = "box" /\ gpc' = "mention"
      /\ table' = [table EXCEPT ![r.guild] = @ + r.n]
      /\ UNCHANGED <<ready, left, nread, rows, paint, scrollOffset, choice, wild>>
  BY DEF AddMentions
<1>2. UNCHANGED <<order, reads, uigldcnt, uiglds>>
  BY <1>1 DEF ready, rows
<1>3. TypeOK /\ PhaseInv /\ RowsInv /\ TableInv /\ MentionsInv
  BY DEF Inv, LoaderInv
<1>4. nread \in 1..Len(reads) /\ Counts(nread)
  BY <1>1, <1>3, Lengths DEF PhaseInv
<1>5. r.n \in 0..1 /\ r.n > 0 /\ r.guild \in DOMAIN table
  BY <1>3, <1>4, ReadAt DEF Counts
<1>6. r.n = 1
  BY <1>5
<1>7. /\ DOMAIN table' = DOMAIN table
      /\ table'[r.guild] = table[r.guild] + 1
      /\ \A g \in DOMAIN table : g # r.guild => table'[g] = table[g]
  BY <1>1, <1>5, <1>6
<1>8. \A g \in DOMAIN table : table[g] \in Nat
  BY <1>3 DEF TypeOK
<1>9. TypeOK'
  <2>1. DOMAIN table' \subseteq Guilds /\ \A g \in DOMAIN table' : table'[g] \in Nat
    BY <1>3, <1>5, <1>7, <1>8 DEF TypeOK
  <2> QED
    BY <1>1, <1>2, <1>3, <2>1 DEF TypeOK, paint, choice
<1>10. PhaseInv'
  BY <1>1, <1>2, <1>3, <1>7 DEF PhaseInv, UnderWay, Reading, Counts
<1>11. RowsInv'
  BY <1>1, <1>2, <1>3 DEF RowsInv, Distinct, Written, Loaded
<1>12. TableInv'
  BY <1>1, <1>2, <1>3, <1>7 DEF TableInv, UnderWay
<1>13. MentionsInv'
  <2>1. ASSUME NEW g \in DOMAIN table PROVE table'[g] + Due(g)' = Mentions(g)'
    <3>1. table[g] + Due(g) = Mentions(g) /\ Due(g)' = 0 /\ Mentions(g)' = Mentions(g)
      BY <1>1, <1>2, <1>3, <2>1, MentionsStay DEF MentionsInv, Due
    <3>2. Due(g) = IF g = r.guild THEN 1 ELSE 0
      BY <1>1 DEF Due
    <3>3. table'[g] = table[g] + Due(g) /\ table'[g] \in Nat
      BY <1>7, <1>8, <2>1, <3>2
    <3> QED
      BY <3>1, <3>3
  <2>2. ASSUME NEW i \in 1..Len(uiglds), uiglds[i].id # Junk, uiglds[i].id # r.guild
        PROVE  uiglds[i].MentionCount = table'[uiglds[i].id]
    <3>1. uiglds[i].id \in DOMAIN table
      BY <1>3, <2>2, RowKnown
    <3>2. uiglds[i].MentionCount = table[uiglds[i].id]
      BY <1>1, <1>3, <2>2 DEF MentionsInv
    <3> QED
      BY <1>7, <2>2, <3>1, <3>2
  <2> QED
    BY <1>1, <1>2, <1>7, <2>1, <2>2 DEF MentionsInv
<1> QED
  BY <1>2, <1>9, <1>10, <1>11, <1>12, <1>13 DEF LoaderInv, RowsStay

LEMMA SetMentionCountKeeps ==
  ASSUME Inv, SetMentionCount
  PROVE  TypeOK' /\ LoaderInv' /\ RowsStay
<1> DEFINE n == Len(uiglds)
           g == reads[nread].guild
<1>1. /\ gpc = "mention" /\ gpc' = "reads"
      /\ uiglds' = [i \in 1..n |->
                      IF i \in FirstRow(g) THEN [uiglds[i] EXCEPT !.MentionCount = table[g]]
                      ELSE uiglds[i]]
      /\ UNCHANGED <<ready, left, nread, table, uigldcnt, paint, scrollOffset, choice, wild>>
  BY DEF SetMentionCount
<1>2. UNCHANGED <<order, reads>>
  BY <1>1 DEF ready
<1>3. TypeOK /\ PhaseInv /\ RowsInv /\ TableInv /\ MentionsInv
  BY DEF Inv, LoaderInv
<1>4. nread \in 1..Len(reads) /\ g \in DOMAIN table
  BY <1>1, <1>3, Lengths DEF PhaseInv, Counts
<1>5. g \in Guilds /\ table[g] \in Nat
  BY <1>3, <1>4 DEF TypeOK
<1>6. n \in Nat /\ uigldcnt = n
  BY <1>1, <1>3, Lengths DEF RowsInv
<1>7. \A i \in 1..n : uiglds[i] \in RowType
  BY <1>3, RowAt
<1>8. ASSUME NEW i \in 1..n
      PROVE  /\ uiglds'[i] \in RowType /\ uiglds'[i].id = uiglds[i].id
             /\ uiglds'[i].MentionCount = IF uiglds[i].id = g THEN table[g] ELSE uiglds[i].MentionCount
  <2>1. uiglds[i].id = g <=> i \in FirstRow(g)
    BY <1>3, <1>5, <1>6, OneRow
  <2>2. CASE i \in FirstRow(g)
    <3>1. uiglds'[i] = [uiglds[i] EXCEPT !.MentionCount = table[g]]
      BY <1>1, <2>2
    <3> QED
      BY <1>5, <1>7, <2>1, <2>2, <3>1 DEF RowType
  <2>3. CASE i \notin FirstRow(g)
    BY <1>1, <1>7, <2>1, <2>3
  <2> QED
    BY <2>2, <2>3
<1>9. uiglds' \in Seq(RowType) /\ Len(uiglds') = n
  <2>1. uiglds' = [i \in 1..n |-> uiglds'[i]]
    BY <1>1
  <2> HIDE DEF n
  <2>2. uiglds' \in [1..n -> RowType]
    BY <1>8, <2>1
  <2> QED
    BY <1>6, <2>2
<1> HIDE DEF n, g
<1>10. TypeOK'
  BY <1>1, <1>2, <1>3, <1>9 DEF TypeOK, RowType, ready, paint, choice
<1>11. PhaseInv'
  BY <1>1, <1>2, <1>3 DEF PhaseInv, UnderWay, Reading
<1>12. RowsInv'
  <2>1. Loaded' = Loaded /\ Written' = Written
    BY <1>1, <1>2 DEF Loaded, Written
  <2>2. \A i \in 1..n : uiglds'[i].id = uiglds[i].id
    BY <1>8
  <2> QED
    BY <1>1, <1>2, <1>3, <1>9, <2>1, <2>2 DEF RowsInv, Distinct, n
<1>13. TableInv'
  BY <1>1, <1>2, <1>3 DEF TableInv, UnderWay
<1>14. MentionsInv'
  <2>1. \A h \in DOMAIN table' : table'[h] + Due(h)' = Mentions(h)'
    <3>1. \A h : Due(h) = 0 /\ Due(h)' = 0
      BY <1>1 DEF Due
    <3> QED
      BY <1>1, <1>2, <1>3, <3>1, MentionsStay DEF MentionsInv
  <2>2. ASSUME NEW i \in 1..n, uiglds'[i].id # Junk
        PROVE  uiglds'[i].MentionCount = table[uiglds'[i].id]
    <3>1. CASE uiglds[i].id = g
      BY <1>8, <3>1
    <3>2. CASE uiglds[i].id # g
      BY <1>1, <1>3, <1>8, <2>2, <3>2 DEF MentionsInv, n, g
    <3> QED
      BY <3>1, <3>2
  <2> QED
    BY <1>1, <1>9, <2>1, <2>2 DEF MentionsInv
<1>15. RowsStay
  BY <1>8, <1>9 DEF RowsStay, n
<1> QED
  BY <1>10, <1>11, <1>12, <1>13, <1>14, <1>15 DEF LoaderInv

LEMMA ReadyKeepsInv ==
  ASSUME Inv, HandleREADY
  PROVE  Inv'
<1>1. TypeOK' /\ LoaderInv' /\ RowsStay
  BY LoadGuildKeeps, GrowKeeps, ReallocFreesKeeps, ReallocAssignsKeeps, FillKeeps, SetIconKeeps,
     PhaseStepKeeps,
     ReadStateKeeps, AddMentionsKeeps, SetMentionCountKeeps DEF HandleREADY
<1>2. UNCHANGED <<paint, scrollOffset, choice, wild>>
  BY DEF HandleREADY, LoadGuild, Grow, ReallocFrees, ReallocAssigns, Fill, AfterInsert, SetIcon, GuildsDone,
         ReadState, AddMentions, SetMentionCount, ReadsDone
<1>3. WindowInv'
  BY <1>1, <1>2, RowsStayKeepsWindow
<1> QED
  BY <1>1, <1>3 DEF Inv

-----------------------------------------------------------------------------
(* The window thread's steps.                                               *)

LEMMA WindowKeepsLoader ==
  ASSUME Inv, UNCHANGED <<ready, loader, rows>>
  PROVE  LoaderInv'
<1>1. UNCHANGED <<order, reads, gpc, left, nread, table, uigldcnt, uiglds>>
  BY DEF ready, loader, rows
<1>2. PhaseInv' /\ TableInv'
  BY <1>1 DEF Inv, LoaderInv, PhaseInv, Counts, TableInv
<1>3. RowsInv'
  BY <1>1 DEF Inv, LoaderInv, RowsInv, Distinct, Written, Loaded
<1>4. MentionsInv'
  BY <1>1 DEF Inv, LoaderInv, MentionsInv, Due, Mentions
<1> QED
  BY <1>2, <1>3, <1>4 DEF LoaderInv

LEMMA IdAtIs ==
  ASSUME TypeOK, NEW i \in Nat, i >= 1
  PROVE  /\ IdAt(i) \in Guilds \cup {Junk}
         /\ IdAt(i) # Junk => Filled(i) /\ IdAt(i) = uiglds[i].id
<1>1. Len(uiglds) \in Nat
  BY Lengths
<1>2. Filled(i) => i \in 1..Len(uiglds)
  BY <1>1 DEF Filled
<1>3. Filled(i) => uiglds[i].id \in Guilds \cup {Junk} /\ uiglds[i].id # Junk
  BY <1>2, RowAt DEF Filled
<1> QED
  BY <1>3 DEF IdAt, There

LEMMA PaintKeepsInv ==
  ASSUME Inv, PaintBegins \/ PaintRow \/ PaintEnds
  PROVE  Inv'
<1>1. UNCHANGED <<ready, loader, rows, scrollOffset, choice>>
  BY DEF PaintBegins, PaintRow, PaintEnds
<1>2. UNCHANGED <<order, reads, gpc, left, nread, table, uigldcnt, uiglds, selIndex, selected, hit>>
  BY <1>1 DEF ready, loader, rows, choice
<1>3. TypeOK /\ screen.ids \in Seq(Guilds \cup {Junk}) /\ Len(screen.ids) \in Nat
      /\ painting \in Nat /\ uigldcnt \in Nat
  BY Lengths DEF Inv, TypeOK
<1>4. LoaderInv'
  BY <1>1, WindowKeepsLoader
<1>5. wild => wild'
  BY DEF PaintBegins, PaintRow, PaintEnds
<1>6. SelectedInv' /\ ClickHitsPicture'
  BY <1>2, <1>5 DEF Inv, WindowInv, SelectedInv, ClickHitsPicture, Filled
<1>7. CASE PaintBegins
  <2>1. /\ painting' = 1 /\ screen' = [offset |-> scrollOffset, ids |-> <<>>]
        /\ wild' = wild /\ scrollMax' = scrollMax
    BY <1>7 DEF PaintBegins
  <2>2. screen'.ids = <<>>
    BY <2>1
  <2>3. ScreenInv'
    BY <2>1, <2>2 DEF ScreenInv
  <2>4. screen' \in [offset : Nat, ids : Seq(Guilds \cup {Junk})]
    BY <2>1, <1>3 DEF TypeOK
  <2>5. TypeOK'
    BY <1>1, <1>2, <1>3, <2>1, <2>4 DEF TypeOK
  <2> QED
    BY <1>4, <1>6, <2>3, <2>5 DEF Inv, WindowInv
<1>8. CASE PaintRow
  <2>1. /\ painting \in 1..uigldcnt /\ painting' = painting + 1
        /\ screen' = [screen EXCEPT !.ids = Append(@, IdAt(painting))]
        /\ wild' = (wild \/ ~There(painting)) /\ scrollMax' = scrollMax
    BY <1>8 DEF PaintRow
  <2>2. /\ IdAt(painting) \in Guilds \cup {Junk}
        /\ IdAt(painting) # Junk => Filled(painting) /\ IdAt(painting) = uiglds[painting].id
    BY <1>3, <2>1, IdAtIs
  <2>3. screen' \in [offset : Nat, ids : Seq(Guilds \cup {Junk})]
    <3>1. Append(screen.ids, IdAt(painting)) \in Seq(Guilds \cup {Junk})
      BY <1>3, <2>2
    <3>2. screen \in [offset : Nat, ids : Seq(Guilds \cup {Junk})]
      BY <1>3 DEF TypeOK
    <3> QED
      BY <2>1, <3>1, <3>2
  <2>4. screen'.ids = Append(screen.ids, IdAt(painting))
    BY <1>3, <2>1 DEF TypeOK
  <2>5. painting = Len(screen.ids) + 1
    BY <2>1 DEF Inv, WindowInv, ScreenInv
  <2>6. /\ Len(screen'.ids) = painting /\ screen'.ids[painting] = IdAt(painting)
        /\ \A i \in 1..Len(screen.ids) : screen'.ids[i] = screen.ids[i]
    BY <1>3, <2>2, <2>4, <2>5
  <2>7. \A i \in 1..painting : i = painting \/ i \in 1..Len(screen.ids)
    BY <1>3, <2>5
  <2>8. ScreenInv'
    <3>1. ASSUME NEW i \in 1..painting, screen'.ids[i] # Junk
          PROVE  Filled(i) /\ screen'.ids[i] = uiglds[i].id
      <4>1. CASE i = painting
        BY <2>2, <2>6, <3>1, <4>1
      <4>2. CASE i # painting
        BY <2>6, <2>7, <3>1, <4>2 DEF Inv, WindowInv, ScreenInv
      <4> QED
        BY <4>1, <4>2
    <3> QED
      BY <1>2, <2>1, <2>6, <3>1 DEF ScreenInv, Filled
  <2>9. wild' \in BOOLEAN
    BY <2>1
  <2>10. TypeOK'
    BY <1>1, <1>2, <1>3, <2>1, <2>3, <2>9 DEF TypeOK
  <2> QED
    BY <1>4, <1>6, <2>8, <2>10 DEF Inv, WindowInv
<1>9. CASE PaintEnds
  <2>1. /\ painting' = 0 /\ screen' = screen /\ wild' = wild
        /\ scrollMax' = uigldcnt * RowHeight + Dmregy
    BY <1>9 DEF PaintEnds
  <2>2. scrollMax' \in Nat
    BY <1>3, <2>1 DEF RowHeight, Dmregy, GuildSize
  <2>3. TypeOK'
    BY <1>1, <1>2, <1>3, <2>1, <2>2 DEF TypeOK
  <2>4. ScreenInv'
    BY <1>2, <2>1 DEF Inv, WindowInv, ScreenInv, Filled
  <2> QED
    BY <1>4, <1>6, <2>3, <2>4 DEF Inv, WindowInv
<1> QED
  BY <1>7, <1>8, <1>9

LEMMA ScrollKeepsInv ==
  ASSUME Inv, Scroll
  PROVE  Inv'
<1>1. UNCHANGED <<ready, loader, rows, paint, choice, wild>>
  BY DEF Scroll
<1>2. UNCHANGED <<order, reads, gpc, left, nread, table, uigldcnt, uiglds, painting, screen,
                  scrollMax, selIndex, selected, hit>>
  BY <1>1 DEF ready, loader, rows, paint, choice
<1>3. LoaderInv'
  BY <1>1, WindowKeepsLoader
<1>4. scrollOffset' \in Nat
  <2>1. ViewHeight \in Nat /\ scrollMax \in Nat /\ scrollOffset \in Nat
    BY BoundsAssumption DEF Inv, TypeOK
  <2>2. \A p \in Int : Clamp(p) \in Nat
    BY <2>1 DEF Clamp
  <2>3. PICK p \in ScrollTargets : scrollOffset' = Clamp(p)
    BY DEF Scroll
  <2>4. p \in Int
    <3>1. CASE p \in TrackYs
      BY <3>1, BoundsAssumption
    <3>2. CASE p \in {scrollOffset + by : by \in {-20, 20, -ViewHeight, ViewHeight}}
      <4>1. PICK by \in {-20, 20, -ViewHeight, ViewHeight} : p = scrollOffset + by
        BY <3>2
      <4>2. by \in Int
        BY <2>1, <4>1
      <4> QED
        BY <2>1, <4>1, <4>2
    <3> QED
      BY <3>1, <3>2 DEF ScrollTargets
  <2> QED
    BY <2>2, <2>3, <2>4
<1>5. TypeOK'
  BY <1>1, <1>2, <1>4 DEF Inv, TypeOK
<1>6. WindowInv'
  BY <1>1, <1>2 DEF Inv, WindowInv, ScreenInv, SelectedInv, ClickHitsPicture, Filled
<1> QED
  BY <1>3, <1>5, <1>6 DEF Inv

\* The row a click computes, from the pixels.
LEMMA HitIs ==
  ASSUME NEW cy \in Nat
  PROVE  /\ cy > Dmregy => HitIndex(cy) \in Nat
         /\ \A j \in Nat : RowHeight * j + Dmregy <= cy /\ cy < RowHeight * j + Dmregy + GuildSize
                             => HitIndex(cy) = j
BY DEF HitIndex, Dmregy, RowHeight, GuildSize

\* What was seen under the pointer is a drawn row, which is still there.
LEMMA SeenIsThere ==
  ASSUME Inv, NEW y \in Nat, NEW g \in SeenAt(y), screen.offset = scrollOffset, g # Junk
  PROVE  LET cy == y + scrollOffset
         IN  /\ cy >= Dmregy
             /\ HitIndex(cy) \in Nat
             /\ Filled(HitIndex(cy) + 1) /\ uiglds[HitIndex(cy) + 1].id = g
<1> DEFINE cy == y + scrollOffset
<1>1. PICK j \in 1..Len(screen.ids) :
        /\ g = screen.ids[j]
        /\ RowHeight * (j - 1) + Dmregy - screen.offset <= y
        /\ y < RowHeight * (j - 1) + Dmregy - screen.offset + GuildSize
  BY DEF SeenAt
<1>2. scrollOffset \in Nat /\ TypeOK /\ Len(screen.ids) \in Nat
  BY Lengths DEF Inv, TypeOK
<1>3. cy \in Nat /\ j - 1 \in Nat /\ j \in Nat /\ j >= 1
  BY <1>2
<1>4. RowHeight * (j - 1) + Dmregy <= cy /\ cy < RowHeight * (j - 1) + Dmregy + GuildSize
  <2>1. \A top, first, o, v, size \in Nat :
          top + first - o <= v /\ v < top + first - o + size
            => top + first <= v + o /\ v + o < top + first + size
    OBVIOUS
  <2>2. RowHeight * (j - 1) \in Nat /\ Dmregy \in Nat /\ GuildSize \in Nat
    BY <1>3 DEF RowHeight, Dmregy, GuildSize
  <2>3. PICK top \in Nat : top = RowHeight * (j - 1)
    BY <2>2
  <2>4. screen.offset = scrollOffset
    OBVIOUS
  <2>5. top + Dmregy - scrollOffset <= y /\ y < top + Dmregy - scrollOffset + GuildSize
    BY <1>1, <2>3, <2>4, Zenon
  <2>6. top + Dmregy <= y + scrollOffset /\ y + scrollOffset < top + Dmregy + GuildSize
    BY <1>2, <2>1, <2>2, <2>5
  <2> QED
    BY <2>3, <2>6, Zenon
<1>5. cy >= Dmregy
  BY <1>3, <1>4 DEF RowHeight, Dmregy, GuildSize
<1> HIDE DEF cy
<1>6. HitIndex(cy) = j - 1
  BY <1>3, <1>4, HitIs
<1>7. Filled(j) /\ g = uiglds[j].id
  BY <1>1 DEF Inv, WindowInv, ScreenInv
<1>8. HitIndex(cy) + 1 = j
  BY <1>3, <1>6
<1> QED
  BY <1>3, <1>5, <1>6, <1>7, <1>8 DEF cy

LEMMA ClickKeepsInv ==
  ASSUME Inv, NEW y \in ClickYs, Click(y)
  PROVE  Inv'
<1> DEFINE cy == y + scrollOffset
           Seen == screen.offset = scrollOffset /\ cy # Dmregy /\ SeenAt(y) # {}
           seen == IF Seen THEN CHOOSE g \in SeenAt(y) : TRUE ELSE Nobody
<1>1. UNCHANGED <<ready, loader, rows, paint, scrollOffset>>
  BY DEF Click
<1>2. UNCHANGED <<order, reads, gpc, left, nread, table, uigldcnt, uiglds, painting, screen, scrollMax>>
  BY <1>1 DEF ready, loader, rows, paint
<1>3. hit' = [seen |-> seen, got |-> selected']
  BY Zenon DEF Click
<1>4. TypeOK /\ y \in Nat /\ scrollOffset \in Nat /\ cy \in Nat /\ selIndex \in Int
      /\ selIndex >= -2 /\ selected \in Guilds \cup {Nobody, DMs, Junk}
  BY BoundsAssumption DEF Inv, TypeOK
<1>5. \/ cy < 8 + GuildSize /\ selIndex' = -1 /\ Notify(DMs)
      \/ cy > Dmregy /\ Clicked(cy, HitIndex(cy))
      \/ ~(cy > Dmregy) /\ UNCHANGED <<selIndex, selected, wild>>
  BY Zenon DEF Click
<1>6. wild => wild'
  BY <1>5, Zenon DEF Notify, Clicked
<1>7. wild' \in BOOLEAN
  <2>1. wild \in BOOLEAN
    BY DEF Inv, TypeOK
  <2> QED
    BY <1>5, <2>1, Zenon DEF Notify, Clicked
<1>8. cy > Dmregy => HitIndex(cy) \in Nat
  BY <1>4, HitIs
<1>9. ASSUME Seen, seen # Junk
      PROVE  /\ cy > Dmregy /\ ~(cy < 8 + GuildSize)
             /\ Filled(HitIndex(cy) + 1) /\ uiglds[HitIndex(cy) + 1].id = seen
  <2>1. seen \in SeenAt(y)
    BY <1>9, Zenon
  <2>2. /\ cy >= Dmregy /\ Filled(HitIndex(cy) + 1) /\ uiglds[HitIndex(cy) + 1].id = seen
    BY <1>4, <1>9, <2>1, SeenIsThere
  <2> HIDE DEF seen
  <2>3. cy > Dmregy /\ ~(cy < 8 + GuildSize)
    BY <1>4, <1>9, <2>2 DEF Dmregy, GuildSize
  <2> QED
    BY <2>2, <2>3
<1>10. seen \in Guilds \cup {Nobody, Junk}
  <2>1. CASE Seen
    <3>1. seen \in SeenAt(y)
      BY <2>1, Zenon
    <3>2. PICK j \in 1..Len(screen.ids) : seen = screen.ids[j]
      BY <3>1, Zenon DEF SeenAt
    <3>3. screen.ids \in Seq(Guilds \cup {Junk})
      BY <1>4 DEF TypeOK
    <3> QED
      BY <3>2, <3>3
  <2>2. CASE ~Seen
    BY <2>2, Zenon
  <2> QED
    BY <2>1, <2>2
<1>11. ~Seen => seen = Nobody
  BY Zenon
<1> HIDE DEF seen, Seen, cy
<1>12. /\ selIndex' \in Int /\ selIndex' >= -2
       /\ selected' \in Guilds \cup {Nobody, DMs, Junk}
       /\ SelectedInv'
  <2>1. CASE cy < 8 + GuildSize /\ selIndex' = -1 /\ Notify(DMs)
    BY <2>1 DEF Notify, SelectedInv
  <2>2. CASE cy > Dmregy /\ Clicked(cy, HitIndex(cy))
    <3>1. HitIndex(cy) \in Nat /\ selIndex' = HitIndex(cy)
      BY <1>8, <2>2 DEF Clicked
    <3>2. CASE HitIndex(cy) = selIndex
      <4>1. selIndex' = selIndex /\ selected' = selected /\ wild' = wild
        BY <2>2, <3>2 DEF Clicked
      <4> QED
        BY <1>2, <1>4, <3>1, <4>1 DEF Inv, WindowInv, SelectedInv, Filled
    <3>3. CASE HitIndex(cy) # selIndex
      <4>1. Notify(IdAt(selIndex' + 1))
        BY <2>2, <3>1, <3>3, Zenon DEF Clicked
      <4>2. selected' = IdAt(selIndex' + 1)
        BY <4>1 DEF Notify
      <4>3. ~wild' => IdAt(selIndex' + 1) # Junk
        BY <4>1, Zenon DEF Notify
      <4>4. /\ IdAt(selIndex' + 1) \in Guilds \cup {Junk}
            /\ IdAt(selIndex' + 1) # Junk =>
                 Filled(selIndex' + 1) /\ IdAt(selIndex' + 1) = uiglds[selIndex' + 1].id
        <5>1. selIndex' + 1 \in Nat /\ selIndex' + 1 >= 1
          BY <3>1
        <5> QED
          BY <1>4, <5>1, IdAtIs
      <4>5. SelectedInv'
        BY <1>2, <4>2, <4>3, <4>4 DEF SelectedInv, Filled
      <4> QED
        BY <3>1, <4>2, <4>4, <4>5
    <3> QED
      BY <3>2, <3>3
  <2>3. CASE UNCHANGED <<selIndex, selected, wild>>
    BY <1>2, <1>4, <2>3 DEF Inv, WindowInv, SelectedInv, Filled
  <2> QED
    BY <1>5, <2>1, <2>2, <2>3
<1>13. ClickHitsPicture'
  <2> SUFFICES ASSUME ~wild', seen \notin {Nobody, Junk}
               PROVE  selected' = seen
    BY <1>3 DEF ClickHitsPicture
  <2>1. cy > Dmregy /\ Filled(HitIndex(cy) + 1) /\ uiglds[HitIndex(cy) + 1].id = seen
        /\ ~(cy < 8 + GuildSize)
    BY <1>9, <1>11
  <2>2. Clicked(cy, HitIndex(cy))
    BY <1>5, <2>1, Zenon
  <2>3. CASE HitIndex(cy) = selIndex
    <3>1. selected' = selected /\ ~wild
      BY <1>6, <2>2, <2>3, Zenon DEF Clicked
    <3>2. selIndex >= 0
      BY <1>8, <2>1, <2>3
    <3>3. selected = uiglds[selIndex + 1].id
      BY <3>1, <3>2 DEF Inv, WindowInv, SelectedInv
    <3> QED
      BY <2>1, <2>3, <3>1, <3>3
  <2>4. CASE HitIndex(cy) # selIndex
    <3>1. Notify(IdAt(HitIndex(cy) + 1))
      BY <2>2, <2>4, Zenon DEF Clicked
    <3>2. selected' = IdAt(HitIndex(cy) + 1) /\ IdAt(HitIndex(cy) + 1) # Junk
      BY <3>1, Zenon DEF Notify
    <3>3. HitIndex(cy) + 1 \in Nat /\ HitIndex(cy) + 1 >= 1
      BY <1>8, <2>1
    <3>4. IdAt(HitIndex(cy) + 1) = uiglds[HitIndex(cy) + 1].id
      BY <1>4, <3>2, <3>3, IdAtIs
    <3> QED
      BY <2>1, <3>2, <3>4
  <2> QED
    BY <2>3, <2>4
<1>14. TypeOK'
  <2>1. hit' \in [seen : Guilds \cup {Nobody, Junk}, got : Guilds \cup {Nobody, DMs, Junk}]
    BY <1>3, <1>10, <1>12
  <2> QED
    BY <1>1, <1>2, <1>4, <1>7, <1>12, <2>1 DEF TypeOK
<1>15. ScreenInv'
  BY <1>2 DEF Inv, WindowInv, ScreenInv, Filled
<1>16. LoaderInv'
  BY <1>1, WindowKeepsLoader
<1> QED
  BY <1>12, <1>13, <1>14, <1>15, <1>16 DEF Inv, WindowInv

-----------------------------------------------------------------------------
(* The theorems.                                                            *)

LEMMA InitInv == Init => Inv
<1> SUFFICES ASSUME Init PROVE Inv
  OBVIOUS
<1>1. PICK n \in 0..Cardinality(Guilds) : order \in {s \in [1..n -> Guilds] : Distinct(s)}
  BY DEF Init
<1>2. PICK m \in 0..MaxReads : reads \in [1..m -> [guild : Guilds \cup {Nobody}, n : 0..1]]
  BY DEF Init
<1>3. n \in Nat /\ m \in Nat
  OBVIOUS
<1>4. order \in Seq(Guilds) /\ Distinct(order)
  BY <1>1, <1>3
<1>5. reads \in Seq([guild : Guilds \cup {Nobody}, n : 0..1])
  <2>1. reads \in [1..m -> ReadType]
    BY <1>2, Zenon DEF ReadType
  <2>2. reads \in Seq(ReadType)
    BY <1>3, <2>1
  <2> QED
    BY <2>2, Zenon DEF ReadType
<1>6. /\ gpc = "guild" /\ left = Len(order) /\ nread = 0 /\ table = <<>>
      /\ uigldcnt = 0 /\ uiglds = <<>>
      /\ painting = 0 /\ screen = [offset |-> 0, ids |-> <<>>] /\ scrollMax = 0
      /\ scrollOffset = 0
      /\ selIndex = -2 /\ selected = Nobody
      /\ hit = [seen |-> Nobody, got |-> Nobody] /\ wild = FALSE
  BY DEF Init
<1>7. Len(order) \in Nat /\ Len(reads) \in Nat
  BY <1>4, <1>5
<1>8. TypeOK
  <2>1. screen \in [offset : Nat, ids : Seq(Guilds \cup {Junk})]
    BY <1>6
  <2>2. uiglds \in Seq([id : Guilds \cup {Junk}, icon : BOOLEAN, MentionCount : Nat])
    BY <1>6
  <2>3. DOMAIN table = {}
    BY <1>6
  <2>4. wild \in BOOLEAN
    BY <1>6
  <2> QED
    BY <1>4, <1>5, <1>6, <1>7, <2>1, <2>2, <2>3, <2>4 DEF TypeOK
<1>9. PhaseInv
  BY <1>6 DEF PhaseInv, UnderWay, Reading
<1>10. RowsInv
  BY <1>4, <1>6, <1>7 DEF RowsInv, Loaded, Written
<1>11. TableInv
  <2>1. DOMAIN table = {} /\ (left + 1)..Len(order) = {}
    BY <1>6, <1>7
  <2> QED
    BY <1>6, <2>1 DEF TableInv, UnderWay
<1>12. MentionsInv
  BY <1>6 DEF MentionsInv
<1>13. ScreenInv
  BY <1>6 DEF ScreenInv
<1>14. SelectedInv /\ ClickHitsPicture
  BY <1>6 DEF SelectedInv, ClickHitsPicture
<1> QED
  BY <1>8, <1>9, <1>10, <1>11, <1>12, <1>13, <1>14 DEF Inv, LoaderInv, WindowInv

LEMMA StepInv == Inv /\ [Next]_vars => Inv'
<1> SUFFICES ASSUME Inv, [Next]_vars PROVE Inv'
  OBVIOUS
<1>1. CASE HandleREADY
  BY <1>1, ReadyKeepsInv
<1>2. CASE GuildWndProc
  BY <1>2, PaintKeepsInv, ScrollKeepsInv, ClickKeepsInv DEF GuildWndProc
<1>3. CASE UNCHANGED vars
  <2>1. UNCHANGED <<ready, loader, rows, paint, scrollOffset, choice, wild>>
    BY <1>3 DEF vars
  <2>2. UNCHANGED <<order, reads, gpc, left, nread, table, uigldcnt, uiglds, painting, screen,
                    scrollMax, selIndex, selected, hit>>
    BY <2>1 DEF ready, loader, rows, paint, choice
  <2>3. LoaderInv'
    BY <2>1, WindowKeepsLoader
  <2>4. TypeOK'
    BY <2>1, <2>2 DEF Inv, TypeOK
  <2>5. WindowInv'
    BY <2>1, <2>2 DEF Inv, WindowInv, ScreenInv, SelectedInv, ClickHitsPicture, Filled
  <2> QED
    BY <2>3, <2>4, <2>5 DEF Inv
<1> QED
  BY <1>1, <1>2, <1>3 DEF Next

LEMMA InvHolds == Spec => []Inv
BY InitInv, StepInv, PTL DEF Spec

\* Types: the count, the array and the table keep theirs, whatever the
\* interleaving of HandleREADY with the window.
THEOREM TypeCorrect == Spec => []TypeOK
<1>1. Inv => TypeOK
  BY DEF Inv
<1> QED
  BY InvHolds, <1>1, PTL

\* As long as no row was used before it was written, past the end or while the
\* array moved, the guild the main window shows is the one whose row is
\* highlighted: rows are only added below it, and never rewritten with another
\* guild.
THEOREM SelectionKept == Spec => []SelectionAgrees
<1>1. Inv => SelectionAgrees
  BY DEF Inv, WindowInv, SelectedInv, SelectionAgrees
<1> QED
  BY InvHolds, <1>1, PTL

\* A click on a picture selects the guild it shows, as long as no row was used
\* that is not there: HitIndex inverts the layout of WM_PAINT at every position
\* that lines, pages or the thumb scroll to, and for every height.
THEOREM ClicksHit == Spec => []ClickHitsPicture
<1>1. Inv => ClickHitsPicture
  BY DEF Inv, WindowInv
<1> QED
  BY InvHolds, <1>1, PTL

\* Between two read states the row and the table hold the mentions of the read
\* states done, for every guild.
THEOREM MentionsKept == Spec => []MentionsAgree
<1>1. Inv => MentionsAgree
  <2> SUFFICES ASSUME Inv, gpc \in {"reads", "done"}, NEW i \in 1..uigldcnt
               PROVE  /\ uiglds[i].MentionCount = table[uiglds[i].id]
                      /\ table[uiglds[i].id] = Mentions(uiglds[i].id)
    BY DEF MentionsAgree
  <2>1. TypeOK /\ PhaseInv /\ RowsInv /\ TableInv /\ MentionsInv
    BY DEF Inv, LoaderInv
  <2>2. Len(uiglds) = uigldcnt /\ Written = uigldcnt /\ uigldcnt \in Nat /\ left = 0
        /\ Len(order) \in Nat /\ uigldcnt = Len(order)
    BY <2>1, Lengths DEF RowsInv, Written, Loaded, PhaseInv, Reading
  <2>3. i \in 1..Len(uiglds)
    BY <2>2
  <2>4. uiglds[i].id # Junk
    <3>1. uiglds[i].id = order[Len(order) + 1 - i]
      BY <2>1, <2>2, <2>3 DEF RowsInv
    <3>2. order[Len(order) + 1 - i] \in Guilds
      BY <2>1, <2>2 DEF TypeOK
    <3> QED
      BY <3>1, <3>2, GuildsAssumption
  <2>5. uiglds[i].id \in DOMAIN table
    BY <2>1, <2>3, <2>4, RowKnown
  <2>6. Due(uiglds[i].id) = 0 /\ table[uiglds[i].id] \in Nat
    BY <2>1, <2>5 DEF Due, TypeOK
  <2> QED
    BY <2>1, <2>3, <2>4, <2>5, <2>6 DEF MentionsInv
<1> QED
  BY InvHolds, <1>1, PTL

-----------------------------------------------------------------------------
(* The channel tree.                                                        *)

CONSTANTS NoGuild, MaxChannels, MaxBuilds
VARIABLES loaded, pc, uitable, nitems, nbuilds

Tree == INSTANCE ChannelTree

Item    == [item : Nat, id : Tree!Ids, under : Nat]
Listed  == json[guild]

\* The guilds of READY, and a tree as long as the insertions so far.
TreeTypes ==
  /\ json \in [Guilds -> Tree!Lists] /\ loaded \subseteq Guilds
  /\ next \in Nat /\ nitems \in Nat
  /\ tree \in Seq(Item) /\ Len(tree) = next - 1
  /\ pc = "build" \/ tree # <<>> => guild \in Guilds
  /\ tree # <<>> => Len(tree) <= Len(Listed)

\* The k-th item is the k-th channel, the table holds the categories.
InPlace == \A k \in 1..Len(tree) : tree[k].id = Listed[k].id
Tabled  == /\ \A e \in uitable : \E j \in 1..Len(tree) :
                Listed[j].category /\ e.id = tree[j].id /\ e.item = tree[j].item
           /\ \A j \in 1..Len(tree) : Listed[j].category =>
                \E e \in uitable : e.id = tree[j].id /\ e.item = tree[j].item

\* The categories before the k-th channel that it names as its parent.
Before(k) == {j \in 1..(k - 1) : Listed[j].category /\ Listed[j].id = Listed[k].parentID}
Nested    == \A k \in 1..Len(tree) :
               IF Before(k) = {} THEN tree[k].under = 0
               ELSE \E j \in Before(k) : tree[k].under = tree[j].item

TreeInv == TreeTypes /\ InPlace /\ Tabled /\ Nested

\* A list of channels, whose ids are distinct.
LEMMA ListIs ==
  ASSUME NEW s \in Tree!Lists
  PROVE  /\ s \in Seq(Tree!Channel)
         /\ \A i, j \in 1..Len(s) : i # j => s[i].id # s[j].id
<1> DEFINE C == Tree!Channel
<1>1. PICK n \in 0..MaxChannels : s \in [1..n -> C]
  BY DEF Tree!Lists
<1>2. \A i, j \in DOMAIN s : i # j => s[i].id # s[j].id
  BY DEF Tree!Lists
<1> HIDE DEF C
<1>3. n \in Nat
  OBVIOUS
<1>4. s \in Seq(C) /\ Len(s) = n
  BY <1>1, <1>3
<1> QED
  BY <1>1, <1>2, <1>4 DEF C

LEMMA TreeInit == Tree!Init => TreeInv
<1> SUFFICES ASSUME Tree!Init PROVE TreeInv
  OBVIOUS
<1>1. TreeTypes
  BY DEF Tree!Init, TreeTypes
<1> QED
  BY <1>1 DEF TreeInv, InPlace, Tabled, Nested, Tree!Init

\* A click starts an empty tree.
LEMMA SelectInv == ASSUME TreeInv, NEW g \in Guilds, Tree!Select(g) PROVE TreeInv'
<1>1. TreeTypes'
  BY DEF TreeInv, TreeTypes, Tree!Select
<1> QED
  BY <1>1 DEF TreeInv, InPlace, Tabled, Nested, Tree!Select

\* What does not touch tree, table and guild.
LEMMA KeepInv ==
  ASSUME TreeInv, UNCHANGED <<json, guild, next, uitable, tree, nitems>>,
         loaded' \subseteq Guilds, pc' = "build" => pc = "build"
  PROVE  TreeInv'
<1>1. TreeTypes'
  BY DEF TreeInv, TreeTypes, Listed
<1> QED
  BY <1>1 DEF TreeInv, InPlace, Tabled, Nested, Before, Listed

\* The parent that the table gives is one that came before.
LEMMA ParentIs ==
  ASSUME TreeInv, guild \in Guilds, next <= Len(Listed)
  PROVE  /\ Before(next) = {} => Tree!ParentItem(Listed[next]) = 0
         /\ Before(next) # {} =>
              \E j \in Before(next) : Tree!ParentItem(Listed[next]) = tree[j].item
<1> DEFINE p == Listed[next].parentID
           found == {e \in uitable : e.id = p}
<1>1. Len(tree) = next - 1 /\ next \in Nat
  BY DEF TreeInv, TreeTypes
<1>2. \A e \in found : \E j \in Before(next) : e.item = tree[j].item
  BY <1>1 DEF TreeInv, Tabled, InPlace, Before
<1>3. Before(next) # {} => found # {}
  BY <1>1 DEF TreeInv, Tabled, InPlace, Before
<1>4. Tree!ParentItem(Listed[next]) = IF found = {} THEN 0 ELSE (CHOOSE e \in found : TRUE).item
  BY DEF Tree!ParentItem
<1> HIDE DEF found
<1>5. found # {} => (CHOOSE e \in found : TRUE) \in found
  OBVIOUS
<1> QED
  BY <1>2, <1>3, <1>4, <1>5

\* The new item is the channel's, under the parent found; a category is tabled.
LEMMA InsertInv == ASSUME TreeInv, Tree!Insert PROVE TreeInv'
<1> DEFINE ch  == Listed[next]
           new == [item |-> nitems + 1, id |-> ch.id, under |-> Tree!ParentItem(ch)]
<1>1. /\ guild \in Guilds /\ next <= Len(Listed) /\ next \in Nat \ {0}
      /\ nitems \in Nat /\ tree \in Seq(Item) /\ Len(tree) = next - 1
      /\ Listed \in Tree!Lists /\ json \in [Guilds -> Tree!Lists] /\ loaded \subseteq Guilds
  BY DEF TreeInv, TreeTypes, Listed, Tree!Insert
<1>2. /\ tree' = Append(tree, new) /\ nitems' = nitems + 1 /\ next' = next + 1
      /\ json' = json /\ guild' = guild /\ loaded' = loaded /\ pc' = pc
      /\ uitable' = IF ch.category
                    THEN {e \in uitable : e.id # ch.id}
                           \cup {[id |-> ch.id, item |-> nitems + 1]}
                    ELSE uitable
  BY DEF Tree!Insert, Tree!Current, Listed
<1>3. Listed' = Listed
  BY <1>2 DEF Listed
<1>4. /\ Listed \in Seq(Tree!Channel)
      /\ \A i, j \in 1..Len(Listed) : i # j => Listed[i].id # Listed[j].id
  BY <1>1, ListIs
<1>5. ch \in Tree!Channel
  <2> DEFINE C == Tree!Channel
  <2>1. Listed \in Seq(C)
    BY <1>4
  <2> HIDE DEF C
  <2>2. ch \in C
    BY <2>1, <1>1
  <2> QED
    BY <2>2 DEF C
<1>6. /\ Before(next) = {} => Tree!ParentItem(ch) = 0
      /\ Before(next) # {} => \E j \in Before(next) : Tree!ParentItem(ch) = tree[j].item
  BY <1>1, ParentIs
<1>7. Tree!ParentItem(ch) \in Nat
  <2>1. \A j \in Before(next) : tree[j].item \in Nat
    <3> DEFINE I == Item
    <3>1. tree \in Seq(I)
      BY <1>1
    <3> HIDE DEF I
    <3>2. \A j \in 1..Len(tree) : tree[j] \in I
      BY <3>1
    <3>3. \A j \in 1..Len(tree) : tree[j].item \in Nat
      BY <3>2 DEF I, Item
    <3> QED
      BY <3>3, <1>1 DEF Before
  <2> QED
    BY <2>1, <1>6
<1>8. new \in Item
  BY <1>1, <1>5, <1>7 DEF Item, Tree!Channel
<1>9. /\ tree' \in Seq(Item) /\ Len(tree') = next
      /\ \A k \in 1..(next - 1) : tree'[k] = tree[k]
      /\ tree'[next] = new
  <2> DEFINE I == Item
             n == new
  <2>1. tree \in Seq(I) /\ n \in I /\ tree' = Append(tree, n) /\ Len(tree) = next - 1
    BY <1>1, <1>2, <1>8
  <2> HIDE DEF I, n
  <2>2. /\ tree' \in Seq(I) /\ Len(tree') = next
        /\ \A k \in 1..(next - 1) : tree'[k] = tree[k]
        /\ tree'[next] = n
    BY <2>1, <1>1
  <2> QED
    BY <2>2 DEF I, n
<1> HIDE DEF new, ch
<1>10. TreeTypes'
  BY <1>1, <1>2, <1>3, <1>9 DEF TreeTypes
<1>11. InPlace'
  BY <1>1, <1>3, <1>9 DEF TreeInv, InPlace, new, ch
<1>12. Tabled'
  <2>1. /\ \A e \in uitable : \E j \in 1..(next - 1) :
             Listed[j].category /\ e.id = tree[j].id /\ e.item = tree[j].item
        /\ \A j \in 1..(next - 1) : Listed[j].category =>
             \E e \in uitable : e.id = tree[j].id /\ e.item = tree[j].item
        /\ \A j \in 1..(next - 1) : tree[j].id = Listed[j].id
    BY <1>1 DEF TreeInv, Tabled, InPlace
  <2>2. \A j \in 1..(next - 1) : tree[j].id # ch.id
    BY <2>1, <1>1, <1>4 DEF ch
  <2>3. new.id = ch.id /\ new.item = nitems + 1
    BY DEF new
  <2>4. \A e \in uitable : e.id # ch.id
    BY <2>1, <2>2
  <2>5. uitable' = uitable \cup (IF ch.category THEN {[id |-> new.id, item |-> new.item]} ELSE {})
    BY <1>2, <2>3, <2>4
  <2>6. ASSUME NEW e \in uitable'
        PROVE  \E j \in 1..next : Listed[j].category /\ e.id = tree'[j].id /\ e.item = tree'[j].item
    <3>1. CASE e \in uitable
      BY <3>1, <2>1, <1>9, <1>1
    <3>2. CASE e \notin uitable
      BY <3>2, <2>5, <1>9, <1>1 DEF ch
    <3> QED
      BY <3>1, <3>2
  <2>7. ASSUME NEW j \in 1..next, Listed[j].category
        PROVE  \E e \in uitable' : e.id = tree'[j].id /\ e.item = tree'[j].item
    <3>1. CASE j < next
      <4>1. j \in 1..(next - 1)
        BY <2>7, <3>1, <1>1
      <4>2. PICK e \in uitable : e.id = tree[j].id /\ e.item = tree[j].item
        BY <2>1, <2>7, <4>1
      <4>3. e \in uitable'
        BY <2>5
      <4> QED
        BY <1>9, <4>1, <4>2, <4>3
    <3>2. CASE j = next
      <4>1. [id |-> new.id, item |-> new.item] \in uitable'
        BY <2>5, <2>7, <3>2 DEF ch
      <4>2. tree'[j] = new
        BY <3>2, <1>9
      <4> QED
        BY <4>1, <4>2
    <3> QED
      BY <2>7, <3>1, <3>2, <1>1
  <2> QED
    BY <2>6, <2>7, <1>3, <1>9 DEF Tabled
<1>13. Nested'
  <2>1. \A k : Before(k)' = Before(k)
    BY <1>3 DEF Before
  <2>2. ASSUME NEW k \in 1..next
        PROVE  IF Before(k) = {} THEN tree'[k].under = 0
               ELSE \E j \in Before(k) : tree'[k].under = tree'[j].item
    <3>1. \A j \in Before(k) : j \in 1..(next - 1) /\ tree'[j] = tree[j]
      BY <1>1, <1>9 DEF Before
    <3>2. CASE k < next
      <4>1. k \in 1..(next - 1) /\ k \in 1..Len(tree)
        BY <2>2, <3>2, <1>1
      <4>2. IF Before(k) = {} THEN tree[k].under = 0
            ELSE \E j \in Before(k) : tree[k].under = tree[j].item
        BY <4>1 DEF TreeInv, Nested
      <4>3. tree'[k] = tree[k]
        BY <4>1, <1>9
      <4>4. \A j \in Before(k) : tree'[j] = tree[j]
        BY <3>1
      <4> QED
        BY <4>2, <4>3, <4>4, Zenon
    <3>3. CASE k = next
      BY <3>1, <3>3, <1>6, <1>9 DEF new
    <3> QED
      BY <3>2, <3>3, <1>1
  <2> QED
    BY <2>1, <2>2, <1>9 DEF Nested
<1> QED
  BY <1>10, <1>11, <1>12, <1>13 DEF TreeInv

LEMMA TreeNext == TreeInv /\ [Tree!Next]_(Tree!vars) => TreeInv'
<1> SUFFICES ASSUME TreeInv, [Tree!Next]_(Tree!vars) PROVE TreeInv'
  OBVIOUS
<1>1. loaded \subseteq Guilds
  BY DEF TreeInv, TreeTypes
<1>2. CASE UNCHANGED Tree!vars
  BY <1>1, <1>2, KeepInv DEF Tree!vars
<1>3. ASSUME NEW g \in Guilds, Tree!Load(g) PROVE TreeInv'
  BY <1>1, <1>3, KeepInv DEF Tree!Load
<1>4. ASSUME NEW g \in Guilds, Tree!Select(g) PROVE TreeInv'
  BY <1>4, SelectInv
<1>5. CASE Tree!Insert
  BY <1>5, InsertInv
<1>6. CASE Tree!ReadUnset
  BY <1>1, <1>6, KeepInv DEF Tree!ReadUnset
<1>7. CASE Tree!Built
  BY <1>1, <1>7, KeepInv DEF Tree!Built
<1> QED
  BY <1>2, <1>3, <1>4, <1>5, <1>6, <1>7 DEF Tree!Next

\* The parents of the property are the categories before the channel.
LEMMA NestedIs == TreeInv => NestedIfCategoryCameFirst
<1> SUFFICES ASSUME TreeInv, NEW k \in 1..Len(tree)
             PROVE  LET parent == {j \in 1..(k - 1) : \E i \in 1..(next - 1) :
                          /\ json[guild][i].category
                          /\ json[guild][i].id = tree[j].id
                          /\ \E c \in 1..(next - 1) : json[guild][c].id = tree[k].id
                                                     /\ json[guild][c].parentID = tree[j].id}
                    IN  IF parent = {} THEN tree[k].under = 0
                        ELSE \E j \in parent : tree[k].under = tree[j].item
  BY DEF NestedIfCategoryCameFirst
<1> DEFINE parent == {j \in 1..(k - 1) : \E i \in 1..(next - 1) :
                        /\ Listed[i].category
                        /\ Listed[i].id = tree[j].id
                        /\ \E c \in 1..(next - 1) : Listed[c].id = tree[k].id
                                                   /\ Listed[c].parentID = tree[j].id}
<1>1. /\ Len(tree) = next - 1 /\ next \in Nat
      /\ Len(tree) <= Len(Listed) /\ Listed \in Tree!Lists
  BY DEF TreeInv, TreeTypes, Listed
<1>2. Len(Listed) \in Nat /\ \A i, j \in 1..Len(Listed) : i # j => Listed[i].id # Listed[j].id
  BY <1>1, ListIs
<1>3. \A i \in 1..(next - 1) : tree[i].id = Listed[i].id
  BY <1>1 DEF TreeInv, InPlace
<1>4. \A i, j \in 1..(next - 1) : Listed[i].id = tree[j].id <=> i = j
  BY <1>1, <1>2, <1>3
<1>5. parent = Before(k)
  BY <1>1, <1>3, <1>4 DEF Before
<1>6. IF parent = {} THEN tree[k].under = 0 ELSE \E j \in parent : tree[k].under = tree[j].item
  BY <1>5 DEF TreeInv, Nested
<1> QED
  BY <1>6 DEF Listed

\* Every channel in the tree hangs under the item of its category if that came
\* before it in READY, and under the root if not, at every moment of the
\* building and after any number of clicks.
THEOREM ChannelsNested == Tree!Spec => []NestedIfCategoryCameFirst
BY TreeInit, TreeNext, NestedIs, PTL DEF Tree!Spec
=============================================================================
