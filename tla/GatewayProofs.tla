--------------------------- MODULE GatewayProofs ---------------------------
(***************************************************************************)
(* Theorems about Gateway, for any number of frames and timer intervals.   *)
(***************************************************************************)
EXTENDS Gateway, SequenceTheorems, TLAPS

-----------------------------------------------------------------------------
(* The invariant.                                                           *)

\* What out holds, and whether a payload is missing from it.
Written == [op : Ops, half : Halves \cup {"lost"}]
Torn    == \E i \in 1..Len(out) : out[i].half = "lost"

\* In a list of things to do each header comes right before its payload, and
\* no payload but the first item is without its header.
Paired(s) ==
  \A i \in 1..Len(s) :
    /\ s[i].do \in Halves => s[i].op \in Ops
    /\ s[i].do = "header" => /\ i < Len(s)
                             /\ s[i + 1].do = "payload"
                             /\ s[i + 1].op = s[i].op /\ s[i + 1].via = s[i].via
    /\ s[i].do = "payload" /\ i > 1 => s[i - 1].do = "header"

\* The thread exists from CreateThread on, has something to do only in a
\* handler, and *out_ssl = ssl comes before the first turn of the loop.
ThreadInv ==
  /\ wpc \in {"none", "read", "ended"} => todo = <<>>
  /\ upc = "handshake" => wpc = "none"
  /\ wpc = "inside" => todo # <<>> /\ Head(todo).do = "request"
  /\ wpc = "none" => upc # "created" /\ out = <<>> /\ ~shown
  /\ wpc # "none" => upc = "created" \/ published
  /\ PublishedByReady

\* As long as the socket takes what is written, the payload at the head of
\* todo belongs to the header written last.
Halfway == todo # <<>> /\ Head(todo).do = "payload"
WireInv ==
  /\ Paired(todo)
  /\ FramesWhole
  /\ link = "up" => (Len(out) % 2 = 1 <=> Halfway)
  /\ link = "up" /\ Halfway => out[Len(out)].op = Head(todo).op

\* Before an identify there is the payload of the heartbeat the same handler sends.
IsHeart(item) == item.do = "payload" /\ item.op = "heartbeat" /\ item.via = "param"
HeartFirst(s) ==
  \A i \in 1..Len(s) : s[i].op = "identify" => \E j \in 1..(i - 1) : IsHeart(s[j])
NoShow(s)  == \A i \in 1..Len(s) : s[i].do # "show"
NoReady(s) == \A i \in 1..Len(s) : s[i] # "ready"

\* What is still to come is in the order of the stages, as long as the server
\* can make out what it is sent.
StageInv ==
  /\ Heard("identify") => Heard("heartbeat")
  /\ link = "up" => Heard("heartbeat") \/ Torn \/ HeartFirst(todo)
  /\ Heard("identify") \/ (NoShow(todo) /\ NoReady(inbox) /\ ~shown)

Inv == TypeOK /\ ThreadInv /\ WireInv /\ StageInv

-----------------------------------------------------------------------------
(* Lists of things to do.                                                   *)

\* The first item and the rest.
LEMMA HeadAndTail ==
  ASSUME NEW S, NEW s \in Seq(S), s # <<>>
  PROVE  /\ Len(s) \in Nat \ {0} /\ Head(s) = s[1] /\ Head(s) \in S
         /\ Tail(s) \in Seq(S) /\ Len(Tail(s)) = Len(s) - 1
         /\ \A i \in 1..(Len(s) - 1) : Tail(s)[i] = s[i + 1]
BY EmptySeq, HeadTailProperties

LEMMA ItemTypes ==
  /\ \A what \in {"timer", "box", "request", "window", "show"} : Item(what) \in Items
  /\ \A op \in Ops, via \in {"param", "GatewaySSL"}, half \in Halves :
       [do |-> half, op |-> op, via |-> via] \in Items
BY DEF Item, Items, Ops, Halves

\* One frame to send.
LEMMA SendList ==
  ASSUME NEW op \in Ops, NEW via \in {"param", "GatewaySSL"}
  PROVE  /\ Send(op, via) \in Seq(Items) /\ Len(Send(op, via)) = 2
         /\ Send(op, via)[1] = [do |-> "header", op |-> op, via |-> via]
         /\ Send(op, via)[2] = [do |-> "payload", op |-> op, via |-> via]
<1> DEFINE a == [do |-> "header", op |-> op, via |-> via]
           b == [do |-> "payload", op |-> op, via |-> via]
<1>1. a \in Items /\ b \in Items
  BY ItemTypes DEF Halves
<1>2. Send(op, via) = <<a, b>>
  BY DEF Send
<1> HIDE DEF a, b
<1>3. <<a, b>> \in Seq(Items) /\ Len(<<a, b>>) = 2 /\ <<a, b>>[1] = a /\ <<a, b>>[2] = b
  BY <1>1
<1> QED BY <1>2, <1>3 DEF a, b

\* Where the items of two lists joined are.
Joined(u, s, t) ==
  /\ u \in Seq(Items) /\ Len(u) = Len(s) + Len(t)
  /\ Len(s) \in Nat /\ Len(t) \in Nat
  /\ \A i \in 1..Len(s) : u[i] = s[i]
  /\ \A i \in 1..Len(t) : u[Len(s) + i] = t[i]

LEMMA Joining ==
  ASSUME NEW s \in Seq(Items), NEW t \in Seq(Items)
  PROVE  Joined(s \o t, s, t)
<1> DEFINE u == s \o t
<1>1. u \in Seq(Items) /\ Len(u) = Len(s) + Len(t) /\ Len(s) \in Nat /\ Len(t) \in Nat
  BY ConcatProperties, LenProperties
<1>2. ASSUME NEW i \in 1..Len(s) PROVE u[i] = s[i]
  OBVIOUS
<1>3. ASSUME NEW i \in 1..Len(t) PROVE u[Len(s) + i] = t[i]
  <2>1. ASSUME NEW j \in 1..(Len(s) + Len(t)) PROVE u[j] = IF j <= Len(s) THEN s[j] ELSE t[j - Len(s)]
    OBVIOUS
  <2>2. Len(s) + i \in 1..(Len(s) + Len(t)) /\ ~(Len(s) + i <= Len(s)) /\ (Len(s) + i) - Len(s) = i
    BY <1>1
  <2> QED BY <2>1, <2>2
<1> HIDE DEF u
<1>4. Joined(u, s, t)
  BY <1>1, <1>2, <1>3 DEF Joined
<1> QED BY <1>4 DEF u

\* The list of the hello handler.
LEMMA HelloList ==
  ASSUME NEW s \in Handler("hello")
  PROVE  /\ s \in Seq(Items) /\ Len(s) = 5
         /\ s[1] = [do |-> "header", op |-> "heartbeat", via |-> "param"]
         /\ s[2] = [do |-> "payload", op |-> "heartbeat", via |-> "param"]
         /\ s[3] = [do |-> "header", op |-> "identify", via |-> "param"]
         /\ s[4] = [do |-> "payload", op |-> "identify", via |-> "param"]
         /\ s[5] = Item("timer")
<1> DEFINE hb == Send("heartbeat", "param")
           id == Send("identify", "param")
           last == <<Item("timer")>>
<1>1. s = (hb \o id) \o last
  BY DEF Handler
<1>2. last \in Seq(Items) /\ Len(last) = 1 /\ last[1] = Item("timer")
  BY ItemTypes
<1>3. /\ hb \in Seq(Items) /\ Len(hb) = 2
      /\ id \in Seq(Items) /\ Len(id) = 2
  BY SendList DEF Ops
<1> DEFINE both == hb \o id
<1> HIDE DEF hb, id, last
<1>4. Joined(both, hb, id)
  BY <1>3, Joining, Zenon
<1>5. /\ both \in Seq(Items) /\ Len(both) = 4
      /\ both[1] = hb[1] /\ both[2] = hb[2] /\ both[3] = id[1] /\ both[4] = id[2]
  <2> HIDE DEF both
  <2> QED BY <1>3, <1>4 DEF Joined
<1>6. Joined(s, both, last)
  BY <1>1, <1>2, <1>5, Joining, Zenon
<1>7. /\ s \in Seq(Items) /\ Len(s) = 5 /\ s[5] = last[1]
      /\ s[1] = hb[1] /\ s[2] = hb[2] /\ s[3] = id[1] /\ s[4] = id[2]
  <2> HIDE DEF both
  <2>1. Len(s) = 5 /\ s[4 + 1] = last[1] /\ \A i \in 1..4 : s[i] = both[i]
    BY <1>2, <1>5, <1>6 DEF Joined
  <2> QED BY <2>1, <1>5, <1>6 DEF Joined
<1> QED BY <1>2, <1>7, SendList DEF Ops, hb, id

LEMMA PairedTail ==
  ASSUME NEW s \in Seq(Items), s # <<>>, Paired(s)
  PROVE  /\ Paired(Tail(s))
         /\ Tail(s) # <<>> /\ Head(Tail(s)).do = "payload" => Head(s).do = "header"
<1>1. Paired(Tail(s))
  BY DEF Paired
<1>2. ASSUME Tail(s) # <<>>, Head(Tail(s)).do = "payload" PROVE Head(s).do = "header"
  <2>1. Head(Tail(s)) = s[2] /\ 2 \in 1..Len(s) /\ Head(s) = s[1]
    BY <1>2, HeadAndTail
  <2>2. s[2].do = "payload" /\ 2 > 1 => s[2 - 1].do = "header"
    BY <2>1 DEF Paired
  <2> QED BY <1>2, <2>1, <2>2
<1> QED BY <1>1, <1>2

\* A header has its payload behind it, and what follows the two is paired.
LEMMA PairedHead ==
  ASSUME NEW s \in Seq(Items), s # <<>>, Paired(s), Head(s).do = "header"
  PROVE  /\ Tail(s) \in Seq(Items) /\ Tail(s) # <<>> /\ Len(s) > 1
         /\ s[2].do = "payload" /\ s[2].op = s[1].op /\ s[2].via = s[1].via
         /\ Head(Tail(s)) = s[2]
         /\ Paired(Tail(Tail(s)))
         /\ Tail(Tail(s)) # <<>> => Head(Tail(Tail(s))).do # "payload"
<1>1. s[1].do = "header" /\ 1 \in 1..Len(s)
  BY HeadAndTail
<1>2. Len(s) > 1 /\ s[2].do = "payload" /\ s[2].op = s[1].op /\ s[2].via = s[1].via
  BY <1>1 DEF Paired
<1>3. Tail(s) \in Seq(Items) /\ Tail(s) # <<>> /\ Head(Tail(s)) = s[2]
  <2>1. Tail(s) \in Seq(Items) /\ Len(Tail(s)) = Len(s) - 1 /\ Len(s) \in Nat
    BY HeadAndTail
  <2>2. Tail(s) # <<>>
    <3>1. Len(Tail(s)) # 0
      BY <1>2, <2>1
    <3> QED BY <3>1, EmptySeq
  <2>3. Head(Tail(s)) = Tail(s)[1]
    BY <2>1, <2>2, HeadAndTail
  <2>4. Tail(s)[1] = s[1 + 1]
    <3>1. \A i \in 1..(Len(s) - 1) : Tail(s)[i] = s[i + 1]
      BY HeadAndTail
    <3>2. 1 \in 1..(Len(s) - 1)
      BY <1>2, LenProperties
    <3> QED BY <3>1, <3>2
  <2> QED BY <2>1, <2>2, <2>3, <2>4
<1>4. Paired(Tail(s))
  BY PairedTail
<1> QED BY <1>2, <1>3, <1>4, PairedTail

\* Without its first item a list is as it was, unless that is the heartbeat.
LEMMA ShorterList ==
  ASSUME NEW s \in Seq(Items), s # <<>>
  PROVE  /\ HeartFirst(s) /\ ~IsHeart(Head(s)) => HeartFirst(Tail(s))
         /\ NoShow(s) => NoShow(Tail(s))
<1>0. /\ Len(s) \in Nat /\ Head(s) = s[1] /\ Len(Tail(s)) = Len(s) - 1
      /\ \A i \in 1..(Len(s) - 1) : Tail(s)[i] = s[i + 1]
  BY HeadAndTail
<1> DEFINE t == Tail(s)
<1> HIDE DEF t
<1>1. ASSUME HeartFirst(s), ~IsHeart(Head(s)), NEW i \in 1..Len(t), t[i].op = "identify"
      PROVE  \E j \in 1..(i - 1) : IsHeart(t[j])
  <2>1. i + 1 \in 1..Len(s) /\ t[i] = s[i + 1]
    BY <1>0 DEF t
  <2>2. PICK k \in 1..((i + 1) - 1) : IsHeart(s[k])
    BY <1>1, <2>1 DEF HeartFirst
  <2>3. k # 1
    BY <1>0, <1>1, <2>2
  <2>4. k - 1 \in 1..(i - 1) /\ t[k - 1] = s[(k - 1) + 1] /\ (k - 1) + 1 = k
    BY <1>0, <2>1, <2>2, <2>3 DEF t
  <2> QED BY <2>2, <2>4
<1>2. NoShow(s) => NoShow(t)
  BY <1>0 DEF NoShow, t
<1>3. HeartFirst(s) /\ ~IsHeart(Head(s)) => HeartFirst(t)
  BY <1>1 DEF HeartFirst
<1> QED BY <1>2, <1>3 DEF t

\* A frame sent in front of a list that does not begin with a payload.
LEMMA FrameInFront ==
  ASSUME NEW s \in Seq(Items), s # <<>>, Paired(s), Head(s).do # "payload",
         NEW via \in {"param", "GatewaySSL"},
         NEW u, u = Send("heartbeat", via) \o s
  PROVE  /\ u \in Seq(Items) /\ u # <<>> /\ Head(u).do = "header" /\ Paired(u)
         /\ HeartFirst(s) => HeartFirst(u)
         /\ NoShow(s) => NoShow(u)
<1> DEFINE f == Send("heartbeat", via)
<1>1. /\ f \in Seq(Items) /\ Len(f) = 2
      /\ f[1] = [do |-> "header", op |-> "heartbeat", via |-> via]
      /\ f[2] = [do |-> "payload", op |-> "heartbeat", via |-> via]
  BY SendList DEF Ops
<1>2. u = f \o s
  OBVIOUS
<1> HIDE DEF f
<1>3. Joined(u, f, s)
  BY <1>1, <1>2, Joining, Zenon
<1>4. /\ u \in Seq(Items) /\ Len(u) = 2 + Len(s) /\ Len(s) \in Nat \ {0}
      /\ \A i \in 1..2 : u[i] = f[i]
      /\ \A i \in 1..Len(s) : u[2 + i] = s[i]
  BY <1>1, <1>3, HeadAndTail DEF Joined
<1>5. /\ u[1] = [do |-> "header", op |-> "heartbeat", via |-> via]
      /\ u[2] = [do |-> "payload", op |-> "heartbeat", via |-> via]
      /\ u[2 + 1] = s[1] /\ s[1] = Head(s)
  BY <1>1, <1>4, HeadAndTail
<1>6. \A i \in 1..Len(u) : i = 1 \/ i = 2 \/ (i - 2 \in 1..Len(s) /\ u[i] = s[i - 2])
  <2> TAKE i \in 1..Len(u)
  <2>1. CASE i > 2
    <3>1. i - 2 \in 1..Len(s) /\ 2 + (i - 2) = i
      BY <1>4, <2>1
    <3> QED BY <1>4, <3>1
  <2>2. CASE ~(i > 2)
    BY <1>4, <2>2
  <2> QED BY <2>1, <2>2
<1>7. Paired(u)
  <2> SUFFICES ASSUME NEW i \in 1..Len(u)
               PROVE  /\ u[i].do \in Halves => u[i].op \in Ops
                      /\ u[i].do = "header" => /\ i < Len(u)
                                               /\ u[i + 1].do = "payload"
                                               /\ u[i + 1].op = u[i].op /\ u[i + 1].via = u[i].via
                      /\ u[i].do = "payload" /\ i > 1 => u[i - 1].do = "header"
    BY DEF Paired
  <2>1. CASE i = 1
    BY <1>4, <1>5, <2>1 DEF Ops
  <2>2. CASE i = 2
    BY <1>4, <1>5, <2>2 DEF Ops
  <2>3. CASE i # 1 /\ i # 2
    <3> DEFINE k == i - 2
    <3>1. k \in 1..Len(s) /\ u[i] = s[k] /\ i = 2 + k
      BY <1>6, <2>3
    <3>2. k < Len(s) => u[i + 1] = s[k + 1]
      <4>1. k < Len(s) => k + 1 \in 1..Len(s) /\ 2 + (k + 1) = i + 1
        BY <1>4, <3>1
      <4> QED BY <4>1, <1>4
    <3>3. k > 1 => u[i - 1] = s[k - 1]
      <4>1. k > 1 => k - 1 \in 1..Len(s) /\ 2 + (k - 1) = i - 1
        BY <1>4, <3>1
      <4> QED BY <4>1, <1>4
    <3>4. k = 1 => u[i].do # "payload"
      BY <1>5, <3>1
    <3>5. /\ s[k].do \in Halves => s[k].op \in Ops
          /\ s[k].do = "header" => /\ k < Len(s)
                                   /\ s[k + 1].do = "payload"
                                   /\ s[k + 1].op = s[k].op /\ s[k + 1].via = s[k].via
          /\ s[k].do = "payload" /\ k > 1 => s[k - 1].do = "header"
      BY <3>1 DEF Paired
    <3> HIDE DEF k
    <3>6. k \in Nat /\ (k = 1 \/ k > 1) /\ (k < Len(s) => i < Len(u))
      BY <1>4, <3>1
    <3> QED BY <3>1, <3>2, <3>3, <3>4, <3>5, <3>6
  <2> QED BY <2>1, <2>2, <2>3
<1>8. ASSUME HeartFirst(s), NEW i \in 1..Len(u), u[i].op = "identify"
      PROVE  \E j \in 1..(i - 1) : IsHeart(u[j])
  <2>1. i # 1 /\ i # 2
    BY <1>5, <1>8
  <2>2. i - 2 \in 1..Len(s) /\ s[i - 2].op = "identify"
    BY <1>6, <1>8, <2>1
  <2>3. PICK j \in 1..((i - 2) - 1) : IsHeart(s[j])
    BY <1>8, <2>2 DEF HeartFirst
  <2>4. 2 + j \in 1..(i - 1) /\ j \in 1..Len(s)
    <3>1. i \in Nat /\ Len(s) \in Nat /\ i - 2 <= Len(s)
      BY <1>4, <2>2
    <3>2. j \in Nat /\ 1 <= j /\ j <= i - 3
      BY <3>1
    <3> QED BY <3>1, <3>2
  <2>5. u[2 + j] = s[j]
    BY <1>4, <2>4
  <2> QED BY <2>3, <2>4, <2>5
<1>9. NoShow(s) => NoShow(u)
  BY <1>4, <1>5, <1>6 DEF NoShow
<1>10. u # <<>> /\ Head(u).do = "header"
  <2>1. Len(u) # 0
    BY <1>4
  <2>2. u # <<>>
    BY <1>4, <2>1, EmptySeq
  <2> QED BY <1>4, <1>5, <2>2, HeadAndTail
<1>11. HeartFirst(s) => HeartFirst(u)
  BY <1>8 DEF HeartFirst
<1> QED BY <1>4, <1>7, <1>9, <1>10, <1>11

\* What is true of every list a handler starts with.
Fresh(s) ==
  /\ s \in Seq(Items) /\ Paired(s) /\ HeartFirst(s)
  /\ s # <<>> => Head(s).do # "payload"

\* Items that are no half frames.
Plain(s) ==
  /\ s \in Seq(Items)
  /\ \A i \in 1..Len(s) : s[i].do \notin Halves /\ s[i].op = "none"

LEMMA PlainFresh ==
  ASSUME NEW s, Plain(s)
  PROVE  Fresh(s)
<1>1. s # <<>> => Head(s) = s[1] /\ 1 \in 1..Len(s)
  BY HeadAndTail DEF Plain
<1>2. Paired(s) /\ HeartFirst(s)
  BY DEF Plain, Paired, HeartFirst, Halves
<1> QED BY <1>1, <1>2 DEF Plain, Fresh, Halves

LEMMA PlainOne ==
  ASSUME NEW what \in {"box", "request", "window", "show"}
  PROVE  /\ Plain(<<Item(what)>>) /\ (what # "show" => NoShow(<<Item(what)>>))
         /\ Len(<<Item(what)>>) = 1 /\ <<Item(what)>>[1] = Item(what)
<1>1. Item(what) \in Items /\ Item(what).do = what /\ Item(what).op = "none"
  BY ItemTypes DEF Item
<1> DEFINE one == <<Item(what)>>
<1>2. one \in Seq(Items) /\ Len(one) = 1 /\ one[1] = Item(what)
  BY <1>1
<1>3. \A i \in 1..1 : i = 1
  OBVIOUS
<1> HIDE DEF one
<1>4. Plain(one) /\ (what # "show" => NoShow(one))
  BY <1>1, <1>2, <1>3 DEF Plain, NoShow, Halves
<1> QED BY <1>2, <1>4 DEF one

LEMMA PlainJoin ==
  ASSUME NEW s, NEW t, Plain(s), Plain(t)
  PROVE  Plain(s \o t) /\ (NoShow(s) /\ NoShow(t) => NoShow(s \o t))
<1> DEFINE u == s \o t
<1>1. Joined(u, s, t)
  BY Joining DEF Plain
<1> HIDE DEF u
<1>2. \A i \in 1..Len(u) : i \in 1..Len(s) \/ (i - Len(s) \in 1..Len(t) /\ i = Len(s) + (i - Len(s)))
  BY <1>1 DEF Joined
<1>3. Plain(u)
  BY <1>1, <1>2 DEF Joined, Plain
<1>4. NoShow(s) /\ NoShow(t) => NoShow(u)
  BY <1>1, <1>2 DEF Joined, NoShow
<1> QED BY <1>3, <1>4 DEF u

\* What fetching a picture may take.
LEMMA PlainPicture ==
  ASSUME NEW s \in Picture
  PROVE  Plain(s) /\ NoShow(s)
<1>1. CASE s = <<>>
  BY <1>1 DEF Plain, NoShow
<1>2. CASE s = <<Item("request")>> \/ s = <<Item("box")>>
  BY <1>2, PlainOne
<1>3. CASE s = <<Item("request"), Item("box")>>
  <2> DEFINE a == <<Item("request")>>
             b == <<Item("box")>>
  <2>1. s = a \o b
    BY <1>3
  <2>2. Plain(a) /\ NoShow(a) /\ Plain(b) /\ NoShow(b)
    BY PlainOne
  <2> HIDE DEF a, b
  <2> QED BY <2>1, <2>2, PlainJoin
<1> QED BY <1>1, <1>2, <1>3 DEF Picture

\* A box that is opened in front of the rest.
LEMMA BoxInFront ==
  ASSUME NEW s \in Seq(Items), Paired(s), s # <<>> => Head(s).do # "payload",
         NEW u, u = <<Item("box")>> \o s
  PROVE  /\ u \in Seq(Items) /\ u # <<>> /\ Head(u).do = "box" /\ Paired(u)
         /\ HeartFirst(s) => HeartFirst(u)
         /\ NoShow(s) => NoShow(u)
<1> DEFINE f == <<Item("box")>>
<1>1. /\ f \in Seq(Items) /\ Len(f) = 1 /\ f[1] = Item("box")
      /\ f[1].do = "box" /\ f[1].op = "none"
  BY PlainOne DEF Plain, Item
<1>2. u = f \o s
  OBVIOUS
<1> HIDE DEF f
<1>3. Joined(u, f, s)
  BY <1>1, <1>2, Joining, Zenon
<1>4. /\ u \in Seq(Items) /\ Len(u) = 1 + Len(s) /\ Len(s) \in Nat
      /\ u[1].do = "box" /\ u[1].op = "none"
      /\ \A i \in 1..Len(s) : u[1 + i] = s[i]
  BY <1>1, <1>3 DEF Joined
<1>5. Len(s) > 0 => s[1].do # "payload"
  BY <1>4, HeadAndTail
<1>6. \A i \in 1..Len(u) : i = 1 \/ (i - 1 \in 1..Len(s) /\ u[i] = s[i - 1])
  <2> TAKE i \in 1..Len(u)
  <2>1. i = 1 \/ (i - 1 \in 1..Len(s) /\ 1 + (i - 1) = i)
    BY <1>4
  <2> QED BY <1>4, <2>1
<1>7. Paired(u)
  <2> SUFFICES ASSUME NEW i \in 1..Len(u)
               PROVE  /\ u[i].do \in Halves => u[i].op \in Ops
                      /\ u[i].do = "header" => /\ i < Len(u)
                                               /\ u[i + 1].do = "payload"
                                               /\ u[i + 1].op = u[i].op /\ u[i + 1].via = u[i].via
                      /\ u[i].do = "payload" /\ i > 1 => u[i - 1].do = "header"
    BY DEF Paired
  <2>1. CASE i = 1
    BY <1>4, <2>1 DEF Halves
  <2>2. CASE i # 1
    <3> DEFINE k == i - 1
    <3>1. k \in 1..Len(s) /\ u[i] = s[k] /\ i = 1 + k
      BY <1>6, <2>2
    <3>2. k < Len(s) => u[i + 1] = s[k + 1]
      <4>1. k < Len(s) => k + 1 \in 1..Len(s) /\ 1 + (k + 1) = i + 1
        BY <1>4, <3>1
      <4> QED BY <4>1, <1>4
    <3>3. k > 1 => u[i - 1] = s[k - 1]
      <4>1. k > 1 => k - 1 \in 1..Len(s) /\ 1 + (k - 1) = i - 1
        BY <1>4, <3>1
      <4> QED BY <4>1, <1>4
    <3>4. k = 1 => u[i].do # "payload"
      BY <1>5, <3>1, <1>4
    <3>5. /\ s[k].do \in Halves => s[k].op \in Ops
          /\ s[k].do = "header" => /\ k < Len(s)
                                   /\ s[k + 1].do = "payload"
                                   /\ s[k + 1].op = s[k].op /\ s[k + 1].via = s[k].via
          /\ s[k].do = "payload" /\ k > 1 => s[k - 1].do = "header"
      BY <3>1 DEF Paired
    <3> HIDE DEF k
    <3>6. k \in Nat /\ (k = 1 \/ k > 1) /\ (k < Len(s) => i < Len(u))
      BY <1>4, <3>1
    <3> QED BY <3>1, <3>2, <3>3, <3>4, <3>5, <3>6
  <2> QED BY <2>1, <2>2
<1>8. ASSUME HeartFirst(s), NEW i \in 1..Len(u), u[i].op = "identify"
      PROVE  \E j \in 1..(i - 1) : IsHeart(u[j])
  <2>1. i # 1
    BY <1>4, <1>8
  <2>2. i - 1 \in 1..Len(s) /\ s[i - 1].op = "identify"
    BY <1>6, <1>8, <2>1
  <2>3. PICK j \in 1..((i - 1) - 1) : IsHeart(s[j])
    BY <1>8, <2>2 DEF HeartFirst
  <2>4. 1 + j \in 1..(i - 1) /\ j \in 1..Len(s)
    BY <1>4, <2>2, <2>3
  <2>5. u[1 + j] = s[j]
    BY <1>4, <2>4
  <2> QED BY <2>3, <2>4, <2>5
<1>9. NoShow(s) => NoShow(u)
  BY <1>4, <1>6 DEF NoShow
<1>10. u # <<>> /\ Head(u).do = "box"
  <2>1. Len(u) # 0
    BY <1>4
  <2>2. u # <<>>
    BY <1>4, <2>1, EmptySeq
  <2> QED BY <1>4, <2>2, HeadAndTail
<1>11. HeartFirst(s) => HeartFirst(u)
  BY <1>8 DEF HeartFirst
<1> QED BY <1>4, <1>7, <1>9, <1>10, <1>11

LEMMA FreshHandler ==
  ASSUME NEW frame \in Frames \ {"empty"}, NEW s \in Handler(frame)
  PROVE  Fresh(s) /\ (frame # "ready" => NoShow(s))
<1>1. CASE s = <<>>
  BY <1>1 DEF Fresh, Paired, HeartFirst, NoShow
<1>2. CASE frame = "hello"
  <2>1. /\ s \in Seq(Items) /\ Len(s) = 5
        /\ s[1] = [do |-> "header", op |-> "heartbeat", via |-> "param"]
        /\ s[2] = [do |-> "payload", op |-> "heartbeat", via |-> "param"]
        /\ s[3] = [do |-> "header", op |-> "identify", via |-> "param"]
        /\ s[4] = [do |-> "payload", op |-> "identify", via |-> "param"]
        /\ s[5] = Item("timer")
    BY <1>2, HelloList
  <2>2. s[5].do = "timer" /\ s[5].op = "none"
    BY <2>1 DEF Item
  <2>3. \A i \in 1..5 : i = 1 \/ i = 2 \/ i = 3 \/ i = 4 \/ i = 5
    OBVIOUS
  <2>4. Paired(s)
    BY <2>1, <2>2, <2>3 DEF Paired, Halves, Ops
  <2>5. HeartFirst(s)
    <3>1. IsHeart(s[2]) /\ 2 \in 1..(3 - 1) /\ 2 \in 1..(4 - 1)
      BY <2>1 DEF IsHeart
    <3>2. s[1].op # "identify" /\ s[2].op # "identify" /\ s[5].op # "identify"
      BY <2>1, <2>2
    <3> QED BY <2>1, <2>3, <3>1, <3>2 DEF HeartFirst
  <2>6. NoShow(s)
    BY <2>1, <2>2, <2>3 DEF NoShow
  <2>7. s # <<>> => Head(s) = s[1]
    BY <2>1
  <2> QED BY <2>1, <2>4, <2>5, <2>6, <2>7 DEF Fresh
<1>3. CASE frame = "heartbeatRequest"
  <2>1. s = Send("heartbeat", "GatewaySSL")
    BY <1>3 DEF Handler
  <2>2. /\ s \in Seq(Items) /\ Len(s) = 2
        /\ s[1] = [do |-> "header", op |-> "heartbeat", via |-> "GatewaySSL"]
        /\ s[2] = [do |-> "payload", op |-> "heartbeat", via |-> "GatewaySSL"]
    BY <2>1, SendList DEF Ops
  <2>3. \A i \in 1..2 : i = 1 \/ i = 2
    OBVIOUS
  <2>4. s # <<>> => Head(s) = s[1]
    BY <2>2
  <2> QED BY <2>2, <2>3, <2>4 DEF Fresh, Paired, HeartFirst, NoShow, Halves, Ops
<1>4. CASE frame = "ready"
  <2>1. PICK icons \in Picture, avatar \in Picture : s = (icons \o avatar) \o <<Item("show")>>
    BY <1>4 DEF Handler
  <2>2. Plain(icons) /\ Plain(avatar) /\ Plain(<<Item("show")>>)
    BY PlainPicture, PlainOne
  <2> DEFINE last == <<Item("show")>>
  <2> HIDE DEF last
  <2>3. Plain(icons \o avatar)
    BY <2>2, PlainJoin
  <2>4. Plain((icons \o avatar) \o last)
    BY <2>2, <2>3, PlainJoin DEF last
  <2> QED BY <1>4, <2>1, <2>4, PlainFresh DEF last
<1>5. CASE frame = "message" /\ s # <<>>
  <2>1. PICK avatar \in Picture : s = avatar \o <<Item("window")>>
    BY <1>5 DEF Handler
  <2> DEFINE last == <<Item("window")>>
  <2>2. Plain(avatar) /\ NoShow(avatar) /\ Plain(last) /\ NoShow(last)
    BY PlainPicture, PlainOne
  <2> HIDE DEF last
  <2>3. Plain(avatar \o last) /\ NoShow(avatar \o last)
    BY <2>2, PlainJoin
  <2> QED BY <2>1, <2>3, PlainFresh DEF last
<1>6. CASE frame \in {"reconnect", "close", "other"} /\ s # <<>>
  <2>1. s = <<Item("box")>>
    BY <1>6 DEF Handler
  <2>2. Plain(s) /\ NoShow(s)
    BY <2>1, PlainOne
  <2> QED BY <2>2, PlainFresh
<1> QED BY <1>1, <1>2, <1>3, <1>4, <1>5, <1>6 DEF Frames

-----------------------------------------------------------------------------
(* What the steps do to the wire and to what is still to come.              *)

LEMMA Parity ==
  \A n \in Nat : n % 2 \in {0, 1} /\ ((n + 1) % 2 = 1 <=> n % 2 = 0)
OBVIOUS

LEMMA KeepWire ==
  ASSUME WireInv, UNCHANGED <<todo, out>>, link' = "up" => link = "up"
  PROVE  WireInv'
<1>1. Paired(todo)' /\ FramesWhole' /\ (Halfway' <=> Halfway)
  BY DEF WireInv, Paired, FramesWhole, Halfway
<1> QED BY <1>1 DEF WireInv

LEMMA KeepStage ==
  ASSUME StageInv, UNCHANGED <<todo, out, shown>>, link' = "up" => link = "up",
         NoReady(inbox) => NoReady(inbox') \/ Heard("identify")
  PROVE  StageInv'
<1>1. (\A op : Heard(op)' <=> Heard(op)) /\ (Torn' <=> Torn)
  BY DEF Heard, Torn
<1>2. HeartFirst(todo)' <=> HeartFirst(todo)
  BY DEF HeartFirst
<1>3. NoShow(todo)' <=> NoShow(todo)
  BY DEF NoShow
<1>4. NoReady(inbox)' <=> NoReady(inbox')
  BY DEF NoReady
<1> QED BY <1>1, <1>2, <1>3, <1>4 DEF StageInv

\* A handler does something that is not half a frame.
LEMMA DropHead ==
  ASSUME Inv, todo # <<>>, Head(todo).do \notin Halves, todo' = Tail(todo),
         UNCHANGED <<out, link>>
  PROVE  /\ todo' \in Seq(Items) /\ WireInv'
         /\ link' = "up" => Heard("heartbeat")' \/ Torn' \/ HeartFirst(todo)'
         /\ NoShow(todo) => NoShow(todo)'
<1>1. todo \in Seq(Items) /\ Paired(todo)
  BY DEF Inv, TypeOK, WireInv
<1>2. Tail(todo) \in Seq(Items)
  BY <1>1, HeadAndTail
<1>3. /\ Paired(Tail(todo))
      /\ Tail(todo) # <<>> /\ Head(Tail(todo)).do = "payload" => Head(todo).do = "header"
  BY <1>1, PairedTail
<1>4. ~Halfway /\ ~Halfway'
  BY <1>3 DEF Halfway, Halves
<1>5. WireInv'
  <2>1. Paired(todo)' /\ FramesWhole'
    BY <1>3 DEF Inv, WireInv, Paired, FramesWhole
  <2> QED BY <2>1, <1>4 DEF Inv, WireInv
<1>6. ~IsHeart(Head(todo))
  BY DEF IsHeart, Halves
<1>7. /\ HeartFirst(todo) => HeartFirst(Tail(todo))
      /\ NoShow(todo) => NoShow(Tail(todo))
  BY <1>1, <1>6, ShorterList
<1>8. /\ HeartFirst(todo)' <=> HeartFirst(Tail(todo))
      /\ NoShow(todo)' <=> NoShow(Tail(todo))
  BY DEF HeartFirst, NoShow
<1>9. (Heard("heartbeat")' <=> Heard("heartbeat")) /\ (Torn' <=> Torn)
  BY DEF Heard, Torn
<1> QED BY <1>2, <1>5, <1>7, <1>8, <1>9 DEF Inv, StageInv

\* A header that cannot be sent takes its payload with it.
LEMMA DropFrame ==
  ASSUME Inv, todo # <<>>, Head(todo).do = "header", todo' = Tail(Tail(todo)),
         UNCHANGED <<out, link>>
  PROVE  /\ todo' \in Seq(Items) /\ WireInv'
         /\ NoShow(todo) => NoShow(todo)'
         /\ link' = "up" /\ Head(todo).via # "param" => Heard("heartbeat")' \/ Torn' \/ HeartFirst(todo)'
<1> DEFINE t == Tail(todo)
<1>1. todo \in Seq(Items) /\ Paired(todo)
  BY DEF Inv, TypeOK, WireInv
<1>2. /\ t \in Seq(Items) /\ t # <<>> /\ Len(todo) > 1
      /\ todo[2].do = "payload" /\ todo[2].via = todo[1].via
      /\ Head(t) = todo[2] /\ Head(todo) = todo[1]
      /\ Paired(Tail(t))
      /\ Tail(t) # <<>> => Head(Tail(t)).do # "payload"
  BY <1>1, PairedHead, HeadAndTail
<1>3. Tail(t) \in Seq(Items)
  BY <1>2, HeadAndTail
<1>4. ~Halfway /\ ~Halfway'
  BY <1>2 DEF Halfway
<1>5. WireInv'
  <2>1. Paired(todo)' /\ FramesWhole'
    BY <1>2 DEF Inv, WireInv, Paired, FramesWhole
  <2> QED BY <2>1, <1>4 DEF Inv, WireInv
<1>6. /\ HeartFirst(todo)' <=> HeartFirst(Tail(t))
      /\ NoShow(todo)' <=> NoShow(Tail(t))
      /\ Heard("heartbeat")' <=> Heard("heartbeat")
      /\ Torn' <=> Torn
  BY DEF HeartFirst, NoShow, Heard, Torn
<1>7. ~IsHeart(Head(todo)) /\ (Head(todo).via # "param" => ~IsHeart(Head(t)))
  BY <1>2 DEF IsHeart
<1>8. /\ HeartFirst(todo) => HeartFirst(t)
      /\ NoShow(todo) => NoShow(t)
  BY <1>1, <1>7, ShorterList
<1> HIDE DEF t
<1>9. /\ HeartFirst(t) /\ Head(todo).via # "param" => HeartFirst(Tail(t))
      /\ NoShow(t) => NoShow(Tail(t))
  BY <1>2, <1>7, ShorterList
<1> QED BY <1>3, <1>5, <1>6, <1>8, <1>9 DEF Inv, StageInv, t

\* Without a connection a payload is just left out.
LEMMA DropPayload ==
  ASSUME Inv, todo # <<>>, link = "down", todo' = Tail(todo), UNCHANGED <<out, link>>
  PROVE  /\ todo' \in Seq(Items) /\ WireInv'
         /\ NoShow(todo) => NoShow(todo)'
<1>1. todo \in Seq(Items) /\ Paired(todo)
  BY DEF Inv, TypeOK, WireInv
<1>2. Tail(todo) \in Seq(Items) /\ Paired(Tail(todo)) /\ (NoShow(todo) => NoShow(Tail(todo)))
  BY <1>1, HeadAndTail, PairedTail, ShorterList
<1>3. Paired(todo)' /\ FramesWhole' /\ (NoShow(todo)' <=> NoShow(Tail(todo)))
  BY <1>2 DEF Inv, WireInv, Paired, FramesWhole, NoShow
<1> QED BY <1>2, <1>3 DEF Inv, WireInv

\* Half a frame goes out, or malloc has no memory for its payload: half is what
\* is written down of it.
GoesOut(half) ==
  /\ wpc = "run" /\ todo # <<>> /\ Head(todo).do \in Halves
  /\ half = Head(todo).do \/ (half = "lost" /\ Head(todo).do = "payload")
  /\ link = "up" /\ link' = "up" /\ todo' = Tail(todo)
  /\ out' = Append(out, [op |-> Head(todo).op, half |-> half])
  /\ UNCHANGED <<inbox, shown>>

LEMMA OutSteps ==
  ASSUME SendHalf \/ NoMemory
  PROVE  \E half \in Halves \cup {"lost"} : GoesOut(half)
<1>1. CASE SendHalf
  <2>1. GoesOut(Head(todo).do) /\ Head(todo).do \in Halves
    BY <1>1 DEF SendHalf, GoesOut, Doing, net
  <2> QED BY <2>1
<1>2. CASE NoMemory
  <2>1. GoesOut("lost")
    BY <1>2 DEF NoMemory, GoesOut, Doing, net, Halves
  <2> QED BY <2>1
<1> QED BY <1>1, <1>2

\* What one more half frame adds to what the server has heard.
LEMMA HeardByHalf ==
  ASSUME Inv, NEW half \in Halves \cup {"lost"}, GoesOut(half), NEW op \in Ops
  PROVE  /\ Heard(op) => Heard(op)'
         /\ Heard(op)' /\ ~Heard(op) => Head(todo).op = op /\ ~Torn
         /\ half = "payload" /\ Head(todo).op = op /\ ~Torn => Heard(op)'
         /\ Torn => Torn'
         /\ half = "lost" => Torn'
<1> DEFINE x == [op |-> Head(todo).op, half |-> half]
           n == Len(out)
<1>1. /\ todo \in Seq(Items) /\ Paired(todo) /\ todo # <<>> /\ Head(todo).do \in Halves
      /\ out \in Seq(Written)
  BY DEF Inv, TypeOK, WireInv, GoesOut, Written
<1>2. Head(todo) = todo[1] /\ 1 \in 1..Len(todo)
  BY <1>1, HeadAndTail
<1>3. x \in Written
  BY <1>1, <1>2 DEF Paired, Written
<1>4. out' = Append(out, x) /\ x.op = Head(todo).op /\ x.half = half
  BY DEF GoesOut
<1> HIDE DEF x
<1>5. /\ n \in Nat /\ Len(out') = n + 1 /\ out'[n + 1] = x
      /\ \A i \in 1..n : out'[i] = out[i]
  BY <1>1, <1>3, <1>4, AppendProperties
<1>6. ASSUME Heard(op) PROVE Heard(op)'
  <2>1. PICK i \in 1..n : /\ out[i] = [op |-> op, half |-> "payload"]
                          /\ \A j \in 1..i : out[j].half # "lost"
    BY <1>6 DEF Heard
  <2>2. i \in 1..(n + 1) /\ \A j \in 1..i : j \in 1..n
    BY <1>5, <2>1
  <2>3. out'[i] = [op |-> op, half |-> "payload"] /\ \A j \in 1..i : out'[j].half # "lost"
    BY <1>5, <2>1, <2>2
  <2> QED BY <1>5, <2>2, <2>3 DEF Heard
<1>7. ASSUME Heard(op)', ~Heard(op) PROVE x = [op |-> op, half |-> "payload"] /\ ~Torn
  <2>1. PICK i \in 1..(n + 1) : /\ out'[i] = [op |-> op, half |-> "payload"]
                                /\ \A j \in 1..i : out'[j].half # "lost"
    BY <1>5, <1>7 DEF Heard
  <2>2. i \notin 1..n
    <3> SUFFICES ASSUME i \in 1..n PROVE Heard(op)
      BY <1>7
    <3>1. \A j \in 1..i : j \in 1..n
      BY <1>5
    <3>2. out[i] = [op |-> op, half |-> "payload"] /\ \A j \in 1..i : out[j].half # "lost"
      BY <1>5, <2>1, <3>1
    <3> QED BY <3>2 DEF Heard
  <2>3. i = n + 1
    BY <1>5, <2>2
  <2>4. \A j \in 1..n : j \in 1..i
    BY <1>5, <2>3
  <2> QED BY <1>5, <2>1, <2>3, <2>4 DEF Torn
<1>8. ASSUME half = "payload", Head(todo).op = op, ~Torn PROVE Heard(op)'
  <2>1. x = [op |-> op, half |-> "payload"]
    BY <1>8 DEF x
  <2>2. \A j \in 1..(n + 1) : j \in 1..n \/ j = n + 1
    BY <1>5
  <2>3. \A j \in 1..(n + 1) : out'[j].half # "lost"
    BY <1>5, <1>8, <2>1, <2>2 DEF Torn
  <2>4. n + 1 \in 1..Len(out')
    BY <1>5
  <2> QED BY <1>5, <2>1, <2>3, <2>4 DEF Heard
<1>9. /\ \A i \in 1..n : i \in 1..Len(out')
      /\ n + 1 \in 1..Len(out')
  BY <1>5
<1>10. (Torn => Torn') /\ (half = "lost" => Torn')
  BY <1>4, <1>5, <1>9 DEF Torn
<1>11. x = [op |-> op, half |-> "payload"] => Head(todo).op = op
  BY <1>4
<1> QED BY <1>6, <1>7, <1>8, <1>10, <1>11

LEMMA HalfOut ==
  ASSUME Inv, NEW half \in Halves \cup {"lost"}, GoesOut(half)
  PROVE  /\ todo' \in Seq(Items) /\ out' \in Seq(Written)
         /\ WireInv' /\ StageInv'
<1> DEFINE x == [op |-> Head(todo).op, half |-> half]
           n == Len(out)
<1>1. /\ todo \in Seq(Items) /\ Paired(todo) /\ todo # <<>> /\ Head(todo).do \in Halves
      /\ link = "up" /\ link' = "up" /\ todo' = Tail(todo)
      /\ inbox' = inbox /\ shown' = shown
      /\ out \in Seq(Written)
  BY DEF Inv, TypeOK, WireInv, GoesOut, Written
<1>2. /\ Head(todo) = todo[1] /\ 1 \in 1..Len(todo)
      /\ Tail(todo) \in Seq(Items)
  BY <1>1, HeadAndTail
<1>3. Head(todo).op \in Ops /\ x \in Written
  BY <1>1, <1>2 DEF Paired, Written
<1>4. /\ out' = Append(out, x) /\ x.op = Head(todo).op /\ x.half = half
      /\ half = Head(todo).do \/ (half = "lost" /\ Head(todo).do = "payload")
  BY DEF GoesOut
<1> HIDE DEF x
<1>5. /\ out' \in Seq(Written)
      /\ n \in Nat /\ Len(out') = n + 1 /\ out'[n + 1] = x
      /\ \A i \in 1..n : out'[i] = out[i]
  BY <1>1, <1>3, <1>4, AppendProperties
<1>6. /\ Paired(Tail(todo))
      /\ Tail(todo) # <<>> /\ Head(Tail(todo)).do = "payload" => Head(todo).do = "header"
  BY <1>1, PairedTail
<1>7. Head(todo).do = "header" =>
        Tail(todo) # <<>> /\ Head(Tail(todo)).do = "payload" /\ Head(Tail(todo)).op = Head(todo).op
  BY <1>1, <1>2, PairedHead
<1>8. (n % 2 = 1 <=> Halfway) /\ (Halfway => out[n].op = Head(todo).op)
  BY <1>1 DEF Inv, WireInv
<1>9. Halfway <=> Head(todo).do = "payload"
  BY <1>1 DEF Halfway
<1>10. Halfway' <=> Head(todo).do = "header"
  BY <1>1, <1>6, <1>7 DEF Halfway, Halves
<1>11. (n + 1) % 2 = 1 <=> n % 2 = 0
  BY <1>5, Parity
<1>12. n % 2 \in {0, 1}
  BY <1>5, Parity
<1>13. FramesWhole'
  <2> SUFFICES ASSUME NEW i \in 1..Len(out')
               PROVE  IF i % 2 = 1 THEN out'[i].half = "header"
                      ELSE out'[i].half \in {"payload", "lost"} /\ out'[i].op = out'[i - 1].op
    BY DEF FramesWhole
  <2>1. CASE i \in 1..n
    <3>1. out'[i] = out[i] /\ (i > 1 => out'[i - 1] = out[i - 1])
      BY <1>5, <2>1
    <3>2. i % 2 # 1 => i > 1
      BY <2>1, <1>5
    <3>3. IF i % 2 = 1 THEN out[i].half = "header"
          ELSE out[i].half \in {"payload", "lost"} /\ out[i].op = out[i - 1].op
      BY <2>1 DEF Inv, WireInv, FramesWhole
    <3> QED BY <3>1, <3>2, <3>3
  <2>2. CASE i = n + 1
    <3>1. CASE Head(todo).do = "header"
      <4>1. i % 2 = 1
        BY <1>1, <1>8, <1>9, <1>11, <1>12, <2>2, <3>1
      <4>2. out'[i].half = "header"
        BY <1>4, <1>5, <2>2, <3>1
      <4> QED BY <4>1, <4>2
    <3>2. CASE Head(todo).do = "payload"
      <4>1. n % 2 = 1 /\ i % 2 # 1 /\ out[n].op = Head(todo).op
        BY <1>8, <1>9, <1>11, <2>2, <3>2
      <4>2. n \in 1..n /\ i - 1 = n
        BY <1>5, <2>2, <4>1
      <4>3. /\ out'[i].half \in {"payload", "lost"}
            /\ out'[i].op = Head(todo).op /\ out'[i - 1].op = out[n].op
        BY <1>4, <1>5, <2>2, <3>2, <4>2
      <4> QED BY <4>1, <4>3
    <3> QED BY <1>1, <3>1, <3>2 DEF Halves
  <2> QED BY <1>5, <2>1, <2>2
<1>14. WireInv'
  <2>1. Paired(todo)'
    BY <1>1, <1>6 DEF Paired
  <2>2. Len(out') % 2 = 1 <=> Halfway'
    BY <1>1, <1>5, <1>8, <1>9, <1>10, <1>11, <1>12 DEF Halves
  <2>3. Halfway' => out'[Len(out')].op = Head(todo').op
    BY <1>1, <1>4, <1>5, <1>7, <1>10
  <2> QED BY <1>13, <2>1, <2>2, <2>3 DEF WireInv
<1>15. \A op \in Ops : Heard(op) => Heard(op)'
  BY HeardByHalf
<1>16. Heard("identify")' /\ ~Heard("identify") => Head(todo).op = "identify" /\ ~Torn
  BY HeardByHalf DEF Ops
<1>17. IsHeart(Head(todo)) => Heard("heartbeat")' \/ Torn'
  <2>1. IsHeart(Head(todo)) => Head(todo).op = "heartbeat" /\ half \in {"payload", "lost"}
    BY <1>4 DEF IsHeart
  <2> QED BY <2>1, HeardByHalf DEF Ops
<1>18. /\ HeartFirst(todo) /\ ~IsHeart(Head(todo)) => HeartFirst(Tail(todo))
       /\ NoShow(todo) => NoShow(Tail(todo))
  BY <1>1, ShorterList
<1>19. /\ HeartFirst(todo)' <=> HeartFirst(Tail(todo))
       /\ NoShow(todo)' <=> NoShow(Tail(todo))
       /\ NoReady(inbox)' <=> NoReady(inbox)
  BY <1>1 DEF HeartFirst, NoShow, NoReady
<1>20. StageInv'
  <2>1. Heard("identify")' => Heard("heartbeat")'
    <3> SUFFICES ASSUME Heard("identify")', ~Heard("identify"), ~Heard("heartbeat") PROVE FALSE
      BY <1>15 DEF Inv, StageInv, Ops
    <3>2. todo[1].op = "identify"
      BY <1>2, <1>16
    <3>3. HeartFirst(todo)
      BY <1>1, <1>16 DEF Inv, StageInv
    <3>4. \E j \in 1..(1 - 1) : IsHeart(todo[j])
      BY <1>2, <3>2, <3>3 DEF HeartFirst
    <3> QED BY <3>4
  <2>2. Heard("heartbeat")' \/ Torn' \/ HeartFirst(todo)'
    <3>1. Torn => Torn'
      BY HeardByHalf DEF Ops
    <3> QED BY <1>1, <1>15, <1>17, <1>18, <1>19, <3>1 DEF Inv, StageInv, Ops
  <2>3. Heard("identify")' \/ (NoShow(todo)' /\ NoReady(inbox)' /\ ~shown')
    BY <1>1, <1>15, <1>18, <1>19 DEF Inv, StageInv, Ops
  <2> QED BY <2>1, <2>2, <2>3 DEF StageInv
<1> QED BY <1>1, <1>2, <1>5, <1>14, <1>20

-----------------------------------------------------------------------------
(* The invariant holds.                                                     *)

LEMMA InitInv == Init => Inv
<1> SUFFICES ASSUME Init PROVE Inv
  OBVIOUS
<1> USE DEF Init
<1>1. TypeOK
  <2>1. inbox \in Seq(Frames) /\ todo \in Seq(Items) /\ out \in Seq(Written)
    BY EmptySeq
  <2>2. nframes \in 0..MaxFrames /\ nticks \in 0..MaxTicks /\ due \in 0..1
    BY BoundsAssumption
  <2> QED BY <2>1, <2>2 DEF TypeOK, Written
<1>2. ThreadInv
  BY DEF ThreadInv, PublishedByReady
<1>3. WireInv
  BY DEF WireInv, Paired, FramesWhole, Halfway
<1>4. StageInv
  BY DEF StageInv, Heard, HeartFirst, NoShow, NoReady
<1> QED BY <1>1, <1>2, <1>3, <1>4 DEF Inv

\* Steps of the window thread, the world and the loop of the gateway thread,
\* which do not touch what a handler has left to do.
LEMMA OutsideKeepsInv ==
  ASSUME Inv, WindowThread \/ World \/ ReadFails \/ HandlerReturns
  PROVE  Inv'
<1> USE DEF ui, ws, net, cdn
<1>1. UNCHANGED <<todo, out, shown>> /\ (link' = "up" => link = "up")
  BY DEF WindowThread, World, Refused, Upgrade, Publish, Handle, Return, WindowRequest,
         WindowEnters, WindowLeaves, WindowFails, ReadFails, HandlerReturns, ThreadEnds, Elapse,
         Serve, Drop
<1>2. TypeOK'
  <2>1. ASSUME Refused \/ Upgrade \/ Publish \/ Handle \/ Return PROVE TypeOK'
    BY <2>1, <1>1 DEF Inv, TypeOK, Refused, Upgrade, Publish, Handle, Return
  <2>6. ASSUME WindowRequest \/ WindowEnters \/ WindowLeaves \/ WindowFails PROVE TypeOK'
    BY <2>6, <1>1 DEF Inv, TypeOK, WindowRequest, WindowEnters, WindowLeaves, WindowFails, Left
  <2>2. ASSUME ReadFails \/ HandlerReturns PROVE TypeOK'
    <3>0. timer \in BOOLEAN /\ due \in 0..1
      BY DEF Inv, TypeOK
    <3>1. /\ wpc' \in {"ended", "read"} /\ (due' = 0 \/ due' = due)
          /\ UNCHANGED <<ui, net, nticks, cdn>>
      BY <2>2 DEF ReadFails, HandlerReturns, ThreadEnds
    <3>2. timer' \in BOOLEAN
      BY <2>2, <3>0 DEF ReadFails, HandlerReturns, ThreadEnds
    <3>3. due' \in 0..1
      BY <3>0, <3>1
    <3> QED BY <3>1, <3>2, <3>3, <1>1 DEF Inv, TypeOK
  <2>3. ASSUME Elapse PROVE TypeOK'
    BY <2>3, <1>1, BoundsAssumption DEF Inv, TypeOK, Elapse
  <2>4. ASSUME NEW f \in Frames, Serve(f) PROVE TypeOK'
    BY <2>4, <1>1, BoundsAssumption DEF Inv, TypeOK, Serve
  <2>5. ASSUME Drop PROVE TypeOK'
    <3>1. \A k \in 0..Len(inbox) : SubSeq(inbox, 1, k) \in Seq(Frames)
      BY SubSeqProperties DEF Inv, TypeOK
    <3> QED BY <2>5, <3>1, <1>1 DEF Inv, TypeOK, Drop
  <2> QED BY <2>1, <2>2, <2>3, <2>4, <2>5, <2>6 DEF WindowThread, World
<1>3. ThreadInv'
  BY <1>1 DEF Inv, TypeOK, ThreadInv, PublishedByReady, WindowThread, World, Refused, Upgrade,
         Publish, Handle, Return, WindowRequest, WindowEnters, WindowLeaves, WindowFails, ReadFails,
         HandlerReturns, ThreadEnds, Elapse, Serve, Drop, Alive
<1>4. WireInv'
  BY <1>1, KeepWire DEF Inv
<1>5. NoReady(inbox) => NoReady(inbox') \/ Heard("identify")
  <2>1. ASSUME NEW f \in Frames, Serve(f), NoReady(inbox), ~Heard("identify") PROVE NoReady(inbox')
    <3>1. f # "ready" /\ inbox' = Append(inbox, f)
      BY <2>1 DEF Serve
    <3>2. inbox \in Seq(Frames)
      BY DEF Inv, TypeOK
    <3>3. /\ Len(inbox') = Len(inbox) + 1 /\ Len(inbox) \in Nat /\ inbox'[Len(inbox) + 1] = f
          /\ \A i \in 1..Len(inbox) : inbox'[i] = inbox[i]
      BY <3>1, <3>2, AppendProperties
    <3> QED BY <2>1, <3>1, <3>3 DEF NoReady
  <2>2. ASSUME Drop, NoReady(inbox) PROVE NoReady(inbox')
    <3>1. PICK k \in 0..Len(inbox) : inbox' = SubSeq(inbox, 1, k)
      BY <2>2 DEF Drop
    <3>2. inbox \in Seq(Frames)
      BY DEF Inv, TypeOK
    <3>3. Len(inbox') = k /\ \A i \in 1..k : inbox'[i] = inbox[i]
      BY <3>1, <3>2, SubSeqProperties
    <3> QED BY <2>2, <3>2, <3>3, LenProperties DEF NoReady
  <2>3. ASSUME WindowThread \/ Elapse \/ ReadFails \/ HandlerReturns PROVE inbox' = inbox
    BY <2>3 DEF WindowThread, Refused, Upgrade, Publish, Handle, Return, WindowRequest,
         WindowEnters, WindowLeaves, WindowFails, ReadFails, HandlerReturns, ThreadEnds, Elapse
  <2> QED BY <2>1, <2>2, <2>3 DEF World
<1>6. StageInv'
  BY <1>1, <1>5, KeepStage DEF Inv
<1> QED BY <1>2, <1>3, <1>4, <1>6 DEF Inv

\* A frame is read: the one step that gives the thread a new list.
LEMMA ReadKeepsInv ==
  ASSUME Inv, ReadFrame
  PROVE  Inv'
<1>1. /\ wpc = "read" /\ todo = <<>> /\ inbox \in Seq(Frames) /\ inbox # <<>>
      /\ inbox' = Tail(inbox)
      /\ UNCHANGED <<upc, upgraded, published, out, shown, link, nframes, nticks, cdncon, kept>>
  BY DEF Inv, TypeOK, ThreadInv, ReadFrame, ui, cdn
<1>2. Head(inbox) \in Frames /\ Tail(inbox) \in Seq(Frames)
  BY <1>1, HeadAndTail
<1>3. Fresh(todo')
  <2>1. CASE Head(inbox) = "empty"
    <3>1. todo' = <<>>
      BY <1>1, <2>1 DEF ReadFrame
    <3> QED BY <3>1 DEF Fresh, Paired, HeartFirst
  <2>2. CASE Head(inbox) # "empty"
    <3>1. Head(inbox) \in Frames \ {"empty"} /\ todo' \in Handler(Head(inbox))
      BY <1>2, <2>2 DEF ReadFrame
    <3> QED BY <3>1, FreshHandler
  <2> QED BY <2>1, <2>2
<1>4. /\ (wpc' = "ended" /\ todo' = <<>>) \/ wpc' = "run"
      /\ due' = 0 \/ due' = due
  BY <1>1 DEF ReadFrame, ThreadEnds
<1>5. timer' \in BOOLEAN /\ due' \in 0..1
  <2>1. timer \in BOOLEAN /\ due \in 0..1
    BY DEF Inv, TypeOK
  <2>2. due' \in 0..1
    BY <1>4, <2>1
  <2>3. timer' \in BOOLEAN
    BY <2>1 DEF ReadFrame, ThreadEnds
  <2> QED BY <2>2, <2>3
<1>6. TypeOK'
  <2>1. todo' \in Seq(Items) /\ inbox' \in Seq(Frames)
    BY <1>1, <1>2, <1>3 DEF Fresh
  <2> QED BY <1>1, <1>4, <1>5, <2>1 DEF Inv, TypeOK
<1>7. ThreadInv'
  BY <1>1, <1>4 DEF Inv, ThreadInv, PublishedByReady
<1>8. WireInv'
  <2>1. ~Halfway /\ ~Halfway'
    BY <1>1, <1>3 DEF Halfway, Fresh
  <2>2. Paired(todo)' /\ FramesWhole'
    BY <1>1, <1>3 DEF Inv, WireInv, FramesWhole, Fresh, Paired
  <2> QED BY <1>1, <2>1, <2>2 DEF Inv, WireInv
<1>9. StageInv'
  <2>1. HeartFirst(todo)'
    BY <1>3 DEF Fresh, HeartFirst
  <2>2. \A op : Heard(op)' <=> Heard(op)
    BY <1>1 DEF Heard
  <2>3. ASSUME ~Heard("identify") PROVE NoShow(todo)' /\ NoReady(inbox)' /\ ~shown'
    <3>1. NoReady(inbox) /\ ~shown
      BY <2>3 DEF Inv, StageInv
    <3>2. /\ Head(inbox) = inbox[1] /\ Len(inbox) \in Nat \ {0}
          /\ Len(inbox') = Len(inbox) - 1
          /\ \A i \in 1..(Len(inbox) - 1) : inbox'[i] = inbox[i + 1]
      BY <1>1, HeadAndTail
    <3>3. Head(inbox) # "ready"
      BY <3>1, <3>2 DEF NoReady
    <3>4. NoReady(inbox')
      BY <3>1, <3>2 DEF NoReady
    <3>5. NoShow(todo')
      <4>1. CASE Head(inbox) = "empty"
        BY <1>1, <4>1 DEF ReadFrame, NoShow
      <4>2. CASE Head(inbox) # "empty"
        <5>1. Head(inbox) \in Frames \ {"empty"} /\ todo' \in Handler(Head(inbox))
          BY <1>2, <4>2 DEF ReadFrame
        <5> QED BY <3>3, <5>1, FreshHandler
      <4> QED BY <4>1, <4>2
    <3> QED BY <1>1, <3>1, <3>4, <3>5 DEF NoShow, NoReady
  <2> QED BY <2>1, <2>2, <2>3 DEF Inv, StageInv
<1> QED BY <1>6, <1>7, <1>8, <1>9 DEF Inv

\* Half a frame, sent or not.
LEMMA HalfKeepsInv ==
  ASSUME Inv, SendHalf \/ NoMemory \/ SendFails \/ SendNull
  PROVE  Inv'
<1>1. /\ wpc = "run" /\ todo # <<>> /\ Head(todo).do \in Halves
      /\ UNCHANGED <<upc, upgraded, published, timer, due, shown, link, inbox, nframes, nticks, cdncon, kept>>
  BY DEF SendHalf, NoMemory, SendFails, SendNull, Doing, ui, net, cdn, Halves
<1>2. /\ todo' \in Seq(Items) /\ out' \in Seq(Written)
      /\ WireInv' /\ StageInv'
      /\ wpc' = "run" \/ (wpc' = "crashed" /\ ~published)
  <2>0. out \in Seq(Written) /\ todo \in Seq(Items)
    BY DEF Inv, TypeOK, Written
  <2>1. CASE SendHalf \/ NoMemory
    BY <1>1, <2>1, OutSteps, HalfOut DEF SendHalf, NoMemory
  <2>2. CASE SendFails
    <3>1. UNCHANGED <<out, link, wpc>> /\ link = "down"
      BY <2>2, <1>1 DEF SendFails
    <3>2. todo' \in Seq(Items) /\ WireInv' /\ (NoShow(todo) => NoShow(todo)')
      <4>1. CASE Head(todo).do = "header"
        BY <1>1, <2>2, <3>1, <4>1, DropFrame DEF SendFails
      <4>2. CASE Head(todo).do # "header"
        BY <1>1, <2>2, <3>1, <4>2, DropPayload DEF SendFails
      <4> QED BY <4>1, <4>2
    <3>3. (\A op : Heard(op)' <=> Heard(op)) /\ (Torn' <=> Torn) /\ (NoReady(inbox)' <=> NoReady(inbox))
      BY <1>1, <3>1 DEF Heard, Torn, NoReady
    <3>4. StageInv'
      BY <1>1, <3>1, <3>2, <3>3 DEF Inv, StageInv
    <3> QED BY <1>1, <2>0, <3>1, <3>2, <3>4
  <2>3. CASE SendNull
    <3>1. UNCHANGED <<out, link>> /\ Head(todo).do = "header" /\ Head(todo).via # "param" /\ ~published
      BY <2>3, <1>1 DEF SendNull, ThroughNull
    <3>2. CASE wpc' = "crashed" /\ todo' = todo
      BY <1>1, <2>0, <3>1, <3>2, KeepWire, KeepStage DEF Inv
    <3>3. CASE wpc' = wpc /\ todo' = Tail(Tail(todo))
      <4>1. /\ todo' \in Seq(Items) /\ WireInv' /\ (NoShow(todo) => NoShow(todo)')
            /\ link' = "up" => Heard("heartbeat")' \/ Torn' \/ HeartFirst(todo)'
        BY <1>1, <3>1, <3>3, DropFrame
      <4>2. (\A op : Heard(op)' <=> Heard(op)) /\ (Torn' <=> Torn) /\ (NoReady(inbox)' <=> NoReady(inbox))
        BY <1>1, <3>1 DEF Heard, Torn, NoReady
      <4>3. StageInv'
        BY <1>1, <4>1, <4>2 DEF Inv, StageInv
      <4> QED BY <1>1, <2>0, <3>1, <3>3, <4>1, <4>3
    <3> QED BY <2>3, <3>2, <3>3 DEF SendNull
  <2> QED BY <2>1, <2>2, <2>3
<1>3. TypeOK'
  BY <1>1, <1>2 DEF Inv, TypeOK, Written
<1>4. ThreadInv'
  BY <1>1, <1>2 DEF Inv, ThreadInv, PublishedByReady
<1> QED BY <1>2, <1>3, <1>4 DEF Inv

\* A box, a call into a window, or SetTimer.
LEMMA DoneKeepsInv ==
  ASSUME Inv, StartTimer \/ WindowCall \/ CloseBox
  PROVE  Inv'
<1>1. /\ wpc = "run" /\ todo # <<>> /\ Head(todo).do \notin Halves /\ todo' = Tail(todo)
      /\ UNCHANGED <<upc, upgraded, published, wpc, out, due, link, inbox, nframes, nticks, cdncon, kept>>
  BY DEF StartTimer, WindowCall, CloseBox, Doing, ui, net, cdn, Halves
<1>2. /\ todo' \in Seq(Items) /\ WireInv'
      /\ link' = "up" => Heard("heartbeat")' \/ Torn' \/ HeartFirst(todo)'
      /\ NoShow(todo) => NoShow(todo)'
  BY <1>1, DropHead
<1>3. timer' \in BOOLEAN /\ shown' \in BOOLEAN
  BY DEF Inv, TypeOK, StartTimer, WindowCall, CloseBox
<1>4. shown' => shown \/ (upc = "loop" /\ ~NoShow(todo))
  <2>1. ASSUME WindowCall, Head(todo).do = "show" PROVE upc = "loop" /\ ~NoShow(todo)
    <3>1. 1 \in 1..Len(todo) /\ todo[1] = Head(todo)
      BY <1>1, HeadAndTail DEF Inv, TypeOK
    <3> QED BY <2>1, <3>1 DEF WindowCall, NoShow
  <2> QED BY <2>1 DEF StartTimer, WindowCall, CloseBox
<1>5. TypeOK'
  BY <1>1, <1>2, <1>3 DEF Inv, TypeOK
<1>6. ThreadInv'
  BY <1>1, <1>4 DEF Inv, ThreadInv, PublishedByReady
<1>7. StageInv'
  <2>1. (\A op : Heard(op)' <=> Heard(op)) /\ (Torn' <=> Torn) /\ (NoReady(inbox)' <=> NoReady(inbox))
    BY <1>1 DEF Heard, Torn, NoReady
  <2> QED BY <1>1, <1>2, <1>4, <2>1 DEF Inv, StageInv
<1> QED BY <1>2, <1>5, <1>6, <1>7 DEF Inv

\* The heartbeat a box dispatches goes in front of what the handler still does.
LEMMA HeartbeatKeepsInv ==
  ASSUME Inv, Heartbeat
  PROVE  Inv'
<1>1. /\ wpc = "run" /\ todo # <<>> /\ Head(todo).do = "box" /\ due' = 0
      /\ todo' = Send("heartbeat", "GatewaySSL") \o todo
      /\ UNCHANGED <<upc, upgraded, published, wpc, out, timer, shown, link, inbox, nframes, nticks, cdncon, kept>>
  BY DEF Heartbeat, Doing, ui, net, cdn
<1>2. todo \in Seq(Items) /\ Paired(todo)
  BY DEF Inv, TypeOK, WireInv
<1>3. /\ todo' \in Seq(Items) /\ todo' # <<>> /\ Head(todo').do = "header" /\ Paired(todo')
      /\ HeartFirst(todo) => HeartFirst(todo')
      /\ NoShow(todo) => NoShow(todo')
  BY <1>1, <1>2, FrameInFront
<1>4. TypeOK'
  BY <1>1, <1>3 DEF Inv, TypeOK
<1>5. ThreadInv'
  BY <1>1 DEF Inv, ThreadInv, PublishedByReady
<1>6. WireInv'
  <2>1. ~Halfway /\ ~Halfway'
    BY <1>1, <1>3 DEF Halfway
  <2>2. Paired(todo)' /\ FramesWhole'
    BY <1>1, <1>3 DEF Inv, WireInv, FramesWhole, Paired
  <2> QED BY <1>1, <2>1, <2>2 DEF Inv, WireInv
<1>7. StageInv'
  <2>1. (\A op : Heard(op)' <=> Heard(op)) /\ (Torn' <=> Torn) /\ (NoReady(inbox)' <=> NoReady(inbox))
    BY <1>1 DEF Heard, Torn, NoReady
  <2>2. (HeartFirst(todo)' <=> HeartFirst(todo')) /\ (NoShow(todo)' <=> NoShow(todo'))
    BY DEF HeartFirst, NoShow
  <2> QED BY <1>1, <1>3, <2>1, <2>2 DEF Inv, StageInv
<1> QED BY <1>4, <1>5, <1>6, <1>7 DEF Inv

\* A picture is requested, the section is left, or the request fails in it.
LEMMA RequestKeepsInv ==
  ASSUME Inv, Request \/ RequestLeaves \/ RequestFails
  PROVE  Inv'
<1>0. /\ todo # <<>> /\ Head(todo).do = "request" /\ todo \in Seq(Items) /\ Paired(todo)
      /\ Head(todo).do \notin Halves
      /\ UNCHANGED <<upc, upgraded, published, out, timer, due, shown, link, inbox, nframes, nticks>>
  BY DEF Inv, TypeOK, ThreadInv, WireInv, Request, RequestLeaves, RequestFails, Doing, ui, net, Halves
<1>1. CASE Request
  <2>1. TypeOK' /\ ThreadInv'
    BY <1>0, <1>1 DEF Inv, TypeOK, ThreadInv, PublishedByReady, Request, Doing
  <2>2. todo' = todo
    BY <1>1 DEF Request
  <2>3. WireInv' /\ StageInv'
    BY <1>0, <2>2, KeepWire, KeepStage DEF Inv
  <2> QED BY <2>1, <2>3 DEF Inv
<1>2. ASSUME \/ RequestLeaves
             \/ RequestFails /\ todo' = Tail(todo)
             \/ RequestFails /\ todo' = <<Item("box")>> \o Tail(todo)
      PROVE  Inv'
  <2> DEFINE t == Tail(todo)
  <2>1. t \in Seq(Items) /\ Paired(t) /\ (t # <<>> => Head(t).do # "payload")
    BY <1>0, HeadAndTail, PairedTail
  <2>2. /\ HeartFirst(todo) => HeartFirst(t)
        /\ NoShow(todo) => NoShow(t)
    BY <1>0, ShorterList DEF IsHeart
  <2>3. todo' = t \/ todo' = <<Item("box")>> \o t
    BY <1>2 DEF RequestLeaves
  <2> HIDE DEF t
  <2>4. /\ todo' \in Seq(Items) /\ Paired(todo') /\ (todo' # <<>> => Head(todo').do # "payload")
        /\ HeartFirst(todo) => HeartFirst(todo')
        /\ NoShow(todo) => NoShow(todo')
    <3>1. CASE todo' = t
      BY <2>1, <2>2, <3>1
    <3>2. CASE todo' = <<Item("box")>> \o t
      BY <2>1, <2>2, <3>2, BoxInFront
    <3> QED BY <2>3, <3>1, <3>2
  <2>5. /\ wpc = "inside" /\ wpc' \in {"run", "stuck"}
        /\ cdncon' \in {"free", "gateway", cdncon} /\ kept' \in {TRUE, kept}
    BY <1>2 DEF RequestLeaves, RequestFails, Left
  <2>6. TypeOK'
    BY <1>0, <2>4, <2>5 DEF Inv, TypeOK
  <2>7. ThreadInv'
    BY <1>0, <2>5 DEF Inv, ThreadInv, PublishedByReady
  <2>8. WireInv'
    <3>1. ~Halfway /\ ~Halfway'
      BY <1>0, <2>4 DEF Halfway
    <3>2. Paired(todo)' /\ FramesWhole'
      BY <1>0, <2>4 DEF Inv, WireInv, FramesWhole, Paired
    <3> QED BY <1>0, <3>1, <3>2 DEF Inv, WireInv
  <2>9. StageInv'
    <3>1. (\A op : Heard(op)' <=> Heard(op)) /\ (Torn' <=> Torn) /\ (NoReady(inbox)' <=> NoReady(inbox))
      BY <1>0 DEF Heard, Torn, NoReady
    <3>2. (HeartFirst(todo)' <=> HeartFirst(todo')) /\ (NoShow(todo)' <=> NoShow(todo'))
      BY DEF HeartFirst, NoShow
    <3> QED BY <1>0, <2>4, <3>1, <3>2 DEF Inv, StageInv
  <2> QED BY <2>6, <2>7, <2>8, <2>9 DEF Inv
<1>3. CASE RequestFails /\ todo' = todo /\ wpc' = "stuck"
  <2>1. TypeOK' /\ ThreadInv'
    BY <1>0, <1>3 DEF Inv, TypeOK, ThreadInv, PublishedByReady, RequestFails
  <2>2. WireInv' /\ StageInv'
    BY <1>0, <1>3, KeepWire, KeepStage DEF Inv
  <2> QED BY <2>1, <2>2 DEF Inv
<1> QED BY <1>1, <1>2, <1>3 DEF RequestFails

LEMMA StepInv == Inv /\ [Next]_vars => Inv'
<1> SUFFICES ASSUME Inv, [Next]_vars PROVE Inv'
  OBVIOUS
<1>1. CASE Next
  BY <1>1, OutsideKeepsInv, ReadKeepsInv, HalfKeepsInv, DoneKeepsInv, HeartbeatKeepsInv,
     RequestKeepsInv
  DEF Next, GatewayThread
<1>2. CASE UNCHANGED vars
  <2>1. /\ UNCHANGED <<upc, upgraded, published, link, inbox, nframes>>
        /\ UNCHANGED <<wpc, todo, out, timer, due, shown, nticks, cdncon, kept>>
    BY <1>2 DEF vars, ui, ws, net, cdn
  <2>2. TypeOK' /\ ThreadInv'
    BY <2>1 DEF Inv, TypeOK, ThreadInv, PublishedByReady
  <2>3. WireInv' /\ StageInv'
    BY <2>1, KeepWire, KeepStage DEF Inv
  <2> QED BY <2>2, <2>3 DEF Inv
<1> QED BY <1>1, <1>2

LEMMA InvHolds == Spec => []Inv
BY InitInv, StepInv, PTL DEF Spec

-----------------------------------------------------------------------------
(* What follows from it.                                                    *)

\* The variables stay in their types; in particular no handler drops an item
\* that is not there.
THEOREM TypeCorrect == Spec => []TypeOK
<1>1. Inv => TypeOK
  BY DEF Inv
<1> QED BY <1>1, InvHolds, PTL

\* SendWebSocket's two writes stay together on the socket: no heartbeat of a
\* box comes between the header and the payload of another frame, and a header
\* is without its payload only where malloc had no memory for it.
THEOREM WholeFrames == Spec => []FramesWhole
<1>1. Inv => FramesWhole
  BY DEF Inv, WireInv
<1> QED BY <1>1, InvHolds, PTL

\* When READY is in the window *out_ssl = ssl has been done, and a thread that
\* died in SSL_write(NULL, ...) died before it.
THEOREM PublishedFirst == Spec => []PublishedByReady
<1>1. Inv => PublishedByReady
  BY DEF Inv, ThreadInv
<1> QED BY <1>1, InvHolds, PTL

\* The stage of the session, as Gateway maps it.
Stage == IF wpc \in {"ended", "crashed"} THEN "gone"
         ELSE IF shown THEN "ready"
         ELSE IF Heard("identify") THEN "identified"
         ELSE IF Heard("heartbeat") THEN "greeted"
         ELSE IF wpc = "none" THEN "off" ELSE "connected"

LEMMA SessionInit == Init => Session!Init
BY DEF Init, Session!Init, Heard

\* The steps of the abstract session.
LEMMA StageSteps ==
  ASSUME \/ Stage = "off" /\ Stage' = "connected"
         \/ Stage = "connected" /\ Stage' = "greeted"
         \/ Stage = "greeted" /\ Stage' = "identified"
         \/ Stage = "identified" /\ Stage' = "ready"
         \/ Stage # "gone" /\ Stage' = "gone"
  PROVE  Session!Next
<1>1. CASE Stage # "gone" /\ Stage' = "gone"
  <2>1. Session!Lose
    BY <1>1 DEF Session!Lose, Stage
  <2> QED BY <2>1 DEF Session!Next
<1>2. CASE ~(Stage # "gone" /\ Stage' = "gone")
  <2> DEFINE steps == Session!Stages
  <2>1. /\ Len(steps) = 5 /\ steps[1] = "off" /\ steps[2] = "connected"
        /\ steps[3] = "greeted" /\ steps[4] = "identified" /\ steps[5] = "ready"
    BY DEF Session!Stages
  <2>2. \E i \in 1..(Len(steps) - 1) : Stage = steps[i] /\ Stage' = steps[i + 1]
    <3> HIDE DEF steps
    <3>1. CASE Stage = "off" /\ Stage' = "connected"
      <4>1. Stage = steps[1] /\ Stage' = steps[1 + 1]
        BY <2>1, <3>1
      <4> QED BY <2>1, <4>1
    <3>2. CASE Stage = "connected" /\ Stage' = "greeted"
      <4>1. Stage = steps[2] /\ Stage' = steps[2 + 1]
        BY <2>1, <3>2
      <4> QED BY <2>1, <4>1
    <3>3. CASE Stage = "greeted" /\ Stage' = "identified"
      <4>1. Stage = steps[3] /\ Stage' = steps[3 + 1]
        BY <2>1, <3>3
      <4> QED BY <2>1, <4>1
    <3>4. CASE Stage = "identified" /\ Stage' = "ready"
      <4>1. Stage = steps[4] /\ Stage' = steps[4 + 1]
        BY <2>1, <3>4
      <4> QED BY <2>1, <4>1
    <3> QED BY <1>2, <3>1, <3>2, <3>3, <3>4
  <2>3. Session!Advance
    BY <2>2 DEF Session!Advance, Stage
  <2> QED BY <2>3 DEF Session!Next
<1> QED BY <1>1, <1>2

\* Each step of the threads moves the session one stage on, ends it, or leaves it.
LEMMA SessionStep == Inv /\ Inv' /\ [Next]_vars => Session!Next \/ UNCHANGED Stage
<1> SUFFICES ASSUME Inv, Inv', [Next]_vars PROVE Session!Next \/ Stage' = Stage
  OBVIOUS
<1>1. ASSUME SendHalf \/ NoMemory PROVE Session!Next \/ Stage' = Stage
  <2>1. UNCHANGED <<wpc, shown>> /\ wpc = "run"
    BY <1>1 DEF SendHalf, NoMemory, Doing
  <2>0. PICK half \in Halves \cup {"lost"} : GoesOut(half)
    BY <1>1, OutSteps
  <2>2. /\ Heard("heartbeat") => Heard("heartbeat")'
        /\ Heard("identify") => Heard("identify")'
        /\ Heard("heartbeat") \/ Heard("identify") \/ ~Heard("heartbeat")' \/ ~Heard("identify")'
    BY <2>0, HeardByHalf DEF Ops
  <2>3. /\ Heard("identify") => Heard("heartbeat")
        /\ Heard("identify")' => Heard("heartbeat")'
    BY DEF Inv, StageInv
  <2>4. \/ Stage' = Stage
        \/ Stage = "connected" /\ Stage' = "greeted"
        \/ Stage = "greeted" /\ Stage' = "identified"
    BY <2>1, <2>2, <2>3 DEF Stage
  <2> QED BY <2>4, StageSteps
<1>2. ASSUME UNCHANGED out, ~shown, shown' PROVE Session!Next \/ Stage' = Stage
  <2>1. CASE WindowCall
    <3>1. wpc = "run" /\ wpc' = "run"
      BY <2>1 DEF WindowCall, Doing
    <3>2. Heard("identify")'
      BY <1>2 DEF Inv, StageInv
    <3>3. Heard("identify")
      BY <1>2, <3>2 DEF Heard
    <3>4. Stage = "identified" /\ Stage' = "ready"
      BY <1>2, <3>1, <3>3 DEF Stage
    <3> QED BY <3>4, StageSteps
  <2>2. CASE ~WindowCall
    <3>1. shown' = shown
      BY <1>2, <2>2 DEF Next, WindowThread, GatewayThread, World, Refused, Upgrade, Publish, Handle,
         Return, WindowRequest, WindowEnters, WindowLeaves, WindowFails, ReadFrame, ReadFails,
         HandlerReturns, SendHalf, NoMemory, SendFails, SendNull, StartTimer, Request,
         RequestLeaves, RequestFails, CloseBox, Heartbeat, Elapse, Serve, Drop, vars, ws
    <3> QED BY <1>2, <3>1
  <2> QED BY <2>1, <2>2
<1>3. ASSUME UNCHANGED <<out, shown>> PROVE Session!Next \/ Stage' = Stage
  <2> DEFINE Working == {"read", "run", "inside", "stuck"}
  <2>1. \A op : Heard(op)' <=> Heard(op)
    BY <1>3 DEF Heard
  <2>2. CASE wpc' = wpc
    <3>1. Stage' = Stage
      BY <1>3, <2>1, <2>2 DEF Stage
    <3> QED BY <3>1
  <2>3. CASE wpc' # wpc
    <3>1. \/ wpc = "none" /\ wpc' = "read"
          \/ wpc \in Working /\ wpc' \in Working \cup {"ended", "crashed"}
      <4>1. upc = "handshake" => wpc = "none"
        BY DEF Inv, ThreadInv
      <4> QED BY <2>3, <4>1 DEF Next, WindowThread, GatewayThread, World, Refused, Upgrade, Publish,
         Handle, Return, WindowRequest, WindowEnters, WindowLeaves, WindowFails, ReadFrame,
         ReadFails, HandlerReturns, SendHalf, NoMemory, SendFails, SendNull, StartTimer, Request,
         RequestLeaves, RequestFails, WindowCall, CloseBox, Heartbeat, Elapse, Serve, Drop, Doing,
         ThreadEnds, vars, ws
    <3>2. CASE wpc = "none" /\ wpc' = "read"
      <4>1. ~shown /\ out = <<>>
        BY <3>2 DEF Inv, ThreadInv
      <4>2. \A op : ~Heard(op)
        BY <4>1 DEF Heard
      <4>3. Stage = "off" /\ Stage' = "connected"
        BY <1>3, <2>1, <3>2, <4>1, <4>2 DEF Stage
      <4> QED BY <4>3, StageSteps
    <3>3. CASE wpc \in Working /\ wpc' \in {"ended", "crashed"}
      <4>1. Stage # "gone" /\ Stage' = "gone"
        BY <3>3 DEF Stage
      <4> QED BY <4>1, StageSteps
    <3>4. CASE wpc \in Working /\ wpc' \in Working
      <4>1. Stage' = Stage
        BY <1>3, <2>1, <3>4 DEF Stage
      <4> QED BY <4>1
    <3> QED BY <3>1, <3>2, <3>3, <3>4
  <2> QED BY <2>2, <2>3
<1>4. SendHalf \/ NoMemory \/ (UNCHANGED out /\ (UNCHANGED shown \/ (~shown /\ shown')))
  BY DEF Inv, TypeOK, Next, WindowThread, GatewayThread, World, Refused, Upgrade, Publish, Handle,
     Return, WindowRequest, WindowEnters, WindowLeaves, WindowFails, ReadFrame, ReadFails,
     HandlerReturns, SendFails, SendNull, StartTimer, Request, RequestLeaves, RequestFails,
     WindowCall, CloseBox, Heartbeat, Elapse, Serve, Drop, vars, ws
<1> QED BY <1>1, <1>2, <1>3, <1>4

\* OpenWebSocket and its thread run a session in order: connected, heartbeat,
\* identify, READY, as the server hears them, none of them skipped or undone
\* even when malloc tears a frame, and the end of the thread is final.
THEOREM RunsAsSession == Spec => RunsSession
<1>1. Inv /\ Inv' /\ [Next]_vars => [Session!Next]_Stage
  BY SessionStep
<1> QED BY <1>1, SessionInit, InvHolds, PTL DEF Spec, RunsSession, Session!Spec, Stage
=============================================================================
