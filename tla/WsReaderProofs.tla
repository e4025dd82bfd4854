---------------------------- MODULE WsReaderProofs ----------------------------
(***************************************************************************)
(* Proofs about WsReader, for any number of frames of any length.          *)
(*                                                                         *)
(* The reader has no view of the server's messages; what ties the two      *)
(* together is the stream between them.  The invariant gives each place in *)
(* it, before the first unit, between two and after the last, the state in *)
(* which a reader is that has read as far.                                 *)
(***************************************************************************)
EXTENDS WsReader, SequenceTheorems, WellFoundedInduction, TLAPS

-----------------------------------------------------------------------------
(* The places of the stream.                                                *)

\* A reader in the middle of message msg, of which it has the first units up to
\* at, and in a frame with left more.
Place == [msg : Nat, at : Nat, fin : BOOLEAN, left : Nat, pc : {"length", "ext", "payload"}]

At(m, at, f, left, pc) == [msg |-> m, at |-> at, fin |-> f, left |-> left, pc |-> pc]

\* The frame is read.  What comes next is a fragment of the same message, or
\* the next one.
Done(a)    == a.pc = "payload" /\ a.left = 0
NextMsg(a) == IF a.fin THEN a.msg + 1 ELSE a.msg
NextAt(a)  == IF a.fin THEN 0 ELSE a.at

\* After a core unit, a length unit with more to come, the whole length, and
\* k units of payload.
Opened(a, f) == At(NextMsg(a), NextAt(a), f, 0, "length")
Widened(a)   == At(a.msg, a.at, a.fin, 0, "ext")
Sized(a, n)  == At(a.msg, a.at, a.fin, n, "payload")
Filled(a, k) == At(a.msg, a.at + k, a.fin, a.left - k, "payload")

\* Unit u takes a reader from a to b.
Follows(a, u, b) ==
  \/ Done(a) /\ u.kind = "core" /\ b = Opened(a, u.fin)
  \/ /\ a.pc = "length" /\ u.kind = "length"
     /\ b = IF u.ext THEN Widened(a) ELSE Sized(a, u.n)
  \/ a.pc = "ext" /\ u.kind = "ext" /\ b = Sized(a, u.n)
  \/ a.pc = "payload" /\ a.left > 0 /\ u.kind = "payload"

Labels == [0..Len(stream) -> Place]

\* The payload units of a frame come one after the other.
Runs(lab) ==
  \A p \in 0..Len(stream) : lab[p].pc = "payload" =>
    \A k \in 1..lab[p].left : p + k <= Len(stream) =>
      stream[p + k].kind = "payload" /\ lab[p + k] = Filled(lab[p], k)

Track(lab) ==
  /\ \A p \in 0..Len(stream) : p < Len(stream) => Follows(lab[p], stream[p + 1], lab[p + 1])
  /\ \A p \in 0..Len(stream) : lab[p].pc # "payload" => lab[p].left = 0
  /\ Runs(lab)
  /\ link = "up" \/ "cut" \notin hurt => Done(lab[Len(stream)])

-----------------------------------------------------------------------------
(* The messages.                                                            *)

\* What the server has sent of its message number m.
Text(m) == IF m \in 1..Len(sent) THEN sent[m] ELSE IF m = Len(sent) + 1 THEN partial ELSE <<>>

Sound(a) ==
  /\ a.msg <= Len(sent) + 1 /\ a.at + a.left <= Len(Text(a.msg))
  /\ a.pc = "payload" /\ a.fin => a.msg <= Len(sent) /\ a.at + a.left = Len(Text(a.msg))

\* The units are the server's messages.
Faithful(lab) ==
  /\ \A p \in 0..Len(stream) : Sound(lab[p])
  /\ \A p \in 0..Len(stream) : lab[p].pc = "payload" =>
       \A k \in 1..lab[p].left : p + k <= Len(stream) =>
         stream[p + k].id = Text(lab[p].msg)[lab[p].at + k]
  /\ link = "up" => /\ NextMsg(lab[Len(stream)]) = Len(sent) + 1
                    /\ NextAt(lab[Len(stream)]) = Len(partial)

Whole == \A i \in 1..Len(taken) : i <= Len(sent) /\ taken[i] = sent[i]

Begun ==
  /\ Len(taken) <= Len(sent) /\ Len(buffer) <= Len(Text(Len(taken) + 1))
  /\ \A i \in 1..Len(buffer) : buffer[i] = Text(Len(taken) + 1)[i]

Pure == "control" \notin hurt

-----------------------------------------------------------------------------
(* The inductive invariant.                                                 *)

\* The reader is at place a, which is the first.
HereAt(a) ==
  IF rpc = "core"
  THEN Done(a) /\ rest = 0 /\ Len(taken) + 1 = NextMsg(a) /\ Len(buffer) = NextAt(a)
  ELSE a = At(Len(taken) + 1, Len(buffer), fin, rest, rpc)
Here(lab) == HereAt(lab[0])

Synced ==
  \E lab \in Labels : Track(lab) /\ Here(lab) /\ (Pure => Whole /\ Begun /\ Faithful(lab))

\* The connection ended inside a header, and the reader took what it had for
\* the length.
Astray ==
  /\ stream = <<>> /\ link = "down" /\ "cut" \in hurt
  /\ rpc = "core" \/ (rpc = "payload" /\ (Pure => Whole /\ Begun))

\* No length is split unless that may happen.
SplitAllowed ==
  \A i \in 1..Len(stream) :
    stream[i].kind = "ext" /\ stream[i].split = TRUE => "split" \in Hardships

SmallInv ==
  /\ hurt = {} => nclean = Len(taken)
  /\ "cut" \in hurt => link = "down"
  /\ SplitAllowed

Inv ==
  /\ TypeOK /\ SmallInv
  /\ rpc \in {"ended", "lost"} \/ Synced \/ Astray
  /\ WholeButLast

-----------------------------------------------------------------------------
(* Units and frames.                                                        *)

LEMMA Units ==
  ASSUME NEW u \in Unit
  PROVE  /\ u.kind \in {"core", "length", "ext", "payload"}
         /\ u.kind = "core" => u.fin \in BOOLEAN
         /\ u.kind = "length" => u.n \in Nat /\ u.ext \in BOOLEAN
         /\ u.kind = "ext" => u.n \in Nat /\ u.split \in BOOLEAN
         /\ u.kind = "payload" => u.id \in Nat
BY DEF Unit

CoreUnit(f, op)    == [kind |-> "core", fin |-> f, op |-> op]
LengthUnit(n, ext) == [kind |-> "length", n |-> n, ext |-> ext]
ExtUnit(n, split)  == [kind |-> "ext", n |-> n, split |-> split]
PayloadUnit(id)    == [kind |-> "payload", id |-> id]
Short(n)           == LengthUnit(n, FALSE)
Long(n)            == LengthUnit(n, TRUE)

\* A frame has a header of h units.
Fits(f, op, n, ext, split, h) ==
  /\ f \in BOOLEAN /\ n \in Nat
  /\ CoreUnit(f, op) \in Unit /\ LengthUnit(n, ext) \in Unit /\ ExtUnit(n, split) \in Unit
  /\ (ext = TRUE /\ h = 3) \/ (ext = FALSE /\ h = 2)

\* How each kind of unit takes a reader on.
LEMMA FollowsUnit ==
  ASSUME NEW a, NEW b
  PROVE  /\ \A f, op : Done(a) /\ b = Opened(a, f) => Follows(a, CoreUnit(f, op), b)
         /\ \A n : a.pc = "length" /\ b = Widened(a) => Follows(a, Long(n), b)
         /\ \A n : a.pc = "length" /\ b = Sized(a, n) => Follows(a, Short(n), b)
         /\ \A n, split : a.pc = "ext" /\ b = Sized(a, n) => Follows(a, ExtUnit(n, split), b)
         /\ \A id : a.pc = "payload" /\ a.left > 0 => Follows(a, PayloadUnit(id), b)
<1>1. \A f, op : CoreUnit(f, op).kind = "core" /\ CoreUnit(f, op).fin = f
  BY DEF CoreUnit
<1>2. \A n, ext : /\ LengthUnit(n, ext).kind = "length" /\ LengthUnit(n, ext).n = n
                  /\ LengthUnit(n, ext).ext = ext
  BY DEF LengthUnit
<1>3. \A n, split : ExtUnit(n, split).kind = "ext" /\ ExtUnit(n, split).n = n
  BY DEF ExtUnit
<1>4. \A id : PayloadUnit(id).kind = "payload"
  BY DEF PayloadUnit
<1>5. \A f, op : Done(a) /\ b = Opened(a, f) => Follows(a, CoreUnit(f, op), b)
  BY <1>1, Zenon DEF Follows
<1>6. ASSUME NEW n, a.pc = "length", b = Widened(a)
      PROVE  Follows(a, Long(n), b)
  <2>1. Long(n).kind = "length" /\ Long(n).ext
    BY <1>2, Zenon DEF Short, Long
  <2> QED
    BY <1>6, <2>1, Zenon DEF Follows
<1>7. ASSUME NEW n, a.pc = "length", b = Sized(a, n)
      PROVE  Follows(a, Short(n), b)
  <2>1. Short(n).kind = "length" /\ Short(n).n = n
        /\ ~Short(n).ext
    BY <1>2, Zenon DEF Short, Long
  <2> QED
    BY <1>7, <2>1, Zenon DEF Follows
<1>8. \A n, split : a.pc = "ext" /\ b = Sized(a, n) => Follows(a, ExtUnit(n, split), b)
  BY <1>3, Zenon DEF Follows
<1>9. \A id : a.pc = "payload" /\ a.left > 0 => Follows(a, PayloadUnit(id), b)
  BY <1>4, Zenon DEF Follows
<1> QED
  BY <1>5, <1>6, <1>7, <1>8, <1>9, Zenon

LEMMA PlaceFields ==
  ASSUME NEW a \in Place
  PROVE  /\ a.msg \in Nat /\ a.at \in Nat /\ a.fin \in BOOLEAN /\ a.left \in Nat
         /\ a.pc \in {"length", "ext", "payload"}
         /\ NextMsg(a) \in Nat /\ NextAt(a) \in Nat
BY DEF Place, NextMsg, NextAt

LEMMA Indexed ==
  ASSUME NEW n \in Nat, NEW S, NEW s, s \in [1..n -> S]
  PROVE  s \in Seq(S) /\ Len(s) = n
OBVIOUS

LEMMA Joined ==
  ASSUME NEW S, NEW s \in Seq(S), NEW t \in Seq(S)
  PROVE  /\ s \o t \in Seq(S) /\ Len(s \o t) = Len(s) + Len(t)
         /\ \A i \in 1..Len(s) : (s \o t)[i] = s[i]
         /\ \A i \in 1..Len(t) : (s \o t)[Len(s) + i] = t[i]
OBVIOUS

Ids(n) == [i \in 1..n |-> nunits + i]

LEMMA IdsAre ==
  ASSUME TypeOK, NEW n \in Nat
  PROVE  Ids(n) \in Seq(Nat) /\ Len(Ids(n)) = n /\ \A i \in 1..n : Ids(n)[i] = nunits + i
<1> DEFINE s == Ids(n)
<1>1. s \in [1..n -> Nat] /\ \A i \in 1..n : s[i] = nunits + i
  BY DEF Ids, TypeOK
<1> HIDE DEF s
<1>2. s \in Seq(Nat) /\ Len(s) = n
  BY <1>1, Indexed
<1> QED
  BY <1>1, <1>2 DEF s

-----------------------------------------------------------------------------
(* What the server sends stays.                                             *)

LEMMA TextType ==
  ASSUME TypeOK, NEW m \in Nat
  PROVE  /\ Text(m) \in Seq(Nat) /\ Len(Text(m)) \in Nat /\ Len(sent) \in Nat
         /\ m \in 1..Len(sent) => Text(m) = sent[m]
         /\ m = Len(sent) + 1 => Text(m) = partial
<1> DEFINE S == Seq(Nat)
<1>1. sent \in Seq(S) /\ partial \in S
  BY DEF TypeOK
<1> HIDE DEF S
<1>2. Len(sent) \in Nat /\ \A i \in 1..Len(sent) : sent[i] \in S
  BY <1>1
<1>3. <<>> \in S
  BY DEF S
<1>4. Text(m) \in S
  BY <1>1, <1>2, <1>3 DEF Text
<1> QED
  BY <1>2, <1>4 DEF S, Text

\* The server has finished a message, or goes on with one.
Grows ==
  /\ Len(sent') \in Nat /\ Len(sent') >= Len(sent)
  /\ \A m \in 1..Len(sent) : sent'[m] = sent[m]
  /\ \A m \in Nat : m <= Len(sent) => Text(m)' = Text(m)
  /\ \A m \in Nat : m <= Len(sent) + 1 =>
       /\ Len(Text(m)') \in Nat /\ Len(Text(m)') >= Len(Text(m))
       /\ \A i \in 1..Len(Text(m)) : Text(m)'[i] = Text(m)[i]

LEMMA Stays ==
  ASSUME TypeOK, UNCHANGED <<sent, partial>>
  PROVE  Grows
<1>1. Len(sent) \in Nat /\ \A m \in Nat : Len(Text(m)) \in Nat
  BY TextType, 0 \in Nat
<1>2. \A m \in Nat : Text(m)' = Text(m)
  BY DEF Text
<1>3. \A m \in Nat : /\ Len(Text(m)') \in Nat /\ Len(Text(m)') >= Len(Text(m))
                     /\ \A i \in 1..Len(Text(m)) : Text(m)'[i] = Text(m)[i]
  <2> SUFFICES ASSUME NEW m \in Nat
               PROVE  /\ Len(Text(m)') \in Nat /\ Len(Text(m)') >= Len(Text(m))
                      /\ \A i \in 1..Len(Text(m)) : Text(m)'[i] = Text(m)[i]
    OBVIOUS
  <2>1. Text(m)' = Text(m) /\ Len(Text(m)) \in Nat
    BY <1>1, <1>2
  <2> QED
    BY <2>1
<1> QED
  BY <1>1, <1>2, <1>3 DEF Grows

\* A frame with n units of payload ends a message, or does not.
Sends(f, n) ==
  \/ f = TRUE /\ partial' = <<>> /\ sent' = Append(sent, partial \o Ids(n))
  \/ f = FALSE /\ partial' = partial \o Ids(n) /\ sent' = sent

LEMMA FrameGrows ==
  ASSUME TypeOK, NEW n \in Nat, NEW f, Sends(f, n)
  PROVE  /\ Grows
         /\ partial' \in Seq(Nat) /\ sent' \in Seq(Seq(Nat))
         /\ f = TRUE => Len(sent') = Len(sent) + 1 /\ Len(partial') = 0
         /\ f = FALSE => Len(sent') = Len(sent) /\ Len(partial') = Len(partial) + n
         /\ \A m \in Nat : m = Len(sent) + 1 =>
              /\ Len(Text(m)') = Len(partial) + n
              /\ \A i \in 1..n : Text(m)'[Len(partial) + i] = nunits + i
<1> DEFINE t == partial \o Ids(n)
           S == Seq(Nat)
<1>1. partial \in Seq(Nat) /\ sent \in Seq(S) /\ <<>> \in S
  BY DEF TypeOK
<1>2. Ids(n) \in Seq(Nat) /\ Len(Ids(n)) = n /\ \A i \in 1..n : Ids(n)[i] = nunits + i
  BY IdsAre
<1>3. /\ t \in S /\ Len(t) = Len(partial) + n
      /\ \A i \in 1..Len(partial) : t[i] = partial[i]
      /\ \A i \in 1..n : t[Len(partial) + i] = nunits + i
  <2>1. /\ t \in Seq(Nat) /\ Len(t) = Len(partial) + Len(Ids(n))
        /\ \A i \in 1..Len(partial) : t[i] = partial[i]
        /\ \A i \in 1..Len(Ids(n)) : t[Len(partial) + i] = Ids(n)[i]
    <3>1. partial \in Seq(Nat) /\ Ids(n) \in Seq(Nat)
      BY <1>1, <1>2
    <3> QED
      BY <3>1
  <2> QED
    BY <1>2, <2>1
<1>4. Len(sent) \in Nat /\ Len(partial) \in Nat
  BY <1>1
<1>5. \/ f = TRUE /\ partial' = <<>> /\ sent' = Append(sent, t)
      \/ f = FALSE /\ partial' = t /\ sent' = sent
  BY DEF Sends
<1> HIDE DEF t, S
<1>6. /\ sent' \in Seq(S) /\ partial' \in S
      /\ \A m \in 1..Len(sent) : sent'[m] = sent[m]
      /\ \/ /\ f = TRUE /\ Len(sent') = Len(sent) + 1 /\ Len(partial') = 0
            /\ sent'[Len(sent) + 1] = t
         \/ /\ f = FALSE /\ Len(sent') = Len(sent) /\ Len(partial') = Len(partial) + n
            /\ partial' = t
  <2>1. CASE f = TRUE /\ partial' = <<>> /\ sent' = Append(sent, t)
    <3> DEFINE r == Append(sent, t)
    <3>1. /\ r \in Seq(S) /\ Len(r) = Len(sent) + 1 /\ r[Len(sent) + 1] = t
          /\ \A m \in 1..Len(sent) : r[m] = sent[m]
      BY <1>1, <1>3, AppendProperties
    <3>2. sent' = r
      BY <2>1
    <3> HIDE DEF r
    <3>3. partial' = <<>> /\ Len(partial') = 0 /\ f = TRUE
      BY <2>1
    <3> QED
      BY <1>1, <3>1, <3>2, <3>3
  <2>2. CASE f = FALSE /\ partial' = t /\ sent' = sent
    BY <1>1, <1>3, <2>2
  <2> QED
    BY <1>5, <2>1, <2>2
<1>7. /\ f = TRUE => Len(sent') = Len(sent) + 1 /\ Len(partial') = 0
      /\ f = FALSE => Len(sent') = Len(sent) /\ Len(partial') = Len(partial) + n
  BY <1>6
<1>8. ASSUME NEW m \in Nat
      PROVE  /\ m <= Len(sent) => Text(m)' = Text(m)
             /\ m = Len(sent) + 1 => Text(m)' = t /\ Text(m) = partial
  <2>1. CASE m <= Len(sent)
    BY <1>4, <1>6, <2>1 DEF Text
  <2>2. CASE m = Len(sent) + 1
    BY <1>4, <1>6, <2>2 DEF Text
  <2> QED
    BY <1>4, <2>1, <2>2
<1>9. ASSUME NEW m \in Nat, m <= Len(sent) + 1
       PROVE  /\ Len(Text(m)') \in Nat /\ Len(Text(m)') >= Len(Text(m))
              /\ \A i \in 1..Len(Text(m)) : Text(m)'[i] = Text(m)[i]
  <2>1. Len(Text(m)) \in Nat
    BY TextType
  <2>2. m <= Len(sent) \/ m = Len(sent) + 1
    BY <1>4, <1>9
  <2> QED
    BY <1>3, <1>4, <1>8, <2>1, <2>2
<1>10. Grows
  BY <1>4, <1>6, <1>8, <1>9 DEF Grows
<1>11. \A m \in Nat : m = Len(sent) + 1 =>
         /\ Len(Text(m)') = Len(partial) + n
         /\ \A i \in 1..n : Text(m)'[Len(partial) + i] = nunits + i
  BY <1>3, <1>8
<1> QED
  BY <1>6, <1>7, <1>10, <1>11 DEF S

LEMMA SoundStays ==
  ASSUME TypeOK, Grows, NEW a \in Place, Sound(a)
  PROVE  Sound(a)'
<1>1. a.msg \in Nat /\ a.at \in Nat /\ a.left \in Nat /\ Len(sent) \in Nat
      /\ Len(Text(a.msg)) \in Nat
  BY PlaceFields, TextType
<1> QED
  BY <1>1 DEF Sound, Grows

LEMMA WholeStays ==
  ASSUME TypeOK, Grows, taken' = taken, Whole
  PROVE  Whole'
<1>1. Len(sent) \in Nat /\ Len(taken) \in Nat
  BY DEF TypeOK
<1> QED
  BY <1>1 DEF Whole, Grows

LEMMA BegunStays ==
  ASSUME TypeOK, Grows, UNCHANGED <<taken, buffer>>, Begun
  PROVE  Begun'
<1> DEFINE m == Len(taken) + 1
<1>1. Len(sent) \in Nat /\ Len(taken) \in Nat /\ Len(buffer) \in Nat /\ m \in Nat
  BY DEF TypeOK
<1>2. Len(Text(m)) \in Nat /\ m <= Len(sent) + 1
  BY <1>1, TextType DEF Begun
<1>3. /\ Len(Text(m)') \in Nat /\ Len(Text(m)') >= Len(Text(m))
      /\ \A i \in 1..Len(Text(m)) : Text(m)'[i] = Text(m)[i]
      /\ Len(sent') \in Nat /\ Len(sent') >= Len(sent)
  BY <1>1, <1>2 DEF Grows
<1>4. Text(Len(taken) + 1)' = Text(m)'
  BY DEF Text
<1>5. Len(buffer) <= Len(Text(m)) /\ \A i \in 1..Len(buffer) : buffer[i] = Text(m)[i]
  BY DEF Begun
<1> HIDE DEF m
<1> QED
  BY <1>1, <1>2, <1>3, <1>4, <1>5 DEF Begun

-----------------------------------------------------------------------------
(* The stream gets shorter at its front, shorter at its end, and longer.    *)

LEMMA StreamType ==
  ASSUME TypeOK
  PROVE  Len(stream) \in Nat /\ \A i \in 1..Len(stream) : stream[i] \in Unit
<1> DEFINE U == Unit
<1>1. stream \in Seq(U)
  BY DEF TypeOK
<1> HIDE DEF U
<1>2. Len(stream) \in Nat /\ \A i \in 1..Len(stream) : stream[i] \in U
  BY <1>1
<1> QED
  BY <1>2 DEF U

LEMMA Shifted ==
  ASSUME TypeOK, NEW lab \in Labels, Track(lab), NEW k \in 0..Len(stream),
         Len(stream') = Len(stream) - k, \A i \in 1..Len(stream') : stream'[i] = stream[k + i],
         link' = link, "cut" \in hurt => "cut" \in hurt'
  PROVE  \E new \in Labels' :
           /\ new[0] = lab[k] /\ Track(new)'
           /\ Faithful(lab) /\ UNCHANGED <<sent, partial>> => Faithful(new)'
<1> DEFINE L == Len(stream)
           M == Len(stream')
<1>1. L \in Nat /\ k \in Nat /\ k <= L /\ M \in Nat /\ M = L - k
  BY StreamType
<1>2. lab \in [0..L -> Place]
  BY DEF Labels
<1>3. \A i \in 1..M : stream'[i] = stream[k + i]
  OBVIOUS
<1>4. \E q \in [0..M -> Place] : \A p \in 0..M : q[p] = lab[p + k]
  <2> DEFINE q == [p \in 0..M |-> lab[p + k]]
  <2>1. q \in [0..M -> Place] /\ \A p \in 0..M : q[p] = lab[p + k]
    BY <1>1, <1>2
  <2> HIDE DEF q
  <2> QED
    BY <2>1
<1>5. PICK q \in [0..M -> Place] : \A p \in 0..M : q[p] = lab[p + k]
  BY <1>4
<1>6. q \in Labels' /\ q[0] = lab[k] /\ q[M] = lab[L]
  BY <1>1, <1>5 DEF Labels
<1>7. \A p \in 0..L : p < L => Follows(lab[p], stream[p + 1], lab[p + 1])
  BY DEF Track
<1>8. \A p \in 0..L : lab[p].pc # "payload" => lab[p].left = 0
  BY DEF Track
<1>9. \A p \in 0..L : lab[p].pc = "payload" =>
        \A j \in 1..lab[p].left : p + j <= L =>
          stream[p + j].kind = "payload" /\ lab[p + j] = Filled(lab[p], j)
  BY DEF Track, Runs
<1>10. link = "up" \/ "cut" \notin hurt => Done(lab[L])
  BY DEF Track
<1> HIDE DEF L, M
<1>11. \A p \in 0..M : p + k \in 0..L /\ q[p] \in Place
  BY <1>1, <1>5
<1>12. \A p \in 0..M : p < M => Follows(q[p], stream'[p + 1], q[p + 1])
  <2> SUFFICES ASSUME NEW p \in 0..M, p < M PROVE Follows(q[p], stream'[p + 1], q[p + 1])
    OBVIOUS
  <2>1. q[p] = lab[p + k] /\ q[p + 1] = lab[(p + k) + 1] /\ stream'[p + 1] = stream[(p + k) + 1]
    BY <1>1, <1>3, <1>5
  <2>2. p + k \in 0..L /\ p + k < L
    BY <1>1
  <2> QED
    BY <1>7, <2>1, <2>2
<1>13. \A p \in 0..M : q[p].pc # "payload" => q[p].left = 0
  BY <1>5, <1>8, <1>11
<1>14. ASSUME NEW p \in 0..M, NEW j \in 1..q[p].left, p + j <= M
       PROVE  /\ (p + k) + j <= L /\ p + j \in 0..M /\ j \in 1..lab[p + k].left
              /\ stream'[p + j] = stream[(p + k) + j] /\ q[p + j] = lab[(p + k) + j]
  <2>1. j \in Nat /\ j > 0
    BY <1>11, PlaceFields
  <2>2. p + j \in 1..M
    BY <1>1, <1>14, <2>1
  <2> QED
    BY <1>1, <1>3, <1>5, <1>14, <2>1, <2>2
<1>15. \A p \in 0..M : q[p].pc = "payload" =>
         \A j \in 1..q[p].left : p + j <= M =>
           stream'[p + j].kind = "payload" /\ q[p + j] = Filled(q[p], j)
  <2> SUFFICES ASSUME NEW p \in 0..M, q[p].pc = "payload", NEW j \in 1..q[p].left, p + j <= M
               PROVE  stream'[p + j].kind = "payload" /\ q[p + j] = Filled(q[p], j)
    OBVIOUS
  <2>1. q[p] = lab[p + k] /\ p + k \in 0..L /\ lab[p + k].pc = "payload"
    BY <1>5, <1>11
  <2>2. /\ (p + k) + j <= L /\ j \in 1..lab[p + k].left
        /\ stream'[p + j] = stream[(p + k) + j] /\ q[p + j] = lab[(p + k) + j]
    BY <1>14
  <2>3. stream[(p + k) + j].kind = "payload" /\ lab[(p + k) + j] = Filled(lab[p + k], j)
    BY <1>9, <2>1, <2>2
  <2> QED
    BY <2>1, <2>2, <2>3
<1>16. link' = "up" \/ "cut" \notin hurt' => Done(q[M])
  BY <1>6, <1>10
<1>17. Track(q)'
  BY <1>12, <1>13, <1>15, <1>16 DEF Track, Runs, M
<1>18. ASSUME Faithful(lab), UNCHANGED <<sent, partial>> PROVE Faithful(q)'
  <2>1. \A a : Sound(a) => Sound(a)'
    BY <1>18 DEF Sound, Text
  <2>2. \A m : Text(m)' = Text(m)
    BY <1>18 DEF Text
  <2>3. \A p \in 0..L : Sound(lab[p])
    BY <1>18 DEF Faithful, L
  <2>4. \A p \in 0..M : Sound(q[p])'
    BY <1>5, <1>11, <2>1, <2>3
  <2>5. \A p \in 0..L : lab[p].pc = "payload" =>
          \A j \in 1..lab[p].left : p + j <= L =>
            stream[p + j].id = Text(lab[p].msg)[lab[p].at + j]
    BY <1>18 DEF Faithful, L
  <2>6. \A p \in 0..M : q[p].pc = "payload" =>
          \A j \in 1..q[p].left : p + j <= M =>
            stream'[p + j].id = Text(q[p].msg)'[q[p].at + j]
    BY <1>5, <1>11, <1>14, <2>2, <2>5
  <2>7. link' = "up" => NextMsg(q[M]) = Len(sent') + 1 /\ NextAt(q[M]) = Len(partial')
    BY <1>6, <1>18 DEF Faithful, L
  <2> QED
    BY <2>4, <2>6, <2>7 DEF Faithful, M
<1> QED
  BY <1>6, <1>17, <1>18

LEMMA Cut ==
  ASSUME TypeOK, NEW lab \in Labels, Track(lab), NEW k \in 0..Len(stream),
         Len(stream') = k, \A i \in 1..k : stream'[i] = stream[i],
         link' = "down", k \in Boundaries \/ "cut" \in hurt',
         link = "up", UNCHANGED <<sent, partial>>
  PROVE  \E new \in Labels' :
           new[0] = lab[0] /\ Track(new)' /\ (Faithful(lab) => Faithful(new)')
<1> DEFINE L == Len(stream)
<1>1. L \in Nat /\ k \in Nat /\ k <= L
  BY StreamType
<1>2. lab \in [0..L -> Place]
  BY DEF Labels
<1>3. \E q \in [0..k -> Place] : \A p \in 0..k : q[p] = lab[p]
  <2> DEFINE q == [p \in 0..k |-> lab[p]]
  <2>1. q \in [0..k -> Place] /\ \A p \in 0..k : q[p] = lab[p]
    BY <1>1, <1>2
  <2> HIDE DEF q
  <2> QED
    BY <2>1
<1>4. PICK q \in [0..k -> Place] : \A p \in 0..k : q[p] = lab[p]
  BY <1>3
<1>5. q \in Labels' /\ q[0] = lab[0] /\ q[k] = lab[k]
  BY <1>1, <1>4 DEF Labels
<1>6. \A p \in 0..L : p < L => Follows(lab[p], stream[p + 1], lab[p + 1])
  BY DEF Track
<1>7. \A p \in 0..L : lab[p].pc # "payload" => lab[p].left = 0
  BY DEF Track
<1>8. \A p \in 0..L : lab[p].pc = "payload" =>
        \A j \in 1..lab[p].left : p + j <= L =>
          stream[p + j].kind = "payload" /\ lab[p + j] = Filled(lab[p], j)
  BY DEF Track, Runs
<1>9. k \in Boundaries => Done(lab[k])
  <2>1. CASE k = L
    BY <2>1 DEF Track
  <2>2. CASE k # L
    <3>1. k < L /\ (k \in Boundaries => stream[k + 1].kind = "core")
      BY <1>1, <2>2 DEF Boundaries
    <3>2. Follows(lab[k], stream[k + 1], lab[k + 1])
      BY <1>6, <3>1
    <3> QED
      BY <3>1, <3>2 DEF Follows
  <2> QED
    BY <2>1, <2>2
<1> HIDE DEF L
<1>10. \A p \in 0..k : p \in 0..L /\ q[p] \in Place
  BY <1>1, <1>4
<1>11. \A p \in 0..k : p < k => Follows(q[p], stream'[p + 1], q[p + 1])
  <2> SUFFICES ASSUME NEW p \in 0..k, p < k PROVE Follows(q[p], stream'[p + 1], q[p + 1])
    OBVIOUS
  <2>1. q[p] = lab[p] /\ q[p + 1] = lab[p + 1] /\ stream'[p + 1] = stream[p + 1]
    BY <1>1, <1>4
  <2> QED
    BY <1>1, <1>6, <2>1
<1>12. ASSUME NEW p \in 0..k, NEW j \in 1..q[p].left, p + j <= k
       PROVE  /\ p + j <= L /\ j \in 1..lab[p].left
              /\ stream'[p + j] = stream[p + j] /\ q[p + j] = lab[p + j]
  <2>1. j \in Nat /\ j > 0
    BY <1>10, PlaceFields
  <2>2. p + j \in 1..k
    BY <1>1, <1>12, <2>1
  <2> QED
    BY <1>1, <1>4, <1>12, <2>1, <2>2
<1>13. \A p \in 0..k : q[p].pc = "payload" =>
         \A j \in 1..q[p].left : p + j <= k =>
           stream'[p + j].kind = "payload" /\ q[p + j] = Filled(q[p], j)
  <2> SUFFICES ASSUME NEW p \in 0..k, q[p].pc = "payload", NEW j \in 1..q[p].left, p + j <= k
               PROVE  stream'[p + j].kind = "payload" /\ q[p + j] = Filled(q[p], j)
    OBVIOUS
  <2>1. q[p] = lab[p] /\ p \in 0..L /\ lab[p].pc = "payload"
    BY <1>4, <1>10
  <2>2. /\ p + j <= L /\ j \in 1..lab[p].left
        /\ stream'[p + j] = stream[p + j] /\ q[p + j] = lab[p + j]
    BY <1>12
  <2>3. stream[p + j].kind = "payload" /\ lab[p + j] = Filled(lab[p], j)
    BY <1>8, <2>1, <2>2
  <2> QED
    BY <2>1, <2>2, <2>3
<1>14. \A p \in 0..k : q[p].pc # "payload" => q[p].left = 0
  BY <1>4, <1>7, <1>10
<1>15. Track(q)'
  <2>1. "cut" \notin hurt' => Done(q[k])
    BY <1>5, <1>9
  <2> QED
    BY <1>11, <1>13, <1>14, <2>1 DEF Track, Runs
<1>16. ASSUME Faithful(lab) PROVE Faithful(q)'
  <2>1. \A a : Sound(a) => Sound(a)'
    BY DEF Sound, Text
  <2>2. \A m : Text(m)' = Text(m)
    BY DEF Text
  <2>3. \A p \in 0..L : Sound(lab[p])
    BY <1>16 DEF Faithful, L
  <2>4. \A p \in 0..k : Sound(q[p])'
    BY <1>4, <1>10, <2>1, <2>3
  <2>5. \A p \in 0..L : lab[p].pc = "payload" =>
          \A j \in 1..lab[p].left : p + j <= L =>
            stream[p + j].id = Text(lab[p].msg)[lab[p].at + j]
    BY <1>16 DEF Faithful, L
  <2>6. \A p \in 0..k : q[p].pc = "payload" =>
          \A j \in 1..q[p].left : p + j <= k =>
            stream'[p + j].id = Text(q[p].msg)'[q[p].at + j]
    BY <1>4, <1>10, <1>12, <2>2, <2>5
  <2> QED
    BY <2>4, <2>6 DEF Faithful
<1> QED
  BY <1>5, <1>15, <1>16

\* After the first L, places and units are those of a frame with a header of h
\* units and a payload of n: of message m, of which the reader has at units.
Lays(q, L, h, n, m, at, f) ==
  /\ q[L + 1] = At(m, at, f, 0, "length")
  /\ h = 3 => q[L + 2] = At(m, at, f, 0, "ext")
  /\ \A i \in 0..n : q[L + h + i] = At(m, at + i, f, n - i, "payload")

Carries(s, L, h, n, f, op, split, id) ==
  /\ s[L + 1] = CoreUnit(f, op)
  /\ h = 2 => s[L + 2] = Short(n)
  /\ h = 3 => s[L + 2] = Long(n) /\ s[L + 3] = ExtUnit(n, split)
  /\ \A i \in 1..n : s[L + h + i] = PayloadUnit(id + i)

\* The places of a new frame at the end: h units of header, n of payload.
LEMMA NewLabels ==
  ASSUME NEW L \in Nat, NEW lab \in [0..L -> Place], NEW m \in Nat, NEW b \in Nat, NEW n \in Nat,
         NEW h \in Nat, h = 2 \/ h = 3, NEW f, At(m, b, f, 0, "length") \in Place
  PROVE  \E new \in [0..L + h + n -> Place] :
           (\A p \in 0..L : new[p] = lab[p]) /\ Lays(new, L, h, n, m, b, f)
<1> DEFINE X(p) == IF p <= L THEN lab[p]
                   ELSE IF p = L + 1 THEN At(m, b, f, 0, "length")
                   ELSE IF p < L + h THEN At(m, b, f, 0, "ext")
                   ELSE At(m, b + (p - (L + h)), f, n - (p - (L + h)), "payload")
           q == [p \in 0..L + h + n |-> X(p)]
<1>1. \A at \in Nat, left \in Nat, pc \in {"length", "ext", "payload"} :
        At(m, at, f, left, pc) \in Place
  <2>1. f \in BOOLEAN
    BY DEF At, Place
  <2> QED
    BY <2>1, Zenon DEF At, Place
<1>2. ASSUME NEW p \in 0..L + h + n PROVE X(p) \in Place
  <2>1. CASE p <= L
    BY <2>1
  <2>2. CASE p > L /\ p < L + h
    <3>1. X(p) = At(m, b, f, 0, "length") \/ X(p) = At(m, b, f, 0, "ext")
      BY <2>2
    <3> HIDE DEF X
    <3> QED
      BY <1>1, <3>1
  <2>3. CASE p >= L + h
    <3>1. p - (L + h) \in Nat /\ n - (p - (L + h)) \in Nat /\ X(p) =
            At(m, b + (p - (L + h)), f, n - (p - (L + h)), "payload")
      BY <2>3
    <3> DEFINE i == p - (L + h)
    <3> HIDE DEF i
    <3>2. i \in Nat /\ n - i \in Nat /\ X(p) = At(m, b + i, f, n - i, "payload")
      BY <3>1 DEF i
    <3> HIDE DEF X
    <3> QED
      BY <1>1, <3>2
  <2> QED
    BY <2>1, <2>2, <2>3
<1>3. \A p \in 0..L : X(p) = lab[p]
  OBVIOUS
<1>4. X(L + 1) = At(m, b, f, 0, "length") /\ (h = 3 => X(L + 2) = At(m, b, f, 0, "ext"))
  OBVIOUS
<1>5. ASSUME NEW i \in 0..n PROVE X(L + h + i) = At(m, b + i, f, n - i, "payload")
  <2>1. (L + h + i) - (L + h) = i /\ ~(L + h + i <= L) /\ L + h + i # L + 1 /\ ~(L + h + i < L + h)
    OBVIOUS
  <2> QED
    BY <2>1
<1> HIDE DEF X
<1>6. q \in [0..L + h + n -> Place] /\ \A p \in 0..L + h + n : q[p] = X(p)
  BY <1>2
<1> HIDE DEF q
<1>7. /\ \A p \in 0..L : q[p] = lab[p]
      /\ q[L + 1] = At(m, b, f, 0, "length") /\ (h = 3 => q[L + 2] = At(m, b, f, 0, "ext"))
      /\ \A i \in 0..n : q[L + h + i] = At(m, b + i, f, n - i, "payload")
  BY <1>3, <1>4, <1>5, <1>6
<1>8. Lays(q, L, h, n, m, b, f)
  BY <1>7 DEF Lays
<1> QED
  BY <1>6, <1>7, <1>8

\* While the connection is up, no frame is cut.
LEMMA RunsEnd ==
  ASSUME TypeOK, NEW lab \in Labels, Track(lab), link = "up", NEW p \in 0..Len(stream),
         lab[p].pc = "payload"
  PROVE  p + lab[p].left <= Len(stream)
<1> DEFINE L == Len(stream)
           k == L - p
<1>1. L \in Nat /\ lab \in [0..L -> Place] /\ Done(lab[L])
  BY StreamType DEF Labels, Track
<1>2. lab[p] \in Place /\ lab[p].left \in Nat
  BY <1>1, PlaceFields
<1>3. SUFFICES ASSUME p + lab[p].left > L PROVE FALSE
  BY <1>1, <1>2
<1>4. k \in 0..L /\ p + k = L /\ k < lab[p].left
  BY <1>1, <1>2, <1>3
<1>5. CASE k = 0
  BY <1>1, <1>2, <1>4, <1>5 DEF Done
<1>6. CASE k # 0
  <2>1. k \in 1..lab[p].left
    BY <1>2, <1>4, <1>6
  <2>2. lab[L] = Filled(lab[p], k)
    BY <1>4, <2>1 DEF Track, Runs
  <2>3. lab[L].left = lab[p].left - k
    BY <1>2, <2>2 DEF Filled, At
  <2> QED
    BY <1>1, <1>2, <1>4, <2>3 DEF Done
<1> QED
  BY <1>5, <1>6
LEMMA AtIs ==
  ASSUME NEW m, NEW at, NEW f, NEW left, NEW pc, NEW a, a = At(m, at, f, left, pc)
  PROVE  /\ a.msg = m /\ a.at = at /\ a.fin = f /\ a.left = left /\ a.pc = pc
         /\ Widened(a) = At(m, at, f, 0, "ext")
         /\ \A n : Sized(a, n) = At(m, at, f, n, "payload")
         /\ \A k : Filled(a, k) = At(m, at + k, f, left - k, "payload")
<1>1. a.msg = m /\ a.at = at /\ a.fin = f /\ a.left = left /\ a.pc = pc
  BY DEF At
<1>2. /\ Widened(a) = At(m, at, f, 0, "ext")
      /\ \A n : Sized(a, n) = At(m, at, f, n, "payload")
      /\ \A k : Filled(a, k) = At(m, at + k, f, left - k, "payload")
  BY <1>1, Zenon DEF Widened, Sized, Filled
<1> QED
  BY <1>1, <1>2

\* The units of a new frame, with L units before it.
LEMMA StreamGrows ==
  ASSUME TypeOK, NEW f, NEW op, NEW n \in Nat, NEW ext, NEW split, NEW h \in Nat,
         Fits(f, op, n, ext, split, h),
         stream' = stream \o Frame(f, op, n, ext, split)
  PROVE  /\ stream' \in Seq(Unit) /\ Len(stream') = Len(stream) + h + n
         /\ \A i \in 1..Len(stream) : stream'[i] = stream[i]
         /\ Carries(stream', Len(stream), h, n, f, op, split, nunits)
<1>1. PICK F : F = Frame(f, op, n, ext, split)
  OBVIOUS
<1> DEFINE U == Unit
           L == Len(stream)
<1>2. (ext = TRUE /\ h = 3) \/ (ext = FALSE /\ h = 2)
  BY DEF Fits
<1>3. CoreUnit(f, op) \in U /\ LengthUnit(n, ext) \in U /\ ExtUnit(n, split) \in U
  BY DEF Fits
<1> HIDE DEF U
<1>4. /\ F \in Seq(U) /\ Len(F) = h + n /\ F[1] = CoreUnit(f, op) /\ F[2] = LengthUnit(n, ext)
      /\ h = 3 => F[3] = ExtUnit(n, split)
      /\ \A i \in 1..n : F[h + i] = PayloadUnit(nunits + i)
  <2> DEFINE c == CoreUnit(f, op)
             l == LengthUnit(n, ext)
             e == ExtUnit(n, split)
             P(i) == PayloadUnit(nunits + i)
             first == <<c, l>>
             second == IF ext THEN <<e>> ELSE <<>>
             third == [i \in 1..n |-> P(i)]
  <2>1. c \in U /\ l \in U /\ e \in U
    BY <1>3
  <2>2. \A i \in 1..n : P(i) \in U
    BY DEF U, Unit, TypeOK, PayloadUnit
  <2>3. third \in [1..n -> U] /\ \A i \in 1..n : third[i] = P(i)
    BY <2>2
  <2>4. F = (first \o second) \o third
    BY <1>1, Zenon DEF Frame, first, second, third, c, l, e, P,
       CoreUnit, LengthUnit, ExtUnit, PayloadUnit
  <2> HIDE DEF c, l, e, P
  <2>5. first \in Seq(U) /\ Len(first) = 2 /\ first[1] = c /\ first[2] = l
    BY <2>1
  <2>6. second \in Seq(U) /\ Len(second) = h - 2 /\ (h = 3 => second[1] = e)
    <3>1. CASE ext = TRUE /\ h = 3
      <4>1. second = <<e>>
        BY <3>1
      <4> HIDE DEF second
      <4> QED
        BY <2>1, <3>1, <4>1
    <3>2. CASE ext = FALSE /\ h = 2
      <4>1. second = <<>>
        BY <3>2
      <4> HIDE DEF second
      <4> QED
        BY <3>2, <4>1
    <3> QED
      BY <1>2, <3>1, <3>2
  <2> HIDE DEF third
  <2>7. third \in Seq(U) /\ Len(third) = n
    BY <2>3, Indexed
  <2> HIDE DEF first, second
  <2> DEFINE head == first \o second
  <2>8. h \in {2, 3}
    BY <1>2
  <2>9. /\ head \in Seq(U) /\ Len(head) = h
        /\ head[1] = c /\ head[2] = l /\ (h = 3 => head[3] = e)
    <3>1. /\ head \in Seq(U) /\ Len(head) = Len(first) + Len(second)
          /\ \A i \in 1..Len(first) : head[i] = first[i]
          /\ \A i \in 1..Len(second) : head[Len(first) + i] = second[i]
      <4>1. first \in Seq(U) /\ second \in Seq(U)
        BY <2>5, <2>6
      <4> QED
        BY <4>1
    <3> HIDE DEF head
    <3> QED
      BY <2>5, <2>6, <2>8, <3>1
  <2> HIDE DEF head
  <2>10. F = head \o third
    BY <2>4 DEF head
  <2>11. /\ F \in Seq(U) /\ Len(F) = Len(head) + Len(third)
         /\ \A i \in 1..Len(head) : F[i] = head[i]
         /\ \A i \in 1..Len(third) : F[Len(head) + i] = third[i]
    <3>1. head \in Seq(U) /\ third \in Seq(U)
      BY <2>7, <2>9
    <3> QED
      BY <2>10, <3>1
  <2>12. F[1] = c /\ F[2] = l /\ (h = 3 => F[3] = e) /\ \A i \in 1..n : F[h + i] = P(i)
    BY <2>3, <2>7, <2>8, <2>9, <2>11
  <2>13. Len(F) = h + n
    BY <2>7, <2>9, <2>11
  <2> QED
    BY <2>11, <2>12, <2>13 DEF c, l, e, P
<1>5. stream \in Seq(U) /\ stream' = stream \o F
  BY <1>1 DEF TypeOK, U
<1>6. h \in {2, 3} /\ (h = 3 => ext = TRUE) /\ (h = 2 => ext = FALSE)
  BY <1>2
<1>7. (h = 2 => F[2] = Short(n))
      /\ (h = 3 => F[2] = Long(n) /\ F[3] = ExtUnit(n, split))
  <2>1. CASE h = 2
    <3>1. ext = FALSE /\ h # 3
      BY <1>6, <2>1
    <3>2. F[2] = LengthUnit(n, ext)
      BY <1>4
    <3> QED
      BY <3>1, <3>2, Zenon DEF Short, Long
  <2>2. CASE h = 3
    <3>1. ext = TRUE /\ h # 2
      BY <1>6, <2>2
    <3>2. F[2] = LengthUnit(n, ext) /\ F[3] = ExtUnit(n, split)
      BY <1>4, <1>6, <2>2, Zenon
    <3> QED
      BY <3>1, <3>2, Zenon DEF Short, Long
  <2> QED
    BY <1>6, <2>1, <2>2
<1> HIDE DEF U
<1>8. /\ stream' \in Seq(U) /\ Len(stream') = L + Len(F)
      /\ \A i \in 1..L : stream'[i] = stream[i]
      /\ \A i \in 1..Len(F) : stream'[L + i] = F[i]
  <2>1. F \in Seq(U)
    BY <1>4
  <2> QED
    BY <1>5, <2>1
<1>9. L \in Nat
  BY <1>5
<1> HIDE DEF L
<1>10. /\ 1 \in 1..h + n /\ 2 \in 1..h + n /\ (h = 3 => 3 \in 1..h + n)
      /\ \A i \in 1..n : h + i \in 1..h + n /\ L + (h + i) = L + h + i
  BY <1>6, <1>9
<1>11. Len(F) = h + n
  BY <1>4
<1>12. \A i \in 1..h + n : stream'[L + i] = F[i]
  BY <1>8, <1>11
<1>13. Len(stream') = L + h + n
  BY <1>6, <1>8, <1>9, <1>11
<1>14. stream'[L + 1] = CoreUnit(f, op) /\ stream'[L + 2] = F[2] /\ (h = 3 => stream'[L + 3] = F[3])
  BY <1>4, <1>10, <1>12
<1>15. \A i \in 1..n : stream'[L + h + i] = PayloadUnit(nunits + i)
  BY <1>4, <1>10, <1>12
<1>16. Carries(stream', L, h, n, f, op, split, nunits)
  BY <1>6, <1>7, <1>14, <1>15 DEF Carries
<1> QED
  BY <1>8, <1>13, <1>16 DEF L, U

LEMMA FrameFollows ==
  ASSUME NEW L \in Nat, NEW h \in Nat, NEW n \in Nat, NEW m \in Nat, NEW at \in Nat, NEW id \in Nat,
         NEW f, NEW op, NEW split, NEW q, NEW s, h = 2 \/ h = 3,
         Lays(q, L, h, n, m, at, f), Carries(s, L, h, n, f, op, split, id),
         Done(q[L]), Opened(q[L], f) = At(m, at, f, 0, "length"),
         NEW p \in L..(L + h + n), p < L + h + n
  PROVE  Follows(q[p], s[p + 1], q[p + 1])
<1>1. CASE p = L
  <2>1. q[p + 1] = Opened(q[p], f) /\ s[p + 1] = CoreUnit(f, op)
    BY <1>1 DEF Lays, Carries
  <2>2. Done(q[p])
    BY <1>1
  <2> QED
    BY <2>1, <2>2, FollowsUnit, Zenon
<1>2. CASE p = L + 1 /\ h = 3
  <2>1. /\ q[p] = At(m, at, f, 0, "length") /\ q[p + 1] = At(m, at, f, 0, "ext")
        /\ s[p + 1] = Long(n)
    <3>1. p + 1 = L + 2
      BY <1>2
    <3> QED
      BY <1>2, <3>1 DEF Lays, Carries
  <2>2. q[p].pc = "length" /\ q[p + 1] = Widened(q[p])
    BY <2>1, AtIs
  <2> QED
    BY <2>1, <2>2, FollowsUnit, Zenon
<1>3. CASE p = L + 1 /\ h = 2
  <2>1. p + 1 = L + 2 /\ p + 1 = L + h + 0 /\ 0 \in 0..n /\ at + 0 = at /\ n - 0 = n
    BY <1>3
  <2>2. /\ q[p] = At(m, at, f, 0, "length") /\ q[p + 1] = At(m, at, f, n, "payload")
        /\ s[p + 1] = Short(n)
    BY <1>3, <2>1 DEF Lays, Carries
  <2>3. q[p].pc = "length" /\ q[p + 1] = Sized(q[p], n)
    BY <2>2, AtIs
  <2> QED
    BY <2>2, <2>3, FollowsUnit, Zenon
<1>4. CASE p = L + 2 /\ h = 3
  <2>1. p + 1 = L + 3 /\ p + 1 = L + h + 0 /\ 0 \in 0..n /\ at + 0 = at /\ n - 0 = n
    BY <1>4
  <2>2. /\ q[p] = At(m, at, f, 0, "ext") /\ q[p + 1] = At(m, at, f, n, "payload")
        /\ s[p + 1] = ExtUnit(n, split)
    BY <1>4, <2>1 DEF Lays, Carries
  <2>3. q[p].pc = "ext" /\ q[p + 1] = Sized(q[p], n)
    BY <2>2, AtIs
  <2> QED
    BY <2>2, <2>3, FollowsUnit, Zenon
<1>5. CASE p >= L + h
  <2>1. PICK i \in 0..n : p = L + h + i
    <3>1. p - (L + h) \in 0..n /\ p = L + h + (p - (L + h))
      BY <1>5
    <3> QED
      BY <3>1
  <2>2. i + 1 \in 1..n /\ p + 1 = L + h + (i + 1) /\ n - i > 0
    BY <2>1
  <2>3. q[p] = At(m, at + i, f, n - i, "payload") /\ s[p + 1] = PayloadUnit(id + (i + 1))
    BY <2>1, <2>2 DEF Lays, Carries
  <2>4. q[p].pc = "payload" /\ q[p].left = n - i
    BY <2>3, AtIs
  <2>5. q[p].left > 0
    BY <2>2, <2>4
  <2> QED
    BY <2>3, <2>4, <2>5, FollowsUnit, Zenon
<1> QED
  BY <1>1, <1>2, <1>3, <1>4, <1>5

\* The payload units of the frame come one after the other.
Run(q, s, L, h, n, m, at, f, id) ==
  \A i \in 0..n : \A j \in 1..(n - i) : \A p \in Nat : p = L + h + i =>
    /\ s[p + j].kind = "payload" /\ s[p + j].id = id + (i + j)
    /\ q[p] = At(m, at + i, f, n - i, "payload") /\ q[p + j] = Filled(q[p], j)

LEMMA FrameRuns ==
  ASSUME NEW L \in Nat, NEW h \in Nat, NEW n \in Nat, NEW m \in Nat, NEW at \in Nat, NEW id \in Nat,
         NEW f, NEW op, NEW split, NEW q, NEW s,
         Lays(q, L, h, n, m, at, f), Carries(s, L, h, n, f, op, split, id)
  PROVE  Run(q, s, L, h, n, m, at, f, id)
<1> SUFFICES ASSUME NEW i \in 0..n, NEW j \in 1..(n - i), NEW p \in Nat, p = L + h + i
             PROVE  /\ s[p + j].kind = "payload" /\ s[p + j].id = id + (i + j)
                    /\ q[p] = At(m, at + i, f, n - i, "payload") /\ q[p + j] = Filled(q[p], j)
  BY DEF Run
<1>1. i + j \in 1..n /\ i + j \in 0..n /\ p + j = L + h + (i + j)
      /\ at + (i + j) = (at + i) + j /\ n - (i + j) = (n - i) - j
  OBVIOUS
<1>2. s[p + j] = PayloadUnit(id + (i + j))
  BY <1>1 DEF Carries
<1>3. s[p + j].kind = "payload" /\ s[p + j].id = id + (i + j)
  BY <1>2 DEF PayloadUnit
<1>4. /\ q[p] = At(m, at + i, f, n - i, "payload")
      /\ q[p + j] = At(m, at + (i + j), f, n - (i + j), "payload")
  BY <1>1 DEF Lays
<1>5. q[p + j] = At(m, (at + i) + j, f, (n - i) - j, "payload")
  BY <1>1, <1>4
<1>6. q[p + j] = Filled(q[p], j)
  BY <1>4, <1>5, AtIs
<1> QED
  BY <1>3, <1>4, <1>6

\* Places of a frame that fits its message, as the server has it afterwards.
Holds(m, f, T) ==
  /\ Len(Text(m)') = T /\ m <= Len(sent') + 1
  /\ f \in BOOLEAN /\ (f = TRUE => m <= Len(sent'))

LEMMA FrameSound ==
  ASSUME NEW m \in Nat, NEW at \in Nat, NEW left \in Nat, NEW f, NEW pc, NEW T \in Nat,
         NEW a, a = At(m, at, f, left, pc), Holds(m, f, T),
         at + left <= T, pc = "payload" => at + left = T
  PROVE  Sound(a)'
<1>1. /\ Len(Text(m)') = T /\ m <= Len(sent') + 1
      /\ f \in BOOLEAN /\ (f = TRUE => m <= Len(sent'))
  BY DEF Holds
<1>2. a.msg = m /\ a.at = at /\ a.left = left /\ a.pc = pc
  BY AtIs
<1>3. a.fin = f
  BY AtIs
<1>4. a.fin => m <= Len(sent')
  <2>1. ASSUME a.fin PROVE f = TRUE
    BY <1>1, <1>3, <2>1, Zenon
  <2> QED
    BY <1>1, <2>1
<1>5. Text(a.msg)' = Text(m)'
  BY <1>2
<1>6. a.msg <= Len(sent') + 1 /\ a.at + a.left <= Len(Text(m)')
      /\ (a.pc = "payload" => a.at + a.left = Len(Text(m)'))
  BY <1>1, <1>2
<1>7. a.fin => a.msg <= Len(sent')
  BY <1>2, <1>4, Zenon
<1> QED
  BY <1>5, <1>6, <1>7, Zenon DEF Sound

\* With a frame more, the places go on to its end.
LEMMA Extended ==
  ASSUME TypeOK, NEW lab \in Labels, Track(lab), NEW f, NEW op, NEW n \in Nat, NEW ext, NEW split,
         NEW h \in Nat, Fits(f, op, n, ext, split, h),
         link = "up", link' = "up", stream' = stream \o Frame(f, op, n, ext, split)
  PROVE  \E new \in Labels' :
           /\ new[0] = lab[0] /\ Track(new)'
           /\ Faithful(lab) /\ Sends(f, n) => Faithful(new)'
<1>1. PICK L \in Nat : L = Len(stream)
  BY StreamType
<1>2. lab \in [0..L -> Place] /\ lab[L] \in Place /\ Done(lab[L])
  BY <1>1 DEF Labels, Track
<1>3. PICK m \in Nat, at \in Nat : m = NextMsg(lab[L]) /\ at = NextAt(lab[L])
  BY <1>2, PlaceFields
<1>4. h = 2 \/ h = 3
  BY DEF Fits
<1>5. PICK M \in Nat : M = L + h + n
  BY <1>1, <1>4
<1>6. PICK id \in Nat : id = nunits
  BY DEF TypeOK
<1>7. PICK s : s = stream'
  OBVIOUS
<1>8. Len(s) = M /\ (\A i \in 1..L : s[i] = stream[i]) /\ Carries(s, L, h, n, f, op, split, id)
  <2>1. /\ Len(stream') = Len(stream) + h + n /\ \A i \in 1..Len(stream) : stream'[i] = stream[i]
        /\ Carries(stream', Len(stream), h, n, f, op, split, nunits)
    BY StreamGrows
  <2> QED
    BY <1>1, <1>5, <1>6, <1>7, <2>1
<1>9. PICK q \in [0..M -> Place] : (\A p \in 0..L : q[p] = lab[p]) /\ Lays(q, L, h, n, m, at, f)
  <2>1. At(m, at, f, 0, "length") \in Place
    <3>1. f \in BOOLEAN
      BY DEF Fits
    <3> QED
      BY <1>3, <3>1, Zenon DEF At, Place
  <2>2. \E new \in [0..L + h + n -> Place] :
          (\A p \in 0..L : new[p] = lab[p]) /\ Lays(new, L, h, n, m, at, f)
    BY <1>1, <1>2, <1>3, <1>4, <2>1, NewLabels
  <2> QED
    BY <1>5, <2>2
<1>10. q \in Labels' /\ q[0] = lab[0] /\ q[L] = lab[L]
  <2>1. Len(stream') = M
    BY <1>7, <1>8
  <2>2. q \in Labels'
    BY <1>9, <2>1 DEF Labels
  <2>3. 0 \in 0..L /\ L \in 0..L
    BY <1>1
  <2> QED
    BY <1>9, <2>2, <2>3
<1>11. Opened(q[L], f) = At(m, at, f, 0, "length")
  BY <1>3, <1>10, Zenon DEF Opened
<1>12. ASSUME NEW p \in 0..L
       PROVE  /\ p < L => Follows(lab[p], stream[p + 1], lab[p + 1])
              /\ lab[p].pc # "payload" => lab[p].left = 0
              /\ lab[p].pc = "payload" =>
                   /\ p + lab[p].left <= L
                   /\ \A j \in 1..lab[p].left : p + j <= L =>
                        stream[p + j].kind = "payload" /\ lab[p + j] = Filled(lab[p], j)
  <2>1. p < L => Follows(lab[p], stream[p + 1], lab[p + 1])
    BY <1>1 DEF Track
  <2>2. lab[p].pc # "payload" => lab[p].left = 0
    BY <1>1 DEF Track
  <2>3. lab[p].pc = "payload" => p + lab[p].left <= L
    BY <1>1, RunsEnd
  <2>4. lab[p].pc = "payload" =>
          \A j \in 1..lab[p].left : p + j <= L =>
            stream[p + j].kind = "payload" /\ lab[p + j] = Filled(lab[p], j)
    BY <1>1 DEF Track, Runs
  <2> QED
    BY <2>1, <2>2, <2>3, <2>4
<1>13. ASSUME NEW p \in 0..M
       PROVE  \/ p \in 0..L \/ p = L + 1 \/ (h = 3 /\ p = L + 2)
              \/ \E i \in 0..n : p = L + h + i
  <2>1. ASSUME p >= L + h PROVE \E i \in 0..n : p = L + h + i
    <3>1. p - (L + h) \in 0..n /\ p = L + h + (p - (L + h))
      BY <1>1, <1>5, <2>1
    <3> QED
      BY <3>1
  <2>2. p \in 0..L \/ p = L + 1 \/ (h = 3 /\ p = L + 2) \/ p >= L + h
    BY <1>1, <1>4
  <2> QED
    BY <2>1, <2>2
<1>14. ASSUME NEW p \in 0..M, p < M PROVE Follows(q[p], s[p + 1], q[p + 1])
  <2>1. CASE p < L
    <3>1. p \in 0..L /\ q[p] = lab[p] /\ q[p + 1] = lab[p + 1] /\ s[p + 1] = stream[p + 1]
      BY <1>1, <1>8, <1>9, <2>1
    <3> QED
      BY <1>12, <2>1, <3>1
  <2>2. CASE p >= L
    <3>1. p \in L..(L + h + n) /\ p < L + h + n
      BY <1>1, <1>5, <1>14, <2>2
    <3>2. Done(q[L])
      BY <1>2, <1>10
    <3> QED
      BY <1>1, <1>3, <1>4, <1>6, <1>8, <1>9, <1>11, <3>1, <3>2, FrameFollows
  <2> QED
    BY <1>1, <2>1, <2>2
<1>15. ASSUME NEW p \in 0..M, p \notin 0..L
       PROVE  \/ q[p] = At(m, at, f, 0, "length") \/ q[p] = At(m, at, f, 0, "ext")
              \/ \E i \in 0..n : p = L + h + i /\ q[p] = At(m, at + i, f, n - i, "payload")
  <2>1. CASE p = L + 1 \/ (h = 3 /\ p = L + 2)
    BY <1>9, <2>1 DEF Lays
  <2>2. ASSUME NEW i \in 0..n, p = L + h + i
        PROVE  p = L + h + i /\ q[p] = At(m, at + i, f, n - i, "payload")
    BY <1>9, <2>2 DEF Lays
  <2> QED
    BY <1>13, <1>15, <2>1, <2>2
<1>16. ASSUME NEW p \in 0..M PROVE q[p].pc # "payload" => q[p].left = 0
  <2>1. CASE p \in 0..L
    BY <1>9, <1>12, <2>1
  <2>2. CASE p \notin 0..L
    <3>1. CASE q[p] = At(m, at, f, 0, "length") \/ q[p] = At(m, at, f, 0, "ext")
      BY <3>1, AtIs
    <3>2. ASSUME NEW i \in 0..n, q[p] = At(m, at + i, f, n - i, "payload")
          PROVE  q[p].pc = "payload"
      BY <3>2, AtIs
    <3> QED
      BY <1>15, <2>2, <3>1, <3>2
  <2> QED
    BY <2>1, <2>2
\* A run of payload units is old, or it is the new frame's.
<1>17. ASSUME NEW p \in 0..M, q[p].pc = "payload", NEW j \in 1..q[p].left, p + j <= M
       PROVE  /\ p \in 0..L => /\ p + j \in 1..L /\ q[p] = lab[p] /\ q[p + j] = lab[p + j]
                               /\ s[p + j] = stream[p + j] /\ j \in 1..lab[p].left
              /\ p \notin 0..L =>
                   \E i \in 0..n : p = L + h + i /\ j \in 1..(n - i) /\ i + j \in 1..n
  <2>1. q[p] \in Place /\ q[p].left \in Nat /\ j \in Nat /\ j > 0
    <3>1. q[p] \in Place
      BY <1>9
    <3>2. q[p].left \in Nat
      BY <3>1, PlaceFields
    <3> QED
      BY <3>1, <3>2
  <2>2. CASE p \in 0..L
    <3>1. q[p] = lab[p]
      BY <1>9, <2>2
    <3>2. p + lab[p].left <= L
      BY <1>12, <1>17, <2>2, <3>1
    <3>3. p + j \in 1..L
      BY <1>1, <2>1, <2>2, <3>1, <3>2
    <3>4. q[p + j] = lab[p + j] /\ s[p + j] = stream[p + j]
      BY <1>1, <1>8, <1>9, <3>3
    <3> QED
      BY <2>2, <3>1, <3>3, <3>4
  <2>3. CASE p \notin 0..L
    <3>1. ~(q[p] = At(m, at, f, 0, "length") \/ q[p] = At(m, at, f, 0, "ext"))
      BY <1>17, AtIs
    <3>2. PICK i \in 0..n : p = L + h + i /\ q[p] = At(m, at + i, f, n - i, "payload")
      BY <1>15, <2>3, <3>1
    <3>3. q[p].left = n - i
      BY <3>2, AtIs
    <3>4. j \in 1..(n - i) /\ i + j \in 1..n
      BY <2>1, <3>2, <3>3
    <3> QED
      BY <2>3, <3>2, <3>4
  <2> QED
    BY <2>2, <2>3
<1>18. Run(q, s, L, h, n, m, at, f, id)
  BY <1>1, <1>3, <1>6, <1>8, <1>9, FrameRuns
<1>19. ASSUME NEW p \in 0..M, q[p].pc = "payload", NEW j \in 1..q[p].left, p + j <= M
       PROVE  s[p + j].kind = "payload" /\ q[p + j] = Filled(q[p], j)
  <2>1. CASE p \in 0..L
    <3>1. /\ p + j \in 1..L /\ q[p] = lab[p] /\ q[p + j] = lab[p + j]
          /\ s[p + j] = stream[p + j] /\ j \in 1..lab[p].left
      BY <1>17, <1>19, <2>1
    <3>2. stream[p + j].kind = "payload" /\ lab[p + j] = Filled(lab[p], j)
      BY <1>12, <1>19, <2>1, <3>1
    <3> QED
      BY <3>1, <3>2
  <2>2. CASE p \notin 0..L
    <3>1. PICK i \in 0..n : p = L + h + i /\ j \in 1..(n - i) /\ i + j \in 1..n
      BY <1>17, <1>19, <2>2
    <3>2. p \in Nat
      BY <1>5
    <3> QED
      BY <1>18, <3>1, <3>2 DEF Run
  <2> QED
    BY <2>1, <2>2
<1>20. q[M] = At(m, at + n, f, 0, "payload")
  <2>1. n \in 0..n /\ n - n = 0
    OBVIOUS
  <2> QED
    BY <1>5, <1>9, <2>1 DEF Lays
<1>21. Track(q)'
  <2>1. Done(q[M])
    BY <1>20, AtIs DEF Done
  <2> QED
    BY <1>7, <1>8, <1>14, <1>16, <1>19, <2>1 DEF Track, Runs
<1>22. ASSUME Faithful(lab), Sends(f, n) PROVE Faithful(q)'
  <2>1. /\ Grows
        /\ f = TRUE => Len(sent') = Len(sent) + 1 /\ Len(partial') = 0
        /\ f = FALSE => Len(sent') = Len(sent) /\ Len(partial') = Len(partial) + n
        /\ \A k \in Nat : k = Len(sent) + 1 =>
             /\ Len(Text(k)') = Len(partial) + n
             /\ \A i \in 1..n : Text(k)'[Len(partial) + i] = nunits + i
    BY <1>22, FrameGrows
  <2>2. m = Len(sent) + 1 /\ at = Len(partial) /\ Len(sent) \in Nat
    <3>1. m = Len(sent) + 1 /\ at = Len(partial)
      BY <1>1, <1>3, <1>22 DEF Faithful
    <3>2. Len(sent) \in Nat
      BY TextType
    <3> QED
      BY <3>1, <3>2
  <2>3. Len(Text(m)') = at + n /\ \A i \in 1..n : Text(m)'[at + i] = id + i
    BY <1>3, <1>6, <2>1, <2>2
  <2>4. f \in BOOLEAN /\ m <= Len(sent') + 1 /\ (f = TRUE => m <= Len(sent'))
    <3>1. f \in BOOLEAN
      BY DEF Fits
    <3>2. Len(sent') \in Nat /\ Len(sent') >= Len(sent)
      BY <2>1 DEF Grows
    <3>3. f = TRUE => m <= Len(sent')
      BY <2>1, <2>2, <3>2
    <3> QED
      BY <2>2, <3>1, <3>2, <3>3
  <2>5. ASSUME NEW p \in 0..M PROVE Sound(q[p])'
    <3>1. CASE p \in 0..L
      <4>1. q[p] = lab[p] /\ lab[p] \in Place
        BY <1>2, <1>9, <3>1
      <4>2. Sound(lab[p])
        BY <1>1, <1>22, <3>1 DEF Faithful
      <4>3. Sound(lab[p])'
        BY <2>1, <4>1, <4>2, SoundStays
      <4> QED
        BY <4>1, <4>3
    <3>2. CASE p \notin 0..L
      <4>1. PICK T \in Nat : T = at + n
        BY <1>3
      <4>2. Holds(m, f, T)
        BY <2>3, <2>4, <4>1 DEF Holds
      <4>3. at + 0 <= T /\ 0 \in Nat
        BY <1>3, <4>1
      <4>4. q[p] = At(m, at, f, 0, "length") => Sound(q[p])'
        BY <1>3, <4>1, <4>2, <4>3, FrameSound
      <4>5. q[p] = At(m, at, f, 0, "ext") => Sound(q[p])'
        BY <1>3, <4>1, <4>2, <4>3, FrameSound
      <4>6. ASSUME NEW i \in 0..n, q[p] = At(m, at + i, f, n - i, "payload") PROVE Sound(q[p])'
        <5>1. PICK c \in Nat, l \in Nat : c = at + i /\ l = n - i /\ c + l = T
          BY <1>3, <4>1
        <5>2. c + l <= T /\ q[p] = At(m, c, f, l, "payload")
          BY <4>1, <4>6, <5>1
        <5> QED
          BY <1>3, <4>1, <4>2, <5>1, <5>2, FrameSound
      <4> QED
        BY <1>15, <3>2, <4>4, <4>5, <4>6
    <3> QED
      BY <3>1, <3>2
  <2>6. ASSUME NEW p \in 0..M, q[p].pc = "payload", NEW j \in 1..q[p].left, p + j <= M
        PROVE  s[p + j].id = Text(q[p].msg)'[q[p].at + j]
    <3>1. CASE p \in 0..L
      <4>1. /\ p + j \in 1..L /\ q[p] = lab[p] /\ s[p + j] = stream[p + j] /\ j \in 1..lab[p].left
        BY <1>17, <2>6, <3>1
      <4>2. lab[p].pc = "payload" /\ p + j <= L
        BY <2>6, <4>1
      <4>3. stream[p + j].id = Text(lab[p].msg)[lab[p].at + j] /\ Sound(lab[p])
        BY <1>1, <1>22, <3>1, <4>1, <4>2 DEF Faithful
      <4>4. lab[p] \in Place
        BY <1>2, <3>1
      <4>5. PICK k \in Nat, c \in Nat, l \in Nat :
              k = lab[p].msg /\ c = lab[p].at /\ l = lab[p].left
        BY <4>4, PlaceFields
      <4>6. k <= Len(sent) + 1 /\ c + l <= Len(Text(k))
        BY <4>3, <4>5 DEF Sound
      <4>7. Len(Text(k)) \in Nat
        BY <4>5, TextType
      <4>8. c + j \in 1..Len(Text(k))
        <5>1. PICK T \in Nat : T = Len(Text(k))
          BY <4>7
        <5>2. j \in 1..l /\ c + l <= T
          BY <4>1, <4>5, <4>6, <5>1
        <5>3. c + j \in 1..T
          BY <4>5, <5>1, <5>2
        <5> QED
          BY <5>1, <5>3
      <4>9. Text(k)'[c + j] = Text(k)[c + j]
        BY <2>1, <4>5, <4>6, <4>8 DEF Grows
      <4>10. s[p + j].id = Text(k)[c + j]
        BY <4>1, <4>3, <4>5
      <4>11. Text(q[p].msg)'[q[p].at + j] = Text(k)'[c + j]
        BY <4>1, <4>5
      <4> QED
        BY <4>9, <4>10, <4>11
    <3>2. CASE p \notin 0..L
      <4>1. PICK i \in 0..n : p = L + h + i /\ j \in 1..(n - i) /\ i + j \in 1..n
        BY <1>17, <2>6, <3>2
      <4>2. p \in Nat
        BY <1>5
      <4>3. /\ s[p + j].id = id + (i + j) /\ q[p] = At(m, at + i, f, n - i, "payload")
        BY <1>18, <4>1, <4>2 DEF Run
      <4>4. q[p].msg = m /\ q[p].at = at + i
        BY <4>3, AtIs
      <4>5. (at + i) + j = at + (i + j)
        BY <1>3, <4>1
      <4>6. Text(m)'[at + (i + j)] = id + (i + j)
        BY <2>3, <4>1
      <4>7. Text(q[p].msg)'[q[p].at + j] = Text(m)'[at + (i + j)]
        BY <4>4, <4>5
      <4> QED
        BY <4>3, <4>6, <4>7
    <3> QED
      BY <3>1, <3>2
  <2>7. NextMsg(q[M]) = Len(sent') + 1 /\ NextAt(q[M]) = Len(partial')
    <3>1. q[M].msg = m /\ q[M].at = at + n /\ q[M].fin = f
      BY <1>20, AtIs
    <3>2. CASE f = TRUE
      <4>1. q[M].fin = TRUE
        BY <3>1, <3>2
      <4>2. NextMsg(q[M]) = m + 1 /\ NextAt(q[M]) = 0
        BY <3>1, <4>1 DEF NextMsg, NextAt
      <4> QED
        BY <2>1, <2>2, <3>2, <4>2
    <3>3. CASE f = FALSE
      <4>1. q[M].fin = FALSE
        BY <3>1, <3>3
      <4>2. NextMsg(q[M]) = m /\ NextAt(q[M]) = at + n
        BY <3>1, <4>1 DEF NextMsg, NextAt
      <4> QED
        BY <2>1, <2>2, <3>3, <4>2
    <3> QED
      BY <2>4, <3>2, <3>3
  <2> QED
    BY <1>7, <1>8, <2>5, <2>6, <2>7 DEF Faithful
<1> QED
  BY <1>10, <1>21, <1>22

-----------------------------------------------------------------------------
(* A frame is sent.                                                         *)

\* What a step of SendFrame does.
Sending(f, op, n, ext, split, h) ==
  /\ Fits(f, op, n, ext, split, h)
  /\ link = "up" /\ link' = "up"
  /\ stream' = stream \o Frame(f, op, n, ext, split)
  /\ nframes < MaxFrames /\ nframes' = nframes + 1 /\ nunits' = nunits + n
  /\ \/ Sends(f, n) /\ fragmented' \in BOOLEAN /\ hurt' = hurt
     \/ UNCHANGED <<partial, fragmented, sent>> /\ hurt' = hurt \cup {"control"}
        /\ "control" \in Hardships
  /\ split = TRUE => "split" \in Hardships
  /\ UNCHANGED <<rpc, opcode, fin, rest, buffer, taken, nclean>>

LEMMA SendIs ==
  ASSUME Server
  PROVE  \E f, op, ext, split : \E n \in Nat, h \in Nat : Sending(f, op, n, ext, split, h)
<1>1. PICK f \in BOOLEAN, ext \in BOOLEAN, split \in BOOLEAN,
           op \in {"text", "continuation", "control"}, n \in 0..MaxLen :
        SendFrame(f, op, n, ext, split)
  BY Zenon DEF Server
<1>2. n \in Nat
  BY BoundsAssumption
<1>3. PICK h \in Nat : Fits(f, op, n, ext, split, h)
  <2>1. CoreUnit(f, op) \in Unit /\ LengthUnit(n, ext) \in Unit /\ ExtUnit(n, split) \in Unit
    BY <1>1, <1>2 DEF CoreUnit, LengthUnit, ExtUnit, Unit
  <2>2. ASSUME NEW h \in Nat, (ext = TRUE /\ h = 3) \/ (ext = FALSE /\ h = 2)
        PROVE  Fits(f, op, n, ext, split, h)
    BY <1>1, <1>2, <2>1, <2>2, Zenon DEF Fits
  <2>3. CASE ext = TRUE
    <3>1. 3 \in Nat /\ (ext = TRUE /\ 3 = 3)
      BY <2>3
    <3>2. Fits(f, op, n, ext, split, 3)
      BY <2>2, <3>1
    <3> QED
      BY <3>1, <3>2, Zenon
  <2>4. CASE ext = FALSE
    <3>1. 2 \in Nat /\ (ext = FALSE /\ 2 = 2)
      BY <2>4
    <3>2. Fits(f, op, n, ext, split, 2)
      BY <2>2, <3>1
    <3> QED
      BY <3>1, <3>2, Zenon
  <2>5. ext = TRUE \/ ext = FALSE
    BY <1>1, Zenon
  <2> QED
    BY <2>3, <2>4, <2>5, Zenon
<1>4. /\ link = "up" /\ link' = "up"
      /\ stream' = stream \o Frame(f, op, n, ext, split)
      /\ nframes < MaxFrames /\ nframes' = nframes + 1 /\ nunits' = nunits + n
  BY <1>1, Zenon DEF SendFrame
<1>5. split = TRUE => "split" \in Hardships
  BY <1>1, Zenon DEF SendFrame
<1>6. UNCHANGED <<rpc, opcode, fin, rest, buffer, taken, nclean>>
  BY <1>1 DEF SendFrame, reader
<1>7. \/ Sends(f, n) /\ fragmented' \in BOOLEAN /\ hurt' = hurt
      \/ UNCHANGED <<partial, fragmented, sent>> /\ hurt' = hurt \cup {"control"}
         /\ "control" \in Hardships
  <2>1. CASE op = "control" /\ fragmented
    BY <1>1, <2>1, Zenon DEF SendFrame
  <2>2. CASE ~(op = "control" /\ fragmented)
    <3>1. /\ partial' = IF f THEN <<>> ELSE partial \o Ids(n)
          /\ sent' = IF f THEN Append(sent, partial \o Ids(n)) ELSE sent
          /\ fragmented' = ~f /\ hurt' = hurt
      BY <1>1, <2>2, Zenon DEF SendFrame, Ids
    <3>2. Sends(f, n)
      <4>1. CASE f = TRUE
        BY <1>1, <3>1, <4>1, Zenon DEF Sends
      <4>2. CASE f = FALSE
        BY <1>1, <3>1, <4>2, Zenon DEF Sends
      <4> QED
        BY <1>1, <4>1, <4>2, Zenon
    <3>3. fragmented' \in BOOLEAN
      BY <3>1, Zenon
    <3> QED
      BY <3>1, <3>2, <3>3, Zenon
  <2> QED
    BY <2>1, <2>2, Zenon
<1> QED
  <2>1. Sending(f, op, n, ext, split, h)
    BY <1>3, <1>4, <1>5, <1>6, <1>7, Zenon DEF Sending
  <2> QED
    BY <1>3, <1>2, <2>1, Zenon
LEMMA SendSplit ==
  ASSUME TypeOK, SplitAllowed, NEW f, NEW op, NEW ext, NEW split, NEW n \in Nat, NEW h \in Nat,
         Sending(f, op, n, ext, split, h)
  PROVE  SplitAllowed'
<1>1. PICK L \in Nat : L = Len(stream)
  BY StreamType
<1>2. PICK s : s = stream'
  OBVIOUS
<1>3. PICK id : id = nunits
  OBVIOUS
<1>4. /\ Fits(f, op, n, ext, split, h) /\ stream' = stream \o Frame(f, op, n, ext, split)
      /\ split = TRUE => "split" \in Hardships
  BY Zenon DEF Sending
<1>5. /\ Len(s) = L + h + n /\ \A i \in 1..L : s[i] = stream[i]
      /\ Carries(s, L, h, n, f, op, split, id)
  <2>1. /\ Len(stream') = Len(stream) + h + n /\ \A i \in 1..Len(stream) : stream'[i] = stream[i]
        /\ Carries(stream', Len(stream), h, n, f, op, split, nunits)
    BY <1>4, StreamGrows
  <2> QED
    BY <1>1, <1>2, <1>3, <2>1
<1>6. h = 2 \/ h = 3
  BY <1>4 DEF Fits
<1>7. ASSUME NEW i \in 1..(L + h + n), s[i].kind = "ext", s[i].split = TRUE
      PROVE  "split" \in Hardships
  <2>1. CASE i <= L
    <3>1. i \in 1..L /\ s[i] = stream[i]
      BY <1>1, <1>5, <2>1
    <3> QED
      BY <1>1, <1>7, <3>1 DEF SplitAllowed
  <2>2. CASE i = L + 1
    BY <1>5, <1>7, <2>2 DEF Carries, CoreUnit
  <2>3. CASE i = L + 2
    BY <1>5, <1>6, <1>7, <2>3 DEF Carries, Short, Long, LengthUnit
  <2>4. CASE i = L + 3 /\ h = 3
    <3>1. s[i] = ExtUnit(n, split)
      BY <1>5, <2>4 DEF Carries
    <3>2. s[i].split = split
      <4>1. ExtUnit(n, split).split = split
        BY DEF ExtUnit
      <4> QED
        BY <3>1, <4>1, Zenon
    <3>3. split = TRUE
      BY <1>7, <3>2, Zenon
    <3> QED
      BY <1>4, <3>3, Zenon
  <2>5. CASE i > L + h
    <3>1. PICK j \in 1..n : i = L + h + j
      <4>1. i - (L + h) \in 1..n /\ i = L + h + (i - (L + h))
        BY <1>1, <2>5
      <4> QED
        BY <4>1
    <3>2. s[i] = PayloadUnit(id + j)
      BY <1>5, <3>1 DEF Carries
    <3> QED
      BY <1>7, <3>2 DEF PayloadUnit
  <2> QED
    BY <1>1, <1>6, <2>1, <2>2, <2>3, <2>4, <2>5
<1> QED
  BY <1>2, <1>5, <1>7 DEF SplitAllowed

LEMMA ButLastStays ==
  ASSUME TypeOK, WholeButLast, UNCHANGED taken, hurt \subseteq hurt',
         UNCHANGED <<sent, partial>> \/ (Grows /\ "cut" \notin hurt)
  PROVE  WholeButLast'
<1>1. Len(sent) \in Nat /\ Len(taken) \in Nat
  BY DEF TypeOK
<1>2. CASE UNCHANGED <<sent, partial>>
  BY <1>2 DEF WholeButLast
<1>3. CASE Grows /\ "cut" \notin hurt
  BY <1>1, <1>3 DEF WholeButLast, Grows
<1> QED
  BY <1>2, <1>3

LEMMA SendTyped ==
  ASSUME TypeOK, NEW f, NEW op, NEW ext, NEW split, NEW n \in Nat, NEW h \in Nat,
         Sending(f, op, n, ext, split, h)
  PROVE  TypeOK'
<1>1. stream' \in Seq(Unit)
  BY StreamGrows, Zenon DEF Sending
<1>2. partial' \in Seq(Nat) /\ sent' \in Seq(Seq(Nat)) /\ fragmented' \in BOOLEAN
      /\ hurt' \subseteq Hardships
  <2>1. CASE Sends(f, n) /\ fragmented' \in BOOLEAN /\ hurt' = hurt
    <3>1. partial' \in Seq(Nat) /\ sent' \in Seq(Seq(Nat))
      BY <2>1, FrameGrows
    <3>2. hurt' \subseteq Hardships
      BY <2>1 DEF TypeOK
    <3> QED
      BY <2>1, <3>1, <3>2, Zenon
  <2>2. CASE UNCHANGED <<partial, fragmented, sent>> /\ hurt' = hurt \cup {"control"}
             /\ "control" \in Hardships
    BY <2>2 DEF TypeOK
  <2> QED
    BY <2>1, <2>2, Zenon DEF Sending
<1>3. nframes' \in 0..MaxFrames /\ nunits' \in Nat
  BY BoundsAssumption DEF Sending, TypeOK
<1>4. UNCHANGED <<rpc, opcode, fin, rest, buffer, taken, nclean>> /\ link' \in {"up", "down"}
  BY DEF Sending
<1> QED
  BY <1>1, <1>2, <1>3, <1>4 DEF TypeOK

LEMMA SendStep ==
  ASSUME Inv, Server
  PROVE  Inv'
<1>1. PICK f, op, ext, split : \E n \in Nat, h \in Nat : Sending(f, op, n, ext, split, h)
  BY SendIs, Zenon
<1>2. PICK n \in Nat, h \in Nat : Sending(f, op, n, ext, split, h)
  BY <1>1, Zenon
<1>3. TypeOK /\ SmallInv /\ WholeButLast
  BY DEF Inv
<1>4. TypeOK'
  BY <1>2, <1>3, SendTyped
<1>5. /\ link = "up" /\ link' = "up" /\ stream' = stream \o Frame(f, op, n, ext, split)
      /\ Fits(f, op, n, ext, split, h)
      /\ UNCHANGED <<rpc, opcode, fin, rest, buffer, taken, nclean>>
  BY <1>2 DEF Sending
<1>6. "cut" \notin hurt
  BY <1>3, <1>5 DEF SmallInv
<1>7. \/ Sends(f, n) /\ hurt' = hurt
      \/ UNCHANGED <<partial, sent>> /\ hurt' = hurt \cup {"control"}
  BY <1>2, Zenon DEF Sending
<1>8. Grows
  <2>1. CASE Sends(f, n)
    BY <1>3, <2>1, FrameGrows
  <2>2. CASE UNCHANGED <<partial, sent>>
    BY <1>3, <2>2, Stays
  <2> QED
    BY <1>7, <2>1, <2>2
<1>9. SmallInv'
  <2>1. SplitAllowed'
    BY <1>2, <1>3, SendSplit DEF SmallInv
  <2> QED
    BY <1>3, <1>5, <1>6, <1>7, <2>1 DEF SmallInv
<1>10. WholeButLast'
  BY <1>3, <1>5, <1>6, <1>7, <1>8, ButLastStays
<1>11. ASSUME Synced PROVE Synced'
  <2>1. PICK lab \in Labels : Track(lab) /\ Here(lab) /\ (Pure => Whole /\ Begun /\ Faithful(lab))
    BY <1>11 DEF Synced
  <2>2. PICK new \in Labels' : /\ new[0] = lab[0] /\ Track(new)'
                               /\ Faithful(lab) /\ Sends(f, n) => Faithful(new)'
    BY <1>3, <1>5, <2>1, Extended
  <2>3. Here(new)'
    BY <1>5, <2>1, <2>2 DEF Here, HereAt
  <2>4. ASSUME Pure' PROVE Whole' /\ Begun' /\ Faithful(new)'
    <3>1. Pure /\ Sends(f, n)
      BY <1>7, <2>4 DEF Pure
    <3>2. Whole' /\ Begun'
      BY <1>3, <1>5, <1>8, <2>1, <3>1, WholeStays, BegunStays
    <3> QED
      BY <2>1, <2>2, <3>1, <3>2
  <2> QED
    BY <2>2, <2>3, <2>4 DEF Synced
<1>12. ~Astray
  BY <1>5 DEF Astray
<1> QED
  BY <1>4, <1>5, <1>9, <1>10, <1>11, <1>12 DEF Inv

-----------------------------------------------------------------------------
(* The connection ends.                                                     *)

LEMMA PartOf ==
  ASSUME TypeOK, NEW i \in Nat, NEW j \in Nat, i + j <= Len(stream),
         Len(stream') = j, stream' \in Seq(Unit), \A x \in 1..j : stream'[x] = stream[i + x],
         SplitAllowed
  PROVE  SplitAllowed'
<1>1. Len(stream) \in Nat
  BY StreamType
<1>2. ASSUME NEW x \in 1..j PROVE i + x \in 1..Len(stream)
  BY <1>1
<1> QED
  BY <1>2 DEF SplitAllowed

LEMMA FirstUnits ==
  ASSUME TypeOK, NEW k \in 0..Len(stream), stream' = SubSeq(stream, 1, k)
  PROVE  stream' \in Seq(Unit) /\ Len(stream') = k /\ \A i \in 1..k : stream'[i] = stream[i]
<1> DEFINE U == Unit
<1>1. stream \in Seq(U)
  BY DEF TypeOK
<1> HIDE DEF U
<1>2. Len(stream) \in Nat
  BY <1>1
<1>3. stream' \in Seq(U) /\ Len(stream') = k /\ \A i \in 1..k : stream'[i] = stream[i]
  BY <1>1, <1>2
<1> QED
  BY <1>3 DEF U

LEMMA RestOfUnits ==
  ASSUME TypeOK, NEW k \in 0..Len(stream), stream' = SubSeq(stream, k + 1, Len(stream))
  PROVE  /\ stream' \in Seq(Unit) /\ Len(stream') = Len(stream) - k
         /\ \A i \in 1..Len(stream') : stream'[i] = stream[k + i]
<1> DEFINE U == Unit
<1>1. stream \in Seq(U)
  BY DEF TypeOK
<1> HIDE DEF U
<1>2. Len(stream) \in Nat
  BY <1>1
<1>3. /\ stream' \in Seq(U) /\ Len(stream') = Len(stream) - k
      /\ \A i \in 1..Len(stream') : stream'[i] = stream[k + i]
  BY <1>1, <1>2
<1> QED
  BY <1>3 DEF U

LEMMA DropStep ==
  ASSUME Inv, Drop
  PROVE  Inv'
<1>1. TypeOK /\ SmallInv /\ WholeButLast
  BY DEF Inv
<1>2. /\ link = "up" /\ link' = "down"
      /\ UNCHANGED <<partial, fragmented, sent, nframes, nunits>>
      /\ UNCHANGED <<rpc, opcode, fin, rest, buffer, taken, nclean>>
  BY DEF Drop, server, reader
<1>3. PICK k \in 0..Len(stream) :
        /\ stream' = SubSeq(stream, 1, k) /\ hurt' = (IF k \in Boundaries THEN hurt ELSE hurt \cup {"cut"})
        /\ k \in Boundaries \/ "cut" \in Hardships
  BY DEF Drop, Boundaries
<1>4. stream' \in Seq(Unit) /\ Len(stream') = k /\ \A i \in 1..k : stream'[i] = stream[i]
  BY <1>1, <1>3, FirstUnits
<1>5. hurt \subseteq hurt' /\ (k \in Boundaries \/ "cut" \in hurt') /\ (Pure' <=> Pure)
      /\ (hurt' = {} => hurt = {})
  BY <1>3 DEF Pure
<1>6. TypeOK'
  BY <1>1, <1>2, <1>3, <1>4 DEF TypeOK
<1>7. SmallInv'
  <2>1. k \in Nat /\ 0 \in Nat /\ 0 + k <= Len(stream) /\ \A i \in 1..k : stream'[i] = stream[0 + i]
    BY <1>1, <1>4, StreamType
  <2>2. SplitAllowed'
    BY <1>1, <1>4, <2>1, PartOf DEF SmallInv
  <2> QED
    BY <1>1, <1>2, <1>5, <2>2 DEF SmallInv
<1>8. WholeButLast'
  BY <1>1, <1>2, <1>5, ButLastStays
<1>9. ASSUME Synced PROVE Synced'
  <2>1. PICK lab \in Labels : Track(lab) /\ Here(lab) /\ (Pure => Whole /\ Begun /\ Faithful(lab))
    BY <1>9 DEF Synced
  <2>2. PICK new \in Labels' : new[0] = lab[0] /\ Track(new)' /\ (Faithful(lab) => Faithful(new)')
    BY <1>1, <1>2, <1>3, <1>4, <1>5, <2>1, Cut
  <2>3. Here(new)'
    BY <1>2, <2>1, <2>2 DEF Here, HereAt
  <2>4. Whole => Whole'
    BY <1>2 DEF Whole
  <2>5. Begun => Begun'
    BY <1>2 DEF Begun, Text
  <2> QED
    BY <1>5, <2>1, <2>2, <2>3, <2>4, <2>5 DEF Synced
<1>10. ~Astray
  BY <1>2 DEF Astray
<1> QED
  BY <1>1, <1>2, <1>6, <1>7, <1>8, <1>9, <1>10 DEF Inv

-----------------------------------------------------------------------------
(* The reader moves.                                                        *)

\* What an action of the reader leaves alone.
Reads == UNCHANGED <<link, partial, fragmented, sent, nframes, nunits>>

\* The reader moves to the place after k units.
LEMMA Moves ==
  ASSUME TypeOK, Reads, NEW lab \in Labels, Track(lab), NEW k \in 0..Len(stream),
         Len(stream') = Len(stream) - k, \A i \in 1..Len(stream') : stream'[i] = stream[k + i],
         hurt \subseteq hurt', HereAt(lab[k])',
         Pure' => Whole' /\ Begun' /\ Faithful(lab)
  PROVE  Synced'
<1>1. PICK new \in Labels' : /\ new[0] = lab[k] /\ Track(new)'
                             /\ Faithful(lab) /\ UNCHANGED <<sent, partial>> => Faithful(new)'
  BY Shifted DEF Reads
<1>2. Here(new)'
  BY <1>1 DEF Here
<1>3. Pure' => Whole' /\ Begun' /\ Faithful(new)'
  BY <1>1 DEF Reads
<1> QED
  BY <1>1, <1>2, <1>3 DEF Synced

\* The first unit.
LEMMA FirstUnit ==
  ASSUME TypeOK, stream # <<>>
  PROVE  /\ Len(stream) \in Nat /\ 1 \in 1..Len(stream) /\ 1 \in 0..Len(stream)
         /\ Next1 = stream[1] /\ Next1 \in Unit
<1> DEFINE U == Unit
<1>1. stream \in Seq(U)
  BY DEF TypeOK
<1> HIDE DEF U
<1>2. Len(stream) \in Nat /\ Len(stream) >= 1 /\ Head(stream) = stream[1] /\ stream[1] \in U
  BY <1>1
<1>3. 1 \in 1..Len(stream) /\ 1 \in 0..Len(stream)
  BY <1>2
<1>4. Next1 = stream[1]
  BY <1>2 DEF Next1
<1>5. Next1 \in U
  BY <1>2, <1>4
<1> QED
  BY <1>2, <1>3, <1>4, <1>5 DEF U

LEMMA TailOf ==
  ASSUME TypeOK, stream # <<>>, stream' = Tail(stream)
  PROVE  /\ stream' \in Seq(Unit) /\ Len(stream') = Len(stream) - 1
         /\ \A i \in 1..Len(stream') : stream'[i] = stream[1 + i]
<1> DEFINE U == Unit
<1>1. stream \in Seq(U)
  BY DEF TypeOK
<1> HIDE DEF U
<1>2. Len(stream) \in Nat /\ Len(stream) >= 1
  BY <1>1
<1>3. /\ stream' \in Seq(U) /\ Len(stream') = Len(stream) - 1
      /\ \A i \in 1..Len(stream') : stream'[i] = stream[1 + i]
  BY <1>1, <1>2
<1> QED
  BY <1>3 DEF U

\* A step that hands nothing over keeps the small parts and the buffers whole.
LEMMA KeepsRest ==
  ASSUME Inv, TypeOK', Reads, UNCHANGED <<taken, nclean>>, hurt \subseteq hurt',
         NEW k \in 0..Len(stream), Len(stream') = Len(stream) - k,
         \A i \in 1..Len(stream') : stream'[i] = stream[k + i],
         "cut" \in hurt' => "cut" \in hurt
  PROVE  SmallInv' /\ WholeButLast'
<1>1. TypeOK /\ SmallInv /\ WholeButLast
  BY DEF Inv
<1>2. Len(stream) \in Nat
  BY <1>1, StreamType
<1>3. SplitAllowed'
  <2>1. Len(stream) - k \in Nat
    BY <1>2
  <2>2. PICK j \in Nat : j = Len(stream) - k
    BY <2>1
  <2>3. k \in Nat /\ k + j <= Len(stream) /\ Len(stream') = j
    BY <1>2, <2>2
  <2>4. \A x \in 1..j : stream'[x] = stream[k + x]
    BY <2>3
  <2>5. stream' \in Seq(Unit)
    BY DEF TypeOK
  <2> QED
    BY <1>1, <2>3, <2>4, <2>5, PartOf DEF SmallInv
<1>4. hurt' = {} => hurt = {}
  OBVIOUS
<1> QED
  BY <1>1, <1>3, <1>4, ButLastStays DEF SmallInv, Reads

LEMMA Unmoved ==
  ASSUME TypeOK, stream' = stream
  PROVE  /\ 0 \in 0..Len(stream) /\ Len(stream') = Len(stream) - 0
         /\ \A i \in 1..Len(stream') : stream'[i] = stream[0 + i]
<1>1. Len(stream) \in Nat
  BY StreamType
<1> QED
  BY <1>1

\* The reader of a synchronized stream.
LEMMA Places ==
  ASSUME TypeOK, Synced
  PROVE  \E lab \in Labels :
           /\ Track(lab) /\ Here(lab) /\ (Pure => Whole /\ Begun /\ Faithful(lab))
           /\ \A p \in 0..Len(stream) : lab[p] \in Place
           /\ Len(stream) \in Nat /\ 0 \in 0..Len(stream)
<1>1. Len(stream) \in Nat
  BY StreamType
<1> QED
  BY <1>1 DEF Synced, Labels

-----------------------------------------------------------------------------
(* The reader reads a header.                                               *)

LEMMA ReadCoreStep ==
  ASSUME Inv, ReadCore
  PROVE  Inv'
<1>1. TypeOK
  BY DEF Inv
<1>2. /\ rpc = "core" /\ stream # <<>> /\ Next1.kind = "core"
      /\ stream' = Tail(stream) /\ rpc' = "length"
      /\ UNCHANGED <<rest, buffer, taken, hurt, nclean>> /\ Reads
  BY DEF ReadCore, Arrived, server, Reads
<1>3. fin' = Next1.fin
  BY DEF ReadCore
<1>4. PICK u \in Unit : u = Next1 /\ u = stream[1]
  BY <1>1, <1>2, FirstUnit
<1>5. Len(stream) \in Nat /\ 1 \in 0..Len(stream) /\ 0 < Len(stream)
  BY <1>1, <1>2, FirstUnit
<1>6. /\ stream' \in Seq(Unit) /\ Len(stream') = Len(stream) - 1
      /\ \A i \in 1..Len(stream') : stream'[i] = stream[1 + i]
  BY <1>1, <1>2, TailOf
<1>7. TypeOK'
  <2>1. fin' \in BOOLEAN
    BY <1>2, <1>3, <1>4, Units, Zenon
  <2>2. opcode' \in Opcodes
    BY <1>1 DEF ReadCore, Opcode, Opcodes, TypeOK
  <2> QED
    BY <1>1, <1>2, <1>6, <2>1, <2>2 DEF TypeOK, Reads
<1>8. SmallInv' /\ WholeButLast'
  BY <1>2, <1>5, <1>6, <1>7, KeepsRest
<1>9. Synced
  BY <1>2 DEF Inv, Astray
<1>10. Synced'
  <2>1. PICK lab \in Labels :
          /\ Track(lab) /\ Here(lab) /\ (Pure => Whole /\ Begun /\ Faithful(lab))
          /\ 0 \in 0..Len(stream)
    BY <1>1, <1>9, Places
  <2>2. Follows(lab[0], u, lab[1])
    BY <1>4, <1>5, <2>1 DEF Track
  <2>3. lab[1] = Opened(lab[0], u.fin)
    BY <1>2, <1>4, <2>2 DEF Follows
  <2>4. rest = 0 /\ Len(taken) + 1 = NextMsg(lab[0]) /\ Len(buffer) = NextAt(lab[0])
    BY <1>2, <2>1 DEF Here, HereAt
  <2>5. lab[1] = At(Len(taken') + 1, Len(buffer'), fin', rest', "length")
    <3>1. lab[1] = At(Len(taken) + 1, Len(buffer), u.fin, rest, "length")
      BY <2>3, <2>4, Zenon DEF Opened
    <3>2. taken' = taken /\ buffer' = buffer /\ rest' = rest /\ fin' = u.fin
      BY <1>2, <1>3, <1>4, Zenon
    <3> QED
      BY <3>1, <3>2, Zenon
  <2>6. HereAt(lab[1])'
    BY <1>2, <2>5, Zenon DEF HereAt
  <2>7. Pure' => Whole' /\ Begun' /\ Faithful(lab)
    BY <1>2, <2>1 DEF Pure, Whole, Begun, Text, Reads
  <2> QED
    BY <1>1, <1>2, <1>5, <1>6, <2>1, <2>6, <2>7, Moves
<1> QED
  BY <1>7, <1>8, <1>10 DEF Inv

LEMMA ReadLengthStep ==
  ASSUME Inv, ReadLength
  PROVE  Inv'
<1>1. TypeOK
  BY DEF Inv
<1>2. /\ rpc = "length" /\ stream # <<>> /\ Next1.kind = "length"
      /\ stream' = Tail(stream)
      /\ UNCHANGED <<fin, opcode, buffer, taken, hurt, nclean>> /\ Reads
  BY DEF ReadLength, Arrived, server, Reads
<1>3. PICK u \in Unit : u = Next1 /\ u = stream[1]
  BY <1>1, <1>2, FirstUnit
<1>4. /\ u.kind = "length" /\ u.n \in Nat
      /\ \/ u.ext = TRUE /\ rest' = 0 /\ rpc' = "ext"
         \/ u.ext = FALSE /\ rest' = u.n /\ rpc' = "payload"
  <2>1. u.kind = "length" /\ u.n \in Nat /\ u.ext \in BOOLEAN
    BY <1>2, <1>3, Units, Zenon
  <2>2. rest' = (IF u.ext THEN 0 ELSE u.n) /\ rpc' = (IF u.ext THEN "ext" ELSE "payload")
    BY <1>3, Zenon DEF ReadLength
  <2> QED
    BY <2>1, <2>2, Zenon
<1>5. Len(stream) \in Nat /\ 1 \in 0..Len(stream) /\ 0 < Len(stream)
  BY <1>1, <1>2, FirstUnit
<1>6. /\ stream' \in Seq(Unit) /\ Len(stream') = Len(stream) - 1
      /\ \A i \in 1..Len(stream') : stream'[i] = stream[1 + i]
  BY <1>1, <1>2, TailOf
<1>7. TypeOK'
  <2>1. rest' \in Nat /\ rpc' \in {"core", "length", "ext", "payload", "ended", "lost"}
    BY <1>4
  <2> QED
    BY <1>1, <1>2, <1>6, <2>1 DEF TypeOK, Reads
<1>8. SmallInv' /\ WholeButLast'
  BY <1>2, <1>5, <1>6, <1>7, KeepsRest
<1>9. Synced
  BY <1>2 DEF Inv, Astray
<1>10. Synced'
  <2>1. PICK lab \in Labels :
          /\ Track(lab) /\ Here(lab) /\ (Pure => Whole /\ Begun /\ Faithful(lab))
          /\ 0 \in 0..Len(stream)
    BY <1>1, <1>9, Places
  <2>2. Follows(lab[0], u, lab[1])
    BY <1>3, <1>5, <2>1 DEF Track
  <2>3. lab[0] = At(Len(taken) + 1, Len(buffer), fin, rest, "length")
    BY <1>2, <2>1, Zenon DEF Here, HereAt
  <2>4. lab[1] = IF u.ext THEN Widened(lab[0]) ELSE Sized(lab[0], u.n)
    BY <1>4, <2>2, Zenon DEF Follows
  <2>5. PICK m, at, f, l : /\ m = Len(taken) + 1 /\ at = Len(buffer) /\ f = fin /\ l = rest
                           /\ lab[0] = At(m, at, f, l, "length")
    BY <2>3
  <2>6. Widened(lab[0]) = At(m, at, f, 0, "ext") /\ Sized(lab[0], u.n) = At(m, at, f, u.n, "payload")
    BY <2>5, AtIs
  <2>7. lab[1] = At(m, at, f, rest', rpc')
    BY <1>4, <2>4, <2>6, Zenon
  <2>8. m = Len(taken') + 1 /\ at = Len(buffer') /\ f = fin'
    BY <1>2, <2>5
  <2>9. HereAt(lab[1])'
    <3>1. lab[1] = At(Len(taken') + 1, Len(buffer'), fin', rest', rpc')
      BY <2>7, <2>8, Zenon
    <3>2. rpc' # "core"
      BY <1>4
    <3> QED
      BY <3>1, <3>2, Zenon DEF HereAt
  <2>10. Pure' => Whole' /\ Begun' /\ Faithful(lab)
    BY <1>2, <2>1 DEF Pure, Whole, Begun, Text, Reads
  <2> QED
    BY <1>1, <1>2, <1>5, <1>6, <2>1, <2>9, <2>10, Moves
<1> QED
  BY <1>7, <1>8, <1>10 DEF Inv

LEMMA ReadExtStep ==
  ASSUME Inv, ReadExt
  PROVE  Inv'
<1>1. TypeOK /\ SmallInv /\ WholeButLast
  BY DEF Inv
<1>2. /\ rpc = "ext" /\ stream # <<>> /\ Next1.kind = "ext"
      /\ stream' = Tail(stream)
      /\ UNCHANGED <<fin, opcode, buffer, taken, nclean>> /\ Reads
  BY DEF ReadExt, Arrived, server, Reads
<1>3. PICK u \in Unit : u = Next1 /\ u = stream[1]
  BY <1>1, <1>2, FirstUnit
<1>4. Len(stream) \in Nat /\ 1 \in 0..Len(stream) /\ 1 \in 1..Len(stream) /\ 0 < Len(stream)
  BY <1>1, <1>2, FirstUnit
<1>5. /\ u.kind = "ext" /\ u.n \in Nat /\ rest' = u.n
      /\ \/ /\ u.split = TRUE /\ rpc' = "lost" /\ hurt' = hurt \cup {"split"}
            /\ "split" \in Hardships
         \/ u.split = FALSE /\ rpc' = "payload" /\ hurt' = hurt
  <2>1. u.kind = "ext" /\ u.n \in Nat /\ u.split \in BOOLEAN
    BY <1>2, <1>3, Units, Zenon
  <2>2. /\ rest' = u.n /\ rpc' = (IF u.split THEN "lost" ELSE "payload")
        /\ hurt' = (IF u.split THEN hurt \cup {"split"} ELSE hurt)
    BY <1>3, Zenon DEF ReadExt
  <2>3. u.split = TRUE => "split" \in Hardships
    BY <1>1, <1>3, <1>4, <2>1 DEF SmallInv, SplitAllowed
  <2> QED
    BY <2>1, <2>2, <2>3, Zenon
<1>6. /\ stream' \in Seq(Unit) /\ Len(stream') = Len(stream) - 1
      /\ \A i \in 1..Len(stream') : stream'[i] = stream[1 + i]
  BY <1>1, <1>2, TailOf
<1>7. hurt \subseteq hurt' /\ hurt' \subseteq Hardships /\ ("cut" \in hurt' => "cut" \in hurt)
      /\ (Pure' => Pure)
  BY <1>1, <1>5 DEF TypeOK, Pure
<1>8. TypeOK'
  <2>1. rest' \in Nat /\ rpc' \in {"core", "length", "ext", "payload", "ended", "lost"}
    BY <1>5
  <2> QED
    BY <1>1, <1>2, <1>6, <1>7, <2>1 DEF TypeOK, Reads
<1>9. SmallInv' /\ WholeButLast'
  BY <1>2, <1>4, <1>6, <1>7, <1>8, KeepsRest
<1>10. Synced
  BY <1>2 DEF Inv, Astray
<1>11. CASE rpc' = "lost"
  BY <1>8, <1>9, <1>11 DEF Inv
<1>12. CASE rpc' = "payload"
  <2>1. PICK lab \in Labels :
          /\ Track(lab) /\ Here(lab) /\ (Pure => Whole /\ Begun /\ Faithful(lab))
          /\ 0 \in 0..Len(stream)
    BY <1>1, <1>10, Places
  <2>2. Follows(lab[0], u, lab[1])
    BY <1>3, <1>4, <2>1 DEF Track
  <2>3. PICK m, at, f, l : /\ m = Len(taken) + 1 /\ at = Len(buffer) /\ f = fin /\ l = rest
                           /\ lab[0] = At(m, at, f, l, "ext")
    BY <1>2, <2>1, Zenon DEF Here, HereAt
  <2>4. lab[1] = Sized(lab[0], u.n)
    <3>1. lab[0].pc = "ext"
      BY <2>3, AtIs
    <3> QED
      BY <1>5, <2>2, <3>1 DEF Follows, Done
  <2>5. lab[1] = At(m, at, f, u.n, "payload")
    BY <2>3, <2>4, AtIs
  <2>6. m = Len(taken') + 1 /\ at = Len(buffer') /\ f = fin' /\ u.n = rest'
    BY <1>2, <1>5, <2>3
  <2>7. HereAt(lab[1])'
    <3>1. lab[1] = At(Len(taken') + 1, Len(buffer'), fin', rest', rpc')
      BY <1>12, <2>5, <2>6, Zenon
    <3>2. rpc' # "core"
      BY <1>12
    <3> QED
      BY <3>1, <3>2, Zenon DEF HereAt
  <2>8. Pure' => Whole' /\ Begun' /\ Faithful(lab)
    BY <1>2, <1>7, <2>1 DEF Whole, Begun, Text, Reads
  <2>9. Synced'
    BY <1>1, <1>2, <1>4, <1>6, <1>7, <2>1, <2>7, <2>8, Moves
  <2> QED
    BY <1>8, <1>9, <2>9 DEF Inv
<1> QED
  BY <1>5, <1>11, <1>12

LEMMA LengthFailsStep ==
  ASSUME Inv, LengthFails
  PROVE  Inv'
<1>1. TypeOK /\ SmallInv /\ WholeButLast
  BY DEF Inv
<1>2. /\ rpc \in {"length", "ext"} /\ stream = <<>> /\ link = "down"
      /\ rest' \in Nat /\ rpc' = "payload"
      /\ UNCHANGED <<stream, fin, opcode, buffer, taken, hurt, nclean>> /\ Reads
  BY DEF LengthFails, ReadFails, server, Reads
<1>3. TypeOK'
  BY <1>1, <1>2 DEF TypeOK, Reads
<1>4. /\ 0 \in 0..Len(stream) /\ Len(stream') = Len(stream) - 0
      /\ \A i \in 1..Len(stream') : stream'[i] = stream[0 + i]
  BY <1>1, <1>2, Unmoved
<1>5. SmallInv' /\ WholeButLast'
  BY <1>2, <1>3, <1>4, KeepsRest
<1>6. Synced
  BY <1>2 DEF Inv, Astray
<1>7. PICK lab \in Labels : /\ Track(lab) /\ Here(lab) /\ (Pure => Whole /\ Begun /\ Faithful(lab))
  BY <1>1, <1>6, Places
<1>8. ~Done(lab[0])
  <2>1. PICK m, at, f, l : lab[0] = At(m, at, f, l, rpc)
    BY <1>2, <1>7, Zenon DEF Here, HereAt
  <2>2. lab[0].pc = rpc
    BY <2>1 DEF At
  <2> QED
    BY <1>2, <2>2 DEF Done
<1>9. "cut" \in hurt
  BY <1>2, <1>7, <1>8 DEF Track
<1>10. Astray'
  <2>1. Pure' => Whole' /\ Begun'
    BY <1>2, <1>7 DEF Pure, Whole, Begun, Text, Reads
  <2> QED
    BY <1>2, <1>9, <2>1 DEF Astray, Reads
<1> QED
  BY <1>3, <1>5, <1>10 DEF Inv

\* The reader gives up.
LEMMA EndStep ==
  ASSUME Inv, CoreFails \/ PayloadFails \/ DeliverNothing
  PROVE  Inv'
<1>1. TypeOK /\ SmallInv /\ WholeButLast
  BY DEF Inv
<1>2. /\ rpc' = "ended"
      /\ UNCHANGED <<stream, fin, rest, opcode, buffer, taken, hurt, nclean>> /\ Reads
  BY DEF CoreFails, PayloadFails, DeliverNothing, server, Reads
<1>3. TypeOK'
  BY <1>1, <1>2 DEF TypeOK, Reads
<1>4. /\ 0 \in 0..Len(stream) /\ Len(stream') = Len(stream) - 0
      /\ \A i \in 1..Len(stream') : stream'[i] = stream[0 + i]
  BY <1>1, <1>2, Unmoved
<1>5. SmallInv' /\ WholeButLast'
  BY <1>2, <1>3, <1>4, KeepsRest
<1> QED
  BY <1>2, <1>3, <1>5 DEF Inv

LEMMA NextFragmentStep ==
  ASSUME Inv, NextFragment
  PROVE  Inv'
<1>1. TypeOK /\ SmallInv /\ WholeButLast
  BY DEF Inv
<1>2. /\ rpc = "payload" /\ rest = 0 /\ rpc' = "core"
      /\ UNCHANGED <<stream, fin, rest, opcode, buffer, taken, hurt, nclean>> /\ Reads
  BY DEF NextFragment, server, Reads
<1>3. TypeOK'
  BY <1>1, <1>2 DEF TypeOK, Reads
<1>4. /\ 0 \in 0..Len(stream) /\ Len(stream') = Len(stream) - 0
      /\ \A i \in 1..Len(stream') : stream'[i] = stream[0 + i]
  BY <1>1, <1>2, Unmoved
<1>5. SmallInv' /\ WholeButLast'
  BY <1>2, <1>3, <1>4, KeepsRest
<1>6. ASSUME Synced PROVE Synced'
  <2>1. PICK lab \in Labels : /\ Track(lab) /\ Here(lab) /\ (Pure => Whole /\ Begun /\ Faithful(lab))
    BY <1>1, <1>6, Places
  <2>2. PICK m, at, f : /\ m = Len(taken) + 1 /\ at = Len(buffer) /\ f = fin
                        /\ lab[0] = At(m, at, f, 0, "payload")
    BY <1>2, <2>1, Zenon DEF Here, HereAt
  <2>3. /\ lab[0].msg = m /\ lab[0].at = at /\ lab[0].fin = f /\ lab[0].left = 0
        /\ lab[0].pc = "payload"
    BY <2>2, AtIs
  <2>4. NextMsg(lab[0]) = m /\ NextAt(lab[0]) = at
    <3>1. ~fin /\ fin \in BOOLEAN
      BY <1>1 DEF NextFragment, TypeOK
    <3>2. fin = FALSE
      BY <3>1, Zenon
    <3>3. lab[0].fin = FALSE
      BY <2>2, <2>3, <3>2, Zenon
    <3> QED
      BY <2>3, <3>3, Zenon DEF NextMsg, NextAt
  <2>5. HereAt(lab[0])'
    BY <1>2, <2>2, <2>3, <2>4 DEF HereAt, Done
  <2>6. Pure' => Whole' /\ Begun' /\ Faithful(lab)
    BY <1>2, <2>1 DEF Pure, Whole, Begun, Text, Reads
  <2> QED
    BY <1>1, <1>2, <1>4, <2>1, <2>5, <2>6, Moves
<1>7. ASSUME Astray PROVE Astray'
  BY <1>2, <1>7 DEF Astray, Reads
<1> QED
  BY <1>2, <1>3, <1>5, <1>6, <1>7 DEF Inv

\* One turn of the payload loop.
LEMMA ReadPayloadStep ==
  ASSUME Inv, ReadPayload
  PROVE  Inv'
<1>1. TypeOK
  BY DEF Inv
<1>2. /\ rpc = "payload" /\ stream # <<>>
      /\ UNCHANGED <<rpc, fin, opcode, taken, hurt, nclean>> /\ Reads
  BY DEF ReadPayload, Arrived, server, Reads
<1>3. PICK k \in 1..rest :
        /\ k <= Len(stream)
        /\ buffer' = buffer \o [i \in 1..k |-> stream[i].id]
        /\ stream' = SubSeq(stream, k + 1, Len(stream))
        /\ rest' = rest - k
  BY DEF ReadPayload
<1>4. /\ Len(stream) \in Nat /\ rest \in Nat /\ k \in Nat /\ k <= rest
      /\ k \in 0..Len(stream) /\ rest - k \in Nat
      /\ \A i \in 1..k : i \in Nat /\ i <= Len(stream) /\ i \in 1..Len(stream) /\ i \in 1..rest
  BY <1>1, <1>3, StreamType DEF TypeOK
<1>5. /\ stream' \in Seq(Unit) /\ Len(stream') = Len(stream) - k
      /\ \A i \in 1..Len(stream') : stream'[i] = stream[k + i]
  BY <1>1, <1>3, <1>4, RestOfUnits
<1>6. Synced
  BY <1>2 DEF Inv, Astray
<1>7. PICK lab \in Labels :
        /\ Track(lab) /\ Here(lab) /\ (Pure => Whole /\ Begun /\ Faithful(lab))
        /\ 0 \in 0..Len(stream) /\ \A p \in 0..Len(stream) : lab[p] \in Place
  BY <1>1, <1>6, Places
<1>8. PICK m, at, f, l : /\ m = Len(taken) + 1 /\ at = Len(buffer) /\ f = fin /\ l = rest
                         /\ lab[0] = At(m, at, f, l, "payload")
  BY <1>2, <1>7, Zenon DEF Here, HereAt
<1>9. /\ lab[0].msg = m /\ lab[0].at = at /\ lab[0].fin = f /\ lab[0].left = rest
      /\ lab[0].pc = "payload" /\ m \in Nat /\ at \in Nat
  BY <1>1, <1>8, AtIs DEF TypeOK
<1>10. ASSUME NEW i \in 1..k
       PROVE  stream[i].kind = "payload" /\ lab[i] = Filled(lab[0], i) /\ stream[i].id \in Nat
  <2>1. 0 + i = i
    BY <1>4
  <2>2. stream[0 + i].kind = "payload" /\ lab[0 + i] = Filled(lab[0], i)
    BY <1>4, <1>7, <1>9, <2>1 DEF Track, Runs
  <2>3. stream[i] \in Unit
    BY <1>1, <1>4, StreamType
  <2> QED
    BY <2>1, <2>2, <2>3, Units
<1>11. PICK ids \in Seq(Nat) : /\ Len(ids) = k /\ \A i \in 1..k : ids[i] = stream[i].id
                               /\ buffer' = buffer \o ids
  <2> DEFINE s == [i \in 1..k |-> stream[i].id]
  <2>1. s \in [1..k -> Nat] /\ \A i \in 1..k : s[i] = stream[i].id
    BY <1>10
  <2>2. buffer' = buffer \o s
    BY <1>3
  <2> HIDE DEF s
  <2>3. s \in Seq(Nat) /\ Len(s) = k
    BY <1>4, <2>1, Indexed
  <2> QED
    BY <2>1, <2>2, <2>3
<1>12. /\ buffer' \in Seq(Nat) /\ Len(buffer') = at + k
       /\ \A i \in 1..at : buffer'[i] = buffer[i]
       /\ \A i \in 1..k : buffer'[at + i] = stream[i].id
  <2>1. buffer \in Seq(Nat)
    BY <1>1 DEF TypeOK
  <2>2. /\ buffer \o ids \in Seq(Nat) /\ Len(buffer \o ids) = Len(buffer) + Len(ids)
        /\ \A i \in 1..Len(buffer) : (buffer \o ids)[i] = buffer[i]
        /\ \A i \in 1..Len(ids) : (buffer \o ids)[Len(buffer) + i] = ids[i]
    BY <2>1, Joined
  <2> QED
    BY <1>8, <1>11, <2>2
<1>13. TypeOK'
  BY <1>1, <1>2, <1>3, <1>4, <1>5, <1>12 DEF TypeOK, Reads
<1>14. SmallInv' /\ WholeButLast'
  BY <1>2, <1>4, <1>5, <1>13, KeepsRest
<1>15. HereAt(lab[k])'
  <2>1. lab[k] = At(m, at + k, f, rest - k, "payload")
    <3>1. k >= 1 /\ k \in 1..k
      BY <1>1, <1>3, <1>4
    <3>2. lab[k] = Filled(lab[0], k)
      BY <1>10, <3>1
    <3> QED
      BY <1>9, <3>2 DEF Filled
  <2>2. m = Len(taken') + 1 /\ at + k = Len(buffer') /\ f = fin' /\ rest - k = rest' /\ rpc' = "payload"
    BY <1>2, <1>3, <1>8, <1>12
  <2>3. rpc' # "core"
    BY <2>2
  <2> QED
    BY <2>1, <2>2, <2>3, Zenon DEF HereAt
<1>16. ASSUME Pure PROVE Begun'
  <2>1. Begun /\ Faithful(lab)
    BY <1>7, <1>16
  <2>2. Text(m) \in Seq(Nat) /\ Len(Text(m)) \in Nat
    BY <1>1, <1>9, TextType
  <2>3. at + k <= Len(Text(m)) /\ Len(taken) <= Len(sent)
    <3>1. Sound(lab[0])
      BY <1>7, <2>1 DEF Faithful
    <3>2. at + rest <= Len(Text(m))
      BY <1>9, <3>1 DEF Sound
    <3>3. Len(taken) <= Len(sent)
      BY <2>1 DEF Begun
    <3> QED
      BY <1>4, <1>9, <2>2, <3>2, <3>3
  <2>4. ASSUME NEW i \in 1..k PROVE stream[i].id = Text(m)[at + i]
    <3>1. 0 + i = i
      BY <1>4
    <3>2. stream[0 + i].id = Text(lab[0].msg)[lab[0].at + i]
      BY <1>4, <1>7, <1>9, <2>1, <3>1 DEF Faithful
    <3> QED
      BY <1>9, <3>1, <3>2
  <2>5. \A i \in 1..at : buffer[i] = Text(m)[i]
    BY <1>8, <2>1 DEF Begun
  <2>6. ASSUME NEW i \in 1..(at + k) PROVE buffer'[i] = Text(m)[i]
    <3>1. CASE i \in 1..at
      BY <1>12, <2>5, <3>1
    <3>2. CASE i \notin 1..at
      <4>1. i - at \in 1..k /\ at + (i - at) = i
        BY <1>4, <1>9, <3>2
      <4>2. stream[i - at].id = Text(m)[at + (i - at)] /\ buffer'[at + (i - at)] = stream[i - at].id
        BY <1>12, <2>4, <4>1
      <4> QED
        BY <4>1, <4>2
    <3> QED
      BY <3>1, <3>2
  <2>7. Text(Len(taken) + 1)' = Text(m)
    BY <1>2, <1>8 DEF Text, Reads
  <2>8. Len(taken') <= Len(sent')
    BY <1>2, <2>3 DEF Reads
  <2> QED
    BY <1>12, <2>3, <2>6, <2>7, <2>8 DEF Begun
<1>17. Pure' => Whole' /\ Begun' /\ Faithful(lab)
  BY <1>2, <1>7, <1>16 DEF Pure, Whole, Reads
<1>18. Synced'
  BY <1>1, <1>2, <1>4, <1>5, <1>7, <1>15, <1>17, Moves
<1> QED
  BY <1>13, <1>14, <1>18 DEF Inv

-----------------------------------------------------------------------------
(* The reader hands a buffer over.                                          *)

LEMMA HandedOver ==
  ASSUME TypeOK, HandOver
  PROVE  /\ taken' \in Seq(Seq(Nat)) /\ Len(taken) \in Nat /\ Len(taken') = Len(taken) + 1
         /\ \A i \in 1..Len(taken) : taken'[i] = taken[i]
         /\ taken'[Len(taken) + 1] = buffer
         /\ buffer' \in Seq(Nat) /\ Len(buffer') = 0
         /\ rpc' = "core" /\ UNCHANGED <<stream, fin, rest, hurt>> /\ Reads
<1> DEFINE S == Seq(Nat)
<1>1. taken \in Seq(S) /\ buffer \in S
  BY DEF TypeOK
<1>2. taken' = Append(taken, buffer) /\ buffer' = <<>>
  BY DEF HandOver
<1>3. /\ rpc' = "core" /\ UNCHANGED <<stream, fin, rest, hurt>> /\ Reads
  BY DEF HandOver, Reads, server
<1>4. buffer' \in S /\ Len(buffer') = 0
  BY <1>2
<1> HIDE DEF S
<1>5. /\ taken' \in Seq(S) /\ Len(taken) \in Nat /\ Len(taken') = Len(taken) + 1
      /\ \A i \in 1..Len(taken) : taken'[i] = taken[i]
      /\ taken'[Len(taken) + 1] = buffer
  BY <1>1, <1>2, AppendProperties
<1> QED
  BY <1>3, <1>4, <1>5 DEF S

\* What it hands over is a whole message, and it has begun the next one.
LEMMA HandsWhole ==
  ASSUME TypeOK, HandOver, Whole, Begun,
         NEW m \in Nat, m = Len(taken) + 1, m <= Len(sent), Len(buffer) = Len(Text(m))
  PROVE  Whole' /\ Begun'
<1>1. /\ Len(taken') = m /\ \A i \in 1..Len(taken) : taken'[i] = taken[i]
      /\ taken'[m] = buffer /\ Len(taken) \in Nat /\ Len(buffer') = 0
      /\ UNCHANGED <<sent, partial>>
  BY HandedOver DEF Reads
<1>2. Len(sent) \in Nat /\ m \in 1..Len(sent) /\ m + 1 \in Nat
  BY DEF TypeOK
<1>3. Text(m) = sent[m] /\ Text(m) \in Seq(Nat)
  BY <1>2, TextType
<1>4. buffer = sent[m]
  <2>1. \A i \in 1..Len(buffer) : buffer[i] = Text(m)[i]
    BY DEF Begun
  <2>2. buffer \in Seq(Nat)
    BY DEF TypeOK
  <2>3. PICK s \in Seq(Nat) : s = buffer
    BY <2>2
  <2>4. PICK t \in Seq(Nat) : t = Text(m)
    BY <1>3
  <2>5. Len(s) = Len(t) /\ \A i \in 1..Len(s) : s[i] = t[i]
    BY <2>1, <2>3, <2>4
  <2>6. s = t
    BY <2>5, SeqEqual
  <2> QED
    BY <1>3, <2>3, <2>4, <2>6
<1>5. Whole'
  <2>1. ASSUME NEW i \in 1..m PROVE i <= Len(sent) /\ taken'[i] = sent[i]
    <3>1. CASE i = m
      BY <1>1, <1>2, <1>4, <3>1
    <3>2. CASE i # m
      <4>1. i \in 1..Len(taken)
        BY <1>1, <3>2
      <4> QED
        BY <1>1, <4>1 DEF Whole
    <3> QED
      BY <3>1, <3>2
  <2> QED
    BY <1>1, <2>1 DEF Whole
<1>6. Begun'
  <2>1. Len(Text(m + 1)) \in Nat
    BY <1>2, TextType
  <2>2. Text(Len(taken) + 1)' = Text(m + 1)
    BY <1>1 DEF Text
  <2> QED
    BY <1>1, <1>2, <2>1, <2>2 DEF Begun
<1> QED
  BY <1>5, <1>6

LEMMA DeliverStep ==
  ASSUME Inv, Deliver
  PROVE  Inv'
<1>1. TypeOK /\ SmallInv /\ WholeButLast
  BY DEF Inv
<1>2. rpc = "payload" /\ rest = 0 /\ HandOver /\ fin = TRUE
  <2>1. rpc = "payload" /\ rest = 0 /\ HandOver
    BY DEF Deliver
  <2>2. fin /\ fin \in BOOLEAN
    BY <1>1 DEF Deliver, TypeOK
  <2> QED
    BY <2>1, <2>2, Zenon
<1>3. /\ taken' \in Seq(Seq(Nat)) /\ Len(taken) \in Nat /\ Len(taken') = Len(taken) + 1
      /\ \A i \in 1..Len(taken) : taken'[i] = taken[i]
      /\ taken'[Len(taken) + 1] = buffer
      /\ buffer' \in Seq(Nat) /\ Len(buffer') = 0
      /\ rpc' = "core" /\ UNCHANGED <<stream, fin, rest, hurt>> /\ Reads
  BY <1>1, <1>2, HandedOver
<1>4. nclean' = (IF hurt = {} THEN nclean + 1 ELSE nclean) /\ opcode' = "unset"
  BY <1>2 DEF HandOver
<1>5. TypeOK'
  BY <1>1, <1>3, <1>4 DEF TypeOK, Reads, Opcodes
<1>6. SmallInv'
  BY <1>1, <1>3, <1>4 DEF SmallInv, SplitAllowed, Reads
<1>7. ASSUME Synced PROVE Synced' /\ (Pure => Whole')
  <2>1. PICK lab \in Labels : /\ Track(lab) /\ Here(lab) /\ (Pure => Whole /\ Begun /\ Faithful(lab))
                              /\ 0 \in 0..Len(stream)
    BY <1>1, <1>7, Places
  <2>2. PICK m \in Nat, at \in Nat : m = Len(taken) + 1 /\ at = Len(buffer)
    BY <1>1 DEF TypeOK
  <2>3. PICK f : f = fin /\ lab[0] = At(m, at, f, 0, "payload")
    BY <1>2, <2>1, <2>2, Zenon DEF Here, HereAt
  <2>4. /\ lab[0].msg = m /\ lab[0].at = at /\ lab[0].fin = TRUE /\ lab[0].left = 0
        /\ lab[0].pc = "payload"
    <3>1. /\ lab[0].msg = m /\ lab[0].at = at /\ lab[0].fin = f /\ lab[0].left = 0
          /\ lab[0].pc = "payload"
      <4>1. lab[0] = At(m, at, f, 0, "payload")
        BY <2>3
      <4> QED
        BY <4>1, AtIs
    <3> QED
      BY <1>2, <2>3, <3>1, Zenon
  <2>5. HereAt(lab[0])'
    <3>1. NextMsg(lab[0]) = m + 1 /\ NextAt(lab[0]) = 0
      BY <2>4 DEF NextMsg, NextAt
    <3>2. Len(taken') + 1 = m + 1 /\ rest' = 0
      BY <1>2, <1>3, <2>2
    <3> QED
      BY <1>3, <2>4, <3>1, <3>2 DEF HereAt, Done
  <2>6. ASSUME Pure PROVE Whole' /\ Begun'
    <3>1. Whole /\ Begun /\ Faithful(lab)
      BY <2>1, <2>6
    <3>2. Sound(lab[0])
      BY <2>1, <3>1 DEF Faithful
    <3>3. m <= Len(sent) /\ at + 0 = Len(Text(m))
      BY <2>4, <3>2 DEF Sound
    <3>4. Len(buffer) = Len(Text(m))
      BY <2>2, <3>3
    <3> QED
      BY <1>1, <1>2, <2>2, <3>1, <3>3, <3>4, HandsWhole
  <2>7. Pure' => Whole' /\ Begun' /\ Faithful(lab)
    BY <1>3, <2>1, <2>6 DEF Pure
  <2>8. /\ 0 \in 0..Len(stream) /\ Len(stream') = Len(stream) - 0
        /\ \A i \in 1..Len(stream') : stream'[i] = stream[0 + i]
    BY <1>1, <1>3, Unmoved
  <2>9. Synced'
    BY <1>1, <1>3, <2>1, <2>5, <2>7, <2>8, Moves
  <2> QED
    BY <2>6, <2>9
<1>8. ASSUME Astray PROVE Astray'
  BY <1>3, <1>8 DEF Astray, Reads
<1>9. WholeButLast'
  <2>1. CASE Synced
    <3>1. Pure' => Whole'
      BY <1>3, <1>7, <2>1 DEF Pure
    <3> QED
      BY <3>1 DEF WholeButLast, Whole, Pure
  <2>2. CASE Astray
    <3> SUFFICES ASSUME Pure PROVE WholeButLast'
      BY <1>3 DEF WholeButLast, Pure
    <3>1. Whole /\ Begun /\ "cut" \in hurt'
      BY <1>2, <1>3, <2>2 DEF Astray
    <3>2. PICK m \in Nat : m = Len(taken) + 1
      BY <1>3
    <3>3. ASSUME NEW i \in 1..Len(taken) PROVE i <= Len(sent') /\ taken'[i] = sent'[i]
      BY <1>3, <3>1 DEF Whole, Reads
    <3>4. IsPrefix(buffer, Append(sent, partial)[m])
      <4>1. /\ Len(sent) \in Nat /\ m <= Len(sent) + 1 /\ m >= 1 /\ Text(m) \in Seq(Nat)
            /\ Len(buffer) <= Len(Text(m)) /\ \A i \in 1..Len(buffer) : buffer[i] = Text(m)[i]
        BY <1>1, <1>3, <3>1, <3>2, TextType DEF Begun
      <4>2. Append(sent, partial)[m] = Text(m)
        <5> DEFINE S == Seq(Nat)
        <5>1. sent \in Seq(S) /\ partial \in S
          BY <1>1 DEF TypeOK
        <5> HIDE DEF S
        <5>2. /\ Append(sent, partial)[Len(sent) + 1] = partial
              /\ \A i \in 1..Len(sent) : Append(sent, partial)[i] = sent[i]
          BY <5>1, AppendProperties
        <5>3. CASE m = Len(sent) + 1
          BY <4>1, <5>2, <5>3 DEF Text
        <5>4. CASE m \in 1..Len(sent)
          BY <5>2, <5>4 DEF Text
        <5> QED
          BY <4>1, <5>3, <5>4
      <4>3. PICK s \in Seq(Nat) : s = buffer
        BY <1>1 DEF TypeOK
      <4>4. PICK t \in Seq(Nat) : t = Text(m)
        BY <4>1
      <4>5. Len(s) <= Len(t) /\ \A i \in 1..Len(s) : s[i] = t[i]
        BY <4>1, <4>3, <4>4
      <4>6. IsPrefix(s, t)
        BY <4>5 DEF IsPrefix
      <4> QED
        BY <4>2, <4>3, <4>4, <4>6
    <3>5. Len(taken') = m /\ taken'[m] = buffer /\ UNCHANGED <<sent, partial>>
      BY <1>3, <3>2 DEF Reads
    <3>6. ASSUME NEW i \in 1..Len(taken'), i # m PROVE i \in 1..Len(taken)
      BY <1>3, <3>2, <3>5, <3>6
    <3>7. IsPrefix(taken'[m], Append(sent', partial')[m])
      BY <3>4, <3>5
    <3> QED
      BY <3>1, <3>3, <3>5, <3>6, <3>7 DEF WholeButLast
  <2> QED
    BY <1>2, <2>1, <2>2 DEF Inv
<1> QED
  BY <1>2, <1>5, <1>6, <1>7, <1>8, <1>9 DEF Inv

-----------------------------------------------------------------------------
(* The invariant holds.                                                     *)

LEMMA InitInv ==
  ASSUME Init
  PROVE  Inv
<1>1. /\ link = "up" /\ stream = <<>> /\ partial = <<>> /\ sent = <<>>
      /\ rpc = "core" /\ rest = 0 /\ buffer = <<>> /\ taken = <<>> /\ hurt = {} /\ nclean = 0
  BY DEF Init
<1>2. TypeOK
  <2> DEFINE U == Unit
             S == Seq(Nat)
  <2>1. /\ link = "up" /\ fragmented = FALSE /\ nframes = 0 /\ nunits = 0 /\ opcode = "unset"
        /\ fin = FALSE /\ MaxFrames \in Nat
    BY BoundsAssumption DEF Init
  <2>2. /\ stream \in Seq(U) /\ sent \in Seq(S) /\ taken \in Seq(S)
        /\ partial \in Seq(Nat) /\ buffer \in Seq(Nat)
    <3> HIDE DEF U, S
    <3> QED
      BY <1>1
  <2>3. nclean \in 0..Len(taken) /\ nframes \in 0..MaxFrames
    BY <1>1, <2>1
  <2> QED
    BY <1>1, <2>1, <2>2, <2>3 DEF TypeOK, Opcodes
<1>3. Len(stream) = 0 /\ Len(sent) = 0 /\ Len(partial) = 0 /\ Len(taken) = 0 /\ Len(buffer) = 0
  BY <1>1
<1>4. SmallInv /\ WholeButLast
  BY <1>1, <1>3 DEF SmallInv, SplitAllowed, WholeButLast
<1>5. Synced
  <2> DEFINE a == At(0, 0, TRUE, 0, "payload")
             lab == [p \in 0..0 |-> a]
  <2>1. /\ a \in Place /\ a.msg = 0 /\ a.at = 0 /\ a.fin = TRUE /\ a.left = 0
        /\ a.pc = "payload" /\ Done(a) /\ NextMsg(a) = 1 /\ NextAt(a) = 0
    BY DEF At, Place, Done, NextMsg, NextAt
  <2>2. Sound(a)
    <3>1. Text(0) = <<>> /\ Len(Text(0)) = 0
      BY <1>3 DEF Text
    <3> HIDE DEF a
    <3>2. a.msg = 0 /\ a.at + a.left = 0
      BY <2>1
    <3> QED
      BY <1>3, <3>1, <3>2 DEF Sound
  <2> HIDE DEF a
  <2>3. lab \in [0..0 -> Place] /\ lab[0] = a /\ \A p \in 0..0 : lab[p] = a /\ p = 0
    BY <2>1
  <2> HIDE DEF lab
  <2>4. lab \in Labels
    BY <1>3, <2>3 DEF Labels
  <2>5. Track(lab)
    BY <1>3, <2>1, <2>3 DEF Track, Runs
  <2>6. Here(lab)
    BY <1>1, <1>3, <2>1, <2>3 DEF Here, HereAt
  <2>7. Faithful(lab)
    BY <1>3, <2>1, <2>2, <2>3 DEF Faithful
  <2>8. Whole
    BY <1>3 DEF Whole
  <2>9. Begun
    <3>1. Len(Text(1)) \in Nat
      BY <1>2, TextType
    <3> QED
      BY <1>3, <3>1 DEF Begun
  <2> QED
    BY <2>4, <2>5, <2>6, <2>7, <2>8, <2>9 DEF Synced
<1> QED
  BY <1>2, <1>4, <1>5 DEF Inv

LEMMA StepInv ==
  ASSUME Inv, [Next]_vars
  PROVE  Inv'
<1>1. CASE Server
  BY <1>1, SendStep
<1>2. CASE Reader
  BY <1>2, ReadCoreStep, ReadLengthStep, ReadExtStep, LengthFailsStep, EndStep,
     ReadPayloadStep, NextFragmentStep, DeliverStep DEF Reader
<1>3. CASE UNCHANGED vars
  <2>1. /\ UNCHANGED <<link, stream, partial, fragmented, sent, nframes, nunits>>
        /\ UNCHANGED <<rpc, opcode, fin, rest, buffer, taken, hurt, nclean>>
    BY <1>3 DEF vars, server, reader
  <2>2. TypeOK'
    BY <2>1 DEF Inv, TypeOK
  <2>3. SmallInv' /\ WholeButLast'
    BY <2>1 DEF Inv, SmallInv, SplitAllowed, WholeButLast
  <2>4. ASSUME Synced PROVE Synced'
    <3>1. PICK lab \in Labels : Track(lab) /\ Here(lab) /\ (Pure => Whole /\ Begun /\ Faithful(lab))
      BY <2>4 DEF Synced
    <3>2. lab \in Labels' /\ Track(lab)' /\ Here(lab)'
      BY <2>1, <3>1 DEF Labels, Track, Runs, Here, HereAt
    <3>3. Pure' => Whole' /\ Begun' /\ Faithful(lab)'
      BY <2>1, <3>1 DEF Pure, Whole, Begun, Faithful, Sound, Text
    <3> QED
      BY <3>2, <3>3 DEF Synced
  <2>5. ASSUME Astray PROVE Astray'
    BY <2>1, <2>5 DEF Astray, Pure, Whole, Begun, Text
  <2> QED
    BY <2>1, <2>2, <2>3, <2>4, <2>5 DEF Inv
<1> QED
  BY <1>1, <1>2, <1>3, DropStep DEF Next

LEMMA InvHolds == Spec => []Inv
<1>1. Init => Inv
  BY InitInv
<1>2. Inv /\ [Next]_vars => Inv'
  BY StepInv
<1> QED
  BY <1>1, <1>2, PTL DEF Spec

\* Every variable keeps its type, for any number of frames of any length.
THEOREM TypeCorrect == Spec => []TypeOK
<1>1. Inv => TypeOK
  BY DEF Inv
<1> QED
  BY <1>1, InvHolds, PTL

\* Unless a control frame came between two fragments, every buffer that
\* WebSocketOnDataArrival gets is one message of the server, whole and in its
\* turn; only the last may be the beginning of one, and only after a
\* connection that ended inside a header.
THEOREM WholeUntilLast == Spec => []WholeButLast
<1>1. Inv => WholeButLast
  BY DEF Inv
<1> QED
  BY <1>1, InvHolds, PTL

-----------------------------------------------------------------------------
(* The pipe.                                                                *)

LEMMA Parts ==
  ASSUME NEW S, NEW s \in Seq(S), NEW x \in S
  PROVE  /\ SubSeq(s, 1, Len(s)) = s
         /\ SubSeq(Append(s, x), 1, Len(s) + 1) = Append(s, x)
         /\ SubSeq(Append(s, x), 1, Len(s)) = s
         /\ \A n \in 0..Len(s) : SubSeq(Append(s, x), 1, n) = SubSeq(s, 1, n)
<1> DEFINE t == Append(s, x)
<1>1. /\ t \in Seq(S) /\ Len(s) \in Nat /\ Len(t) = Len(s) + 1
      /\ \A i \in 1..Len(s) : t[i] = s[i]
  BY AppendProperties
<1>2. ASSUME NEW r \in Seq(S)
      PROVE  SubSeq(r, 1, Len(r)) = r
  <2> DEFINE q == SubSeq(r, 1, Len(r))
  <2>1. q \in Seq(S) /\ Len(q) = Len(r) /\ \A i \in 1..Len(r) : q[i] = r[i]
    OBVIOUS
  <2> HIDE DEF q
  <2>2. q = r
    BY <2>1, SeqEqual
  <2> QED
    BY <2>2 DEF q
<1> HIDE DEF t
<1>3. ASSUME NEW n \in 0..Len(s)
      PROVE  SubSeq(t, 1, n) = SubSeq(s, 1, n)
  <2> DEFINE p == SubSeq(t, 1, n)
             q == SubSeq(s, 1, n)
  <2>1. p \in Seq(S) /\ Len(p) = n /\ \A i \in 1..n : p[i] = t[i]
    BY <1>1
  <2>2. q \in Seq(S) /\ Len(q) = n /\ \A i \in 1..n : q[i] = s[i]
    BY <1>1
  <2>3. \A i \in 1..n : i \in 1..Len(s)
    BY <1>1
  <2> HIDE DEF p, q
  <2>4. p = q
    BY <1>1, <2>1, <2>2, <2>3, SeqEqual
  <2> QED
    BY <2>4 DEF p, q
<1>4. SubSeq(t, 1, Len(s)) = SubSeq(s, 1, Len(s))
  BY <1>1, <1>3
<1> QED
  BY <1>1, <1>2, <1>3, <1>4 DEF t

Clean == SubSeq(taken, 1, nclean)

\* The server finishes a message, or nothing the pipe shows changes.
LEMMA ServerPipes ==
  ASSUME TypeOK, Server
  PROVE  Pipe!Send \/ UNCHANGED <<sent, Clean, rpc>>
<1>1. PICK f, op, ext, split : \E n \in Nat, h \in Nat : Sending(f, op, n, ext, split, h)
  BY SendIs, Zenon
<1>2. PICK n \in Nat, h \in Nat : Sending(f, op, n, ext, split, h)
  BY <1>1, Zenon
<1>3. UNCHANGED <<rpc, taken, nclean>> /\ (Sends(f, n) \/ UNCHANGED sent)
  BY <1>2 DEF Sending
<1>4. CASE UNCHANGED sent
  BY <1>3, <1>4 DEF Clean
<1>5. CASE sent' = Append(sent, partial \o Ids(n))
  <2> DEFINE S == Seq(Nat)
             x == partial \o Ids(n)
  <2>1. x \in S /\ sent \in Seq(S)
    <3>1. partial \in Seq(Nat) /\ Ids(n) \in Seq(Nat) /\ sent \in Seq(Seq(Nat))
      BY IdsAre DEF TypeOK
    <3> QED
      BY <3>1, Joined
  <2>2. sent' = Append(sent, x)
    BY <1>5
  <2> HIDE DEF S, x
  <2>3. sent' \in Seq(S) /\ Len(sent') = Len(sent) + 1
    BY <2>1, <2>2, AppendProperties
  <2>4. SubSeq(sent', 1, Len(sent)) = sent
    BY <2>1, <2>2, Parts
  <2> QED
    BY <1>3, <2>3, <2>4 DEF Pipe!Send, S
<1> QED
  BY <1>3, <1>4, <1>5 DEF Sends

\* A buffer handed over before any hardship is taken from the pipe.
LEMMA DeliverPipes ==
  ASSUME Inv, Inv', Deliver
  PROVE  Pipe!Take \/ UNCHANGED <<sent, Clean, rpc = "ended">>
<1> DEFINE S == Seq(Nat)
<1>1. taken \in Seq(S) /\ buffer \in S /\ nclean \in 0..Len(taken)
  BY DEF Inv, TypeOK
<1>2. /\ taken' = Append(taken, buffer) /\ rpc = "payload" /\ rpc' = "core"
      /\ nclean' = (IF hurt = {} THEN nclean + 1 ELSE nclean)
      /\ UNCHANGED <<sent, hurt>>
  BY DEF Deliver, HandOver, server
<1> HIDE DEF S
<1>3. CASE hurt # {}
  <2>1. SubSeq(taken, 1, nclean)' = SubSeq(taken, 1, nclean)
    BY <1>1, <1>2, <1>3, Parts
  <2>2. (rpc = "ended")' = (rpc = "ended")
    BY <1>2, Zenon
  <2> QED
    BY <1>2, <2>1, <2>2, Zenon DEF Clean
<1>4. CASE hurt = {}
  <2>1. nclean = Len(taken) /\ nclean' = Len(taken) + 1
    BY <1>2, <1>4 DEF Inv, SmallInv
  <2>2. SubSeq(taken, 1, nclean) = taken
    BY <1>1, <2>1, Parts
  <2>3. SubSeq(taken, 1, nclean)' = Append(taken, buffer)
    BY <1>1, <1>2, <2>1, Parts
  <2>4. /\ Len(taken) \in Nat /\ Len(taken') = Len(taken) + 1
        /\ taken'[Len(taken) + 1] = buffer
    BY <1>1, <1>2, AppendProperties
  <2>5. Len(taken) + 1 <= Len(sent) /\ buffer = sent[Len(taken) + 1]
    <3>1. WholeButLast' /\ hurt' = {} /\ sent' = sent
      BY <1>2, <1>4 DEF Inv
    <3>2. Len(taken) + 1 \in 1..Len(taken')
      BY <2>4
    <3> QED
      BY <2>4, <3>1, <3>2 DEF WholeButLast
  <2>6. Len(taken) < Len(sent)
    <3>1. Len(sent) \in Nat
      BY DEF Inv, TypeOK
    <3> QED
      BY <2>4, <2>5, <3>1
  <2>7. SubSeq(taken, 1, nclean)' =
          Append(SubSeq(taken, 1, nclean), sent[Len(SubSeq(taken, 1, nclean)) + 1])
    BY <2>2, <2>3, <2>5
  <2>8. rpc # "ended" /\ (rpc = "ended")' = (rpc = "ended")
    BY <1>2, Zenon
  <2>9. Len(SubSeq(taken, 1, nclean)) < Len(sent)
    BY <2>2, <2>6
  <2> QED
    BY <1>2, <2>7, <2>8, <2>9, Zenon DEF Pipe!Take
<1> QED
  BY <1>3, <1>4

\* Until a hardship strikes the messages come out of the pipe one by one,
\* whole and in the order in which the server sent them.
THEOREM PipeImplemented == Spec => ImplementsPipe
<1>1. Init => Pipe!Init
  <2> SUFFICES ASSUME Init PROVE Pipe!Init
    OBVIOUS
  <2>1. sent = <<>> /\ taken = <<>> /\ nclean = 0 /\ rpc = "core"
    BY DEF Init
  <2>2. SubSeq(taken, 1, nclean) = <<>> /\ (rpc = "ended") = FALSE
    BY <2>1
  <2> QED
    BY <2>1, <2>2 DEF Pipe!Init
<1>2. Inv /\ Inv' /\ [Next]_vars => [Pipe!Next]_(Pipe!vars)
  <2> SUFFICES ASSUME Inv, Inv', [Next]_vars PROVE [Pipe!Next]_(Pipe!vars)
    OBVIOUS
  <2>1. ASSUME UNCHANGED <<sent, Clean>>, (rpc = "ended") = (rpc = "ended")'
        PROVE  UNCHANGED Pipe!vars
    BY <2>1, Zenon DEF Clean, Pipe!vars
  <2>2. CASE Server
    <3>1. Pipe!Send \/ UNCHANGED <<sent, Clean, rpc>>
      BY <2>2, ServerPipes DEF Inv
    <3> QED
      BY <2>1, <3>1 DEF Pipe!Next
  <2>3. CASE Deliver
    <3>1. Pipe!Take \/ UNCHANGED <<sent, Clean, rpc = "ended">>
      BY <2>3, DeliverPipes
    <3> QED
      BY <2>1, <3>1, Zenon DEF Pipe!Next
  <2>4. CASE CoreFails \/ PayloadFails \/ DeliverNothing
    <3>1. rpc # "ended" /\ rpc' = "ended" /\ UNCHANGED <<sent, taken, nclean>>
      BY <2>4 DEF CoreFails, PayloadFails, DeliverNothing, server
    <3>2. UNCHANGED SubSeq(taken, 1, nclean) /\ ~(rpc = "ended") /\ (rpc = "ended")' = TRUE
      BY <3>1
    <3> QED
      BY <3>1, <3>2 DEF Pipe!Next, Pipe!Close
  <2>5. CASE Drop \/ ReadCore \/ ReadLength \/ ReadExt \/ LengthFails \/ ReadPayload
               \/ NextFragment \/ UNCHANGED vars
    <3>1. UNCHANGED <<sent, taken, nclean>>
      BY <2>5 DEF Drop, ReadCore, ReadLength, ReadExt, LengthFails, ReadPayload, NextFragment,
                  vars, server, reader
    <3>2. (rpc = "ended") = (rpc = "ended")'
      BY <2>5 DEF Drop, ReadCore, ReadLength, ReadExt, LengthFails, ReadPayload, NextFragment,
                  Arrived, vars, server, reader
    <3>3. UNCHANGED Clean
      BY <3>1 DEF Clean
    <3> QED
      BY <2>1, <3>1, <3>2, <3>3
  <2> QED
    BY <2>2, <2>3, <2>4, <2>5 DEF Next, Reader
<1> QED
  BY <1>1, <1>2, InvHolds, PTL DEF Spec, Pipe!Spec, ImplementsPipe

-----------------------------------------------------------------------------
(* Buffers one after the other.                                             *)

\* A set of numbers that is not empty has a least one.
LEMMA Least ==
  ASSUME NEW T, T \subseteq Nat, T # {}
  PROVE  \E x \in T : \A y \in T : x <= y
<1> DEFINE R == OpToRel(<, Nat)
<1>1. IsWellFoundedOn(R, Nat)
  BY NatLessThanWellFounded
<1>2. \A x, y \in Nat : y < x => <<y, x>> \in R
  BY DEF OpToRel
<1> HIDE DEF R
<1>3. PICK x \in T : \A y \in T : <<y, x>> \notin R
  BY <1>1, WFMin
<1>4. ASSUME NEW y \in T PROVE x <= y
  <2>1. <<y, x>> \notin R /\ x \in Nat /\ y \in Nat
    BY <1>3
  <2>2. ~(y < x)
    BY <1>2, <2>1, Zenon
  <2> QED
    BY <2>1, <2>2
<1> QED
  BY <1>4

\* Induction, for a set.
LEMMA Inductive ==
  ASSUME NEW S, 0 \in S, \A n \in Nat : n \in S => n + 1 \in S
  PROVE  \A n \in Nat : n \in S
<1> DEFINE T == {n \in Nat : n \notin S}
<1>1. SUFFICES ASSUME T # {} PROVE FALSE
  OBVIOUS
<1>2. PICK x \in T : \A y \in T : x <= y
  BY <1>1, Least
<1>3. x \in Nat \ {0} /\ x - 1 \in Nat /\ x - 1 \notin T
  BY <1>2
<1>4. x - 1 \in S /\ (x - 1) + 1 = x
  BY <1>3
<1> QED
  BY <1>2, <1>3, <1>4

\* What FlattenSeq chooses: g[i] joins the first i members of s.
Flat(s, n, g) == g = [i \in 1..n |-> IF i = 1 THEN s[i] ELSE g[i - 1] \o s[i]]

\* t begins as s does.
Alike(s, t, n) == \A i \in 1..n : t[i] = s[i]

LEMMA FlatAt ==
  ASSUME NEW s, NEW n \in Nat, NEW g, Flat(s, n, g), NEW i \in 1..n
  PROVE  g[i] = IF i = 1 THEN s[i] ELSE g[i - 1] \o s[i]
BY DEF Flat

LEMMA FlatUnique ==
  ASSUME NEW s, NEW t, NEW n \in Nat, NEW m \in Nat, n <= m, Alike(s, t, n),
         NEW g, Flat(s, n, g), NEW h, Flat(t, m, h)
  PROVE  Alike(g, h, n)
<1> DEFINE T == {i \in 1..n : g[i] # h[i]}
<1>1. SUFFICES ASSUME T # {} PROVE FALSE
  BY DEF Alike
<1>2. PICK x \in T : \A y \in T : x <= y
  <2>1. T \subseteq Nat
    OBVIOUS
  <2> QED
    BY <1>1, <2>1, Least
<1>3. x \in 1..n /\ x \in 1..m /\ g[x] # h[x]
  BY <1>2
<1>4. g[x] = (IF x = 1 THEN s[x] ELSE g[x - 1] \o s[x])
  BY <1>3, FlatAt
<1>5. h[x] = (IF x = 1 THEN t[x] ELSE h[x - 1] \o t[x])
  BY <1>3, FlatAt
<1>6. t[x] = s[x] /\ x # 1
  BY <1>3, <1>4, <1>5 DEF Alike
<1>7. x - 1 \in 1..n /\ ~(x <= x - 1)
  BY <1>3, <1>6
<1>8. g[x - 1] = h[x - 1]
  BY <1>2, <1>7
<1> QED
  BY <1>3, <1>4, <1>5, <1>6, <1>8

LEMMA FlatExists ==
  ASSUME NEW s
  PROVE  \A n \in Nat : \E g : Flat(s, n, g)
<1> DEFINE S == {n \in Nat : \E g : Flat(s, n, g)}
<1>1. 0 \in S
  <2> DEFINE g == [i \in 1..0 |-> s[i]]
  <2>1. g = [i \in 1..0 |-> IF i = 1 THEN s[i] ELSE g[i - 1] \o s[i]]
    OBVIOUS
  <2>2. Flat(s, 0, g)
    BY <2>1 DEF Flat
  <2> QED
    BY <2>2
<1>2. ASSUME NEW n \in Nat, n \in S PROVE n + 1 \in S
  <2>1. PICK g : Flat(s, n, g)
    BY <1>2
  <2> DEFINE last == IF n + 1 = 1 THEN s[n + 1] ELSE g[n] \o s[n + 1]
             h == [i \in 1..(n + 1) |-> IF i <= n THEN g[i] ELSE last]
  <2>2. ASSUME NEW i \in 1..(n + 1)
        PROVE  h[i] = IF i = 1 THEN s[i] ELSE h[i - 1] \o s[i]
    <3>1. CASE i <= n
      <4>1. i \in 1..n /\ h[i] = g[i]
        BY <3>1
      <4>2. g[i] = IF i = 1 THEN s[i] ELSE g[i - 1] \o s[i]
        BY <2>1, <4>1, FlatAt
      <4>3. i # 1 => h[i - 1] = g[i - 1]
        BY <3>1
      <4> QED
        BY <4>1, <4>2, <4>3
    <3>2. CASE i = n + 1
      <4>1. h[i] = last
        BY <3>2
      <4>2. i # 1 => h[i - 1] = g[n]
        BY <3>2
      <4> HIDE DEF h
      <4> QED
        BY <3>2, <4>1, <4>2
    <3> QED
      BY <3>1, <3>2
  <2>3. h = [i \in 1..(n + 1) |-> h[i]]
    OBVIOUS
  <2> HIDE DEF h
  <2>4. h = [i \in 1..(n + 1) |-> IF i = 1 THEN s[i] ELSE h[i - 1] \o s[i]]
    BY <2>2, <2>3
  <2>5. Flat(s, n + 1, h)
    BY <2>4 DEF Flat
  <2> QED
    BY <2>5
<1> HIDE DEF S
<1>3. \A n \in Nat : n \in S
  BY <1>1, <1>2, Inductive
<1> QED
  BY <1>3 DEF S

LEMMA FlattenIs ==
  ASSUME NEW s, Len(s) # 0, Len(s) \in Nat
  PROVE  \E g : Flat(s, Len(s), g) /\ FlattenSeq(s) = g[Len(s)]
<1>1. FlattenSeq(s) = (CHOOSE g : Flat(s, Len(s), g))[Len(s)]
  BY DEF FlattenSeq, Flat
<1>2. \E g : Flat(s, Len(s), g)
  BY FlatExists
<1> QED
  BY <1>1, <1>2

LEMMA Nothing ==
  ASSUME NEW x \in Seq(Nat)
  PROVE  <<>> \o x = x /\ x \o <<>> = x
BY ConcatEmptySeq

\* A buffer more.
LEMMA FlattenAppend ==
  ASSUME NEW s \in Seq(Seq(Nat)), NEW x \in Seq(Nat)
  PROVE  FlattenSeq(Append(s, x)) = FlattenSeq(s) \o x
<1> DEFINE t == Append(s, x)
           n == Len(s)
           X == Seq(Nat)
<1>1. /\ t \in Seq(X) /\ n \in Nat /\ Len(t) = n + 1 /\ t[n + 1] = x
      /\ \A i \in 1..n : t[i] = s[i]
  BY AppendProperties
<1> HIDE DEF t
<1>2. PICK h : Flat(t, n + 1, h) /\ FlattenSeq(t) = h[n + 1]
  <2>1. Len(t) # 0 /\ Len(t) \in Nat /\ Len(t) = n + 1
    BY <1>1
  <2>2. \E h : Flat(t, Len(t), h) /\ FlattenSeq(t) = h[Len(t)]
    BY <2>1, FlattenIs
  <2> QED
    BY <2>1, <2>2
<1>3. h[n + 1] = IF n + 1 = 1 THEN x ELSE h[n] \o x
  <2>1. n + 1 \in Nat /\ n + 1 \in 1..(n + 1) /\ (n + 1) - 1 = n
    BY <1>1
  <2> QED
    BY <1>1, <1>2, <2>1, FlatAt
<1>4. CASE n = 0
  <2>1. s = <<>> /\ FlattenSeq(s) = s
    BY <1>4 DEF FlattenSeq
  <2>2. h[n + 1] = x
    BY <1>3, <1>4
  <2> QED
    BY <1>2, <2>1, <2>2, Nothing DEF t
<1>5. CASE n # 0
  <2>1. PICK g : Flat(s, n, g) /\ FlattenSeq(s) = g[n]
    BY <1>1, <1>5, FlattenIs
  <2>2. g[n] = h[n]
    <3>1. n \in Nat /\ n + 1 \in Nat /\ n <= n + 1 /\ n \in 1..n
      BY <1>1, <1>5
    <3>2. Alike(s, t, n)
      BY <1>1 DEF Alike
    <3> HIDE DEF n
    <3>3. Alike(g, h, n)
      BY <1>2, <2>1, <3>1, <3>2, FlatUnique
    <3> QED
      BY <3>1, <3>3 DEF Alike
  <2>3. h[n + 1] = h[n] \o x
    BY <1>1, <1>3, <1>5
  <2> QED
    BY <1>2, <2>1, <2>2, <2>3 DEF t
<1> QED
  BY <1>4, <1>5

Joins(r, s, t) ==
  /\ r \in Seq(Nat) /\ Len(r) = Len(s) + Len(t)
  /\ \A i \in 1..Len(s) : r[i] = s[i]
  /\ \A i \in 1..Len(t) : r[Len(s) + i] = t[i]

LEMMA JoinIs ==
  ASSUME NEW s \in Seq(Nat), NEW t \in Seq(Nat)
  PROVE  Joins(s \o t, s, t)
<1>1. /\ s \o t \in Seq(Nat) /\ Len(s \o t) = Len(s) + Len(t)
      /\ \A i \in 1..Len(s) : (s \o t)[i] = s[i]
      /\ \A i \in 1..Len(t) : (s \o t)[Len(s) + i] = t[i]
  OBVIOUS
<1> QED
  BY <1>1 DEF Joins

\* The first units, up to the n-th.
First(r, n) == Len(r) = n /\ \A i \in 1..n : r[i] = i

LEMMA Longer ==
  ASSUME NEW a \in Seq(Nat), NEW b \in Seq(Nat), NEW ids \in Seq(Nat),
         NEW n \in Nat, First(a \o b, n),
         NEW k \in Nat, Len(ids) = k, \A i \in 1..k : ids[i] = n + i
  PROVE  a \o (b \o ids) \in Seq(Nat) /\ First(a \o (b \o ids), n + k)
<1>1. a \o (b \o ids) = (a \o b) \o ids
  BY ConcatAssociative
<1>2. PICK s \in Seq(Nat) : s = a \o b
  BY JoinIs DEF Joins
<1>3. Joins(s \o ids, s, ids)
  BY JoinIs
<1>4. PICK r : r = s \o ids
  OBVIOUS
<1>5. Joins(r, s, ids) /\ First(s, n)
  BY <1>2, <1>3, <1>4
<1>6. /\ r \in Seq(Nat) /\ Len(r) = n + k
      /\ \A i \in 1..n : r[i] = i
      /\ \A i \in 1..k : r[n + i] = n + i
  BY <1>5 DEF Joins, First
<1>7. a \o (b \o ids) = r
  BY <1>1, <1>2, <1>4
<1>8. ASSUME NEW i \in 1..(n + k) PROVE r[i] = i
  <2>1. CASE i <= n
    BY <1>6, <2>1
  <2>2. CASE i > n
    <3>1. i - n \in 1..k /\ n + (i - n) = i
      BY <2>2
    <3>2. r[n + (i - n)] = n + (i - n)
      BY <1>6, <3>1
    <3> QED
      BY <3>1, <3>2
  <2> QED
    BY <2>1, <2>2
<1> QED
  BY <1>6, <1>7, <1>8 DEF First
-----------------------------------------------------------------------------
(* The units are counted.                                                  *)

\* What the reader has read of the payload is its first n units.
All == FlattenSeq(taken) \o buffer
Read(n) ==
  /\ FlattenSeq(taken) \in Seq(Nat) /\ All \in Seq(Nat) /\ First(All, n)

\* Before the unit after the first p of the stream, f[p] payload units came.
Counts(f) ==
  /\ \A p \in 1..Len(stream) :
       IF stream[p].kind = "payload" THEN f[p] = f[p - 1] + 1 /\ stream[p].id = f[p]
                                     ELSE f[p] = f[p - 1]
  /\ \A p \in 0..Len(stream) : f[p] <= nunits
  /\ link = "up" => f[Len(stream)] = nunits

CountInv == \E f \in [0..Len(stream) -> Nat] : Counts(f) /\ Read(f[0])

LEMMA Seen ==
  ASSUME TypeOK, CountInv
  PROVE  NothingSkipped
<1>1. PICK f \in [0..Len(stream) -> Nat] : Counts(f) /\ Read(f[0])
  BY DEF CountInv
<1>2. Len(stream) \in Nat
  BY StreamType
<1>3. f[0] <= nunits /\ Len(All) = f[0] /\ \A i \in 1..f[0] : All[i] = i
  BY <1>1, <1>2 DEF Counts, Read, First
<1> QED
  BY <1>3 DEF NothingSkipped, All

\* The reader moves on by k units, and has read the payload among them.
LEMMA CountMoves ==
  ASSUME TypeOK, Reads, NEW f \in [0..Len(stream) -> Nat], Counts(f), NEW k \in 0..Len(stream),
         Len(stream') = Len(stream) - k, \A i \in 1..Len(stream') : stream'[i] = stream[k + i],
         Read(f[k])'
  PROVE  CountInv'
<1>1. PICK L \in Nat, M \in Nat : L = Len(stream) /\ M = Len(stream')
  BY StreamType
<1>2. k \in Nat /\ k <= L /\ M = L - k /\ f \in [0..L -> Nat]
  BY <1>1
<1> DEFINE g == [p \in 0..M |-> f[k + p]]
<1>3. g \in [0..M -> Nat] /\ \A p \in 0..M : k + p \in 0..L /\ g[p] = f[k + p]
  BY <1>2
<1> HIDE DEF g
<1>4. g[0] = f[k] /\ g[M] = f[L]
  BY <1>2, <1>3
<1>5. ASSUME NEW p \in 1..M
      PROVE  IF stream'[p].kind = "payload" THEN g[p] = g[p - 1] + 1 /\ stream'[p].id = g[p]
                                            ELSE g[p] = g[p - 1]
  <2>1. /\ k + p \in 1..L /\ (k + p) - 1 = k + (p - 1) /\ p - 1 \in 0..M /\ p \in 0..M
        /\ stream'[p] = stream[k + p]
    BY <1>1, <1>2
  <2>2. PICK q \in 1..L : q = k + p
    BY <2>1
  <2>3. g[p] = f[q] /\ g[p - 1] = f[q - 1] /\ stream'[p] = stream[q]
    BY <1>3, <2>1, <2>2
  <2> QED
    BY <1>1, <2>3 DEF Counts
<1>6. \A p \in 0..M : g[p] <= nunits'
  BY <1>1, <1>3 DEF Counts, Reads
<1>7. link' = "up" => g[M] = nunits'
  BY <1>1, <1>4 DEF Counts, Reads
<1>8. Counts(g)'
  BY <1>1, <1>5, <1>6, <1>7 DEF Counts
<1>9. Read(g[0])'
  BY <1>4
<1> QED
  BY <1>1, <1>3, <1>8, <1>9 DEF CountInv

LEMMA ReadStays ==
  ASSUME NEW n, Read(n), UNCHANGED <<taken, buffer>>
  PROVE  Read(n)'
BY DEF Read, All

\* A step that takes no payload, and at most the unit before it.
LEMMA CountKept ==
  ASSUME TypeOK, CountInv, Reads, UNCHANGED <<taken, buffer>>,
         \/ stream' = stream
         \/ stream # <<>> /\ Next1.kind # "payload" /\ stream' = Tail(stream)
  PROVE  CountInv'
<1>1. PICK f \in [0..Len(stream) -> Nat] : Counts(f) /\ Read(f[0])
  BY DEF CountInv
<1>2. CASE stream' = stream
  <2>1. /\ 0 \in 0..Len(stream) /\ Len(stream') = Len(stream) - 0
        /\ \A i \in 1..Len(stream') : stream'[i] = stream[0 + i]
    BY <1>2, Unmoved
  <2>2. Read(f[0])'
    <3>1. PICK n : n = f[0]
      OBVIOUS
    <3>2. Read(n)'
      BY <1>1, <3>1, ReadStays
    <3> QED
      BY <3>1, <3>2
  <2> QED
    BY <1>1, <2>1, <2>2, CountMoves
<1>3. CASE stream # <<>> /\ Next1.kind # "payload" /\ stream' = Tail(stream)
  <2>1. 1 \in 1..Len(stream) /\ 1 \in 0..Len(stream) /\ stream[1].kind # "payload" /\ 1 - 1 = 0
    BY <1>3, FirstUnit
  <2>2. Len(stream') = Len(stream) - 1 /\ \A i \in 1..Len(stream') : stream'[i] = stream[1 + i]
    BY <1>3, TailOf
  <2>3. f[1] = f[0]
    BY <1>1, <2>1 DEF Counts
  <2>4. Read(f[1])'
    <3>1. PICK n : n = f[0]
      OBVIOUS
    <3>2. Read(n)'
      BY <1>1, <3>1, ReadStays
    <3> QED
      BY <2>3, <3>1, <3>2
  <2> QED
    BY <1>1, <2>1, <2>2, <2>4, CountMoves
<1> QED
  BY <1>2, <1>3

\* What a turn of the payload loop reads are payload units.
LEMMA PayloadTaken ==
  ASSUME Inv, ReadPayload
  PROVE  \E k \in 1..Len(stream), ids \in Seq(Nat) :
           /\ Len(ids) = k /\ buffer' = buffer \o ids
           /\ \A i \in 1..k : stream[i].kind = "payload" /\ ids[i] = stream[i].id
           /\ k \in 0..Len(stream) /\ Len(stream') = Len(stream) - k
           /\ \A i \in 1..Len(stream') : stream'[i] = stream[k + i]
<1>1. TypeOK
  BY DEF Inv
<1>2. /\ rpc = "payload" /\ stream # <<>>
      /\ UNCHANGED <<rpc, fin, opcode, taken, hurt, nclean>> /\ Reads
  BY DEF ReadPayload, Arrived, server, Reads
<1>3. PICK k \in 1..rest :
        /\ k <= Len(stream)
        /\ buffer' = buffer \o [i \in 1..k |-> stream[i].id]
        /\ stream' = SubSeq(stream, k + 1, Len(stream))
        /\ rest' = rest - k
  BY DEF ReadPayload
<1>4. /\ Len(stream) \in Nat /\ rest \in Nat /\ k \in Nat /\ k <= rest
      /\ k \in 0..Len(stream) /\ k \in 1..Len(stream)
      /\ \A i \in 1..k : i \in Nat /\ i <= Len(stream) /\ i \in 1..Len(stream) /\ i \in 1..rest
  BY <1>1, <1>3, StreamType DEF TypeOK
<1>5. /\ stream' \in Seq(Unit) /\ Len(stream') = Len(stream) - k
      /\ \A i \in 1..Len(stream') : stream'[i] = stream[k + i]
  BY <1>1, <1>3, <1>4, RestOfUnits
<1>6. Synced
  BY <1>2 DEF Inv, Astray
<1>7. PICK lab \in Labels : Track(lab) /\ Here(lab) /\ 0 \in 0..Len(stream)
  BY <1>1, <1>6, Places
<1>8. PICK m, at, f, l : l = rest /\ lab[0] = At(m, at, f, l, "payload")
  BY <1>2, <1>7, Zenon DEF Here, HereAt
<1>9. lab[0].left = rest /\ lab[0].pc = "payload"
  BY <1>8, AtIs
<1>10. ASSUME NEW i \in 1..k
       PROVE  stream[i].kind = "payload" /\ stream[i].id \in Nat
  <2>1. 0 + i = i
    BY <1>4
  <2>2. stream[0 + i].kind = "payload"
    BY <1>4, <1>7, <1>9, <2>1 DEF Track, Runs
  <2>3. stream[i] \in Unit
    BY <1>1, <1>4, StreamType
  <2> QED
    BY <2>1, <2>2, <2>3, Units
<1>11. PICK ids \in Seq(Nat) : /\ Len(ids) = k /\ \A i \in 1..k : ids[i] = stream[i].id
                               /\ buffer' = buffer \o ids
  <2> DEFINE s == [i \in 1..k |-> stream[i].id]
  <2>1. s \in [1..k -> Nat] /\ \A i \in 1..k : s[i] = stream[i].id
    BY <1>10
  <2>2. buffer' = buffer \o s
    BY <1>3
  <2> HIDE DEF s
  <2>3. s \in Seq(Nat) /\ Len(s) = k
    BY <1>4, <2>1, Indexed
  <2> QED
    BY <2>1, <2>2, <2>3
<1> QED
  BY <1>4, <1>5, <1>10, <1>11

\* Units that follow each other are numbered one after the other.
LEMMA CountUp ==
  ASSUME NEW f \in [0..Len(stream) -> Nat], Counts(f), Len(stream) \in Nat,
         NEW k \in 0..Len(stream), \A i \in 1..k : stream[i].kind = "payload"
  PROVE  \A i \in 0..k : f[i] = f[0] + i
<1> DEFINE T == {i \in 0..k : f[i] # f[0] + i}
<1>1. SUFFICES ASSUME T # {} PROVE FALSE
  OBVIOUS
<1>2. PICK x \in T : \A y \in T : x <= y
  <2>1. T \subseteq Nat
    OBVIOUS
  <2> QED
    BY <1>1, <2>1, Least
<1>3. x \in 0..k /\ f[x] # f[0] + x /\ k <= Len(stream)
  BY <1>2
<1>4. x # 0
  <2>1. f[0] \in Nat /\ f[0] + 0 = f[0]
    OBVIOUS
  <2> QED
    BY <1>3, <2>1
<1>5. x \in 1..Len(stream) /\ x \in 1..k /\ x - 1 \in 0..k /\ ~(x <= x - 1)
  BY <1>3, <1>4
<1>6. f[x - 1] = f[0] + (x - 1)
  BY <1>2, <1>5
<1>7. f[x] = f[x - 1] + 1
  BY <1>5 DEF Counts
<1>8. f[0] \in Nat
  OBVIOUS
<1> QED
  BY <1>3, <1>5, <1>6, <1>7, <1>8

LEMMA PayloadCounted ==
  ASSUME Inv, CountInv, ReadPayload
  PROVE  CountInv'
<1>1. PICK f \in [0..Len(stream) -> Nat] : Counts(f) /\ Read(f[0])
  BY DEF CountInv
<1>2. PICK k \in 1..Len(stream), ids \in Seq(Nat) :
           /\ Len(ids) = k /\ buffer' = buffer \o ids
           /\ \A i \in 1..k : stream[i].kind = "payload" /\ ids[i] = stream[i].id
           /\ k \in 0..Len(stream) /\ Len(stream') = Len(stream) - k
           /\ \A i \in 1..Len(stream') : stream'[i] = stream[k + i]
  BY PayloadTaken
<1>3. TypeOK /\ Len(stream) \in Nat /\ Reads /\ taken' = taken
  BY StreamType DEF Inv, ReadPayload, server, Reads
<1>4. PICK n \in Nat : n = f[0]
  BY <1>3
<1>5. \A i \in 0..k : f[i] = n + i
  BY <1>1, <1>2, <1>3, <1>4, CountUp
<1>6. \A i \in 1..k : ids[i] = n + i
  <2>1. ASSUME NEW i \in 1..k PROVE ids[i] = n + i
    <3>1. i \in 1..Len(stream) /\ i \in 0..k
      BY <1>2, <1>3
    <3>2. stream[i].kind = "payload" /\ ids[i] = stream[i].id
      BY <1>2
    <3>3. stream[i].id = f[i]
      BY <1>1, <3>1, <3>2 DEF Counts
    <3> QED
      BY <1>5, <3>1, <3>2, <3>3
  <2> QED
    BY <2>1
<1>7. PICK a \in Seq(Nat), b \in Seq(Nat) : a = FlattenSeq(taken) /\ b = buffer
  BY <1>1, <1>3 DEF Read, TypeOK
<1>8. First(a \o b, n)
  BY <1>1, <1>4, <1>7 DEF Read, All
<1>9. k \in Nat /\ Len(ids) = k /\ k \in 0..k
  BY <1>2, <1>3
<1>10. a \o (b \o ids) \in Seq(Nat) /\ First(a \o (b \o ids), n + k)
  BY <1>6, <1>8, <1>9, Longer
<1>11. a = FlattenSeq(taken)' /\ buffer' = b \o ids
  BY <1>2, <1>3, <1>7
<1>12. f[k] = n + k
  BY <1>5, <1>9
<1>13. Read(f[k])'
  BY <1>10, <1>11, <1>12 DEF Read, All
<1> QED
  BY <1>1, <1>2, <1>3, <1>13, CountMoves

LEMMA DeliverCounted ==
  ASSUME Inv, CountInv, Deliver
  PROVE  CountInv'
<1>1. PICK f \in [0..Len(stream) -> Nat] : Counts(f) /\ Read(f[0])
  BY DEF CountInv
<1>2. /\ taken' = Append(taken, buffer) /\ buffer' = <<>>
      /\ stream' = stream /\ Reads
  BY DEF Deliver, HandOver, server, Reads
<1>3. TypeOK
  BY DEF Inv
<1>4. taken \in Seq(Seq(Nat)) /\ buffer \in Seq(Nat)
  BY <1>3 DEF TypeOK
<1>5. PICK s \in Seq(Seq(Nat)), b \in Seq(Nat) : s = taken /\ b = buffer
  BY <1>4
<1>6. FlattenSeq(Append(s, b)) = FlattenSeq(s) \o b
  BY FlattenAppend
<1>7. FlattenSeq(taken)' = All
  BY <1>2, <1>5, <1>6 DEF All
<1>8. PICK n : n = f[0]
  OBVIOUS
<1>9. All \in Seq(Nat) /\ First(All, n)
  BY <1>1, <1>8 DEF Read
<1>10. PICK r \in Seq(Nat) : r = All
  BY <1>9
<1>11. r \o <<>> = r
  BY Nothing
<1>12. All' = r
  <2>1. All' = FlattenSeq(taken)' \o buffer'
    BY DEF All
  <2> QED
    BY <1>2, <1>7, <1>10, <1>11, <2>1
<1>13. Read(n)'
  BY <1>7, <1>9, <1>10, <1>12 DEF Read
<1>14. /\ 0 \in 0..Len(stream) /\ Len(stream') = Len(stream) - 0
       /\ \A i \in 1..Len(stream') : stream'[i] = stream[0 + i]
  BY <1>2, <1>3, Unmoved
<1>15. Read(f[0])'
  BY <1>8, <1>13
<1> QED
  BY <1>1, <1>2, <1>3, <1>14, <1>15, CountMoves

LEMMA DropCounted ==
  ASSUME Inv, CountInv, Drop
  PROVE  CountInv'
<1>1. PICK f \in [0..Len(stream) -> Nat] : Counts(f) /\ Read(f[0])
  BY DEF CountInv
<1>2. TypeOK /\ Len(stream) \in Nat
  BY StreamType DEF Inv
<1>3. link' = "down" /\ UNCHANGED <<nunits, taken, buffer>>
  BY DEF Drop, server, reader
<1>4. PICK k \in 0..Len(stream) : stream' = SubSeq(stream, 1, k)
  BY DEF Drop, Boundaries
<1>5. Len(stream') = k /\ \A i \in 1..k : stream'[i] = stream[i]
  BY <1>2, <1>4, FirstUnits
<1>6. PICK L \in Nat : L = Len(stream) /\ k \in Nat /\ k <= L /\ f \in [0..L -> Nat]
  BY <1>2
<1> DEFINE g == [p \in 0..k |-> f[p]]
<1>7. g \in [0..k -> Nat] /\ \A p \in 0..k : p \in 0..L /\ g[p] = f[p]
  BY <1>6
<1> HIDE DEF g
<1>8. ASSUME NEW p \in 1..k
      PROVE  IF stream'[p].kind = "payload" THEN g[p] = g[p - 1] + 1 /\ stream'[p].id = g[p]
                                            ELSE g[p] = g[p - 1]
  <2>1. p \in 1..L /\ p - 1 \in 0..k /\ p \in 0..k
    BY <1>6
  <2>2. g[p] = f[p] /\ g[p - 1] = f[p - 1] /\ stream'[p] = stream[p]
    BY <1>5, <1>7, <2>1
  <2> QED
    BY <1>1, <1>6, <2>1, <2>2 DEF Counts
<1>9. \A p \in 0..k : g[p] <= nunits'
  BY <1>1, <1>3, <1>6, <1>7 DEF Counts
<1>10. Counts(g)'
  BY <1>3, <1>5, <1>8, <1>9 DEF Counts
<1>11. PICK n : n = f[0]
  OBVIOUS
<1>12. Read(n)'
  BY <1>1, <1>3, <1>11, ReadStays
<1>13. g[0] = n
  BY <1>6, <1>7, <1>11
<1>14. Read(g[0])'
  BY <1>12, <1>13
<1> QED
  BY <1>5, <1>7, <1>10, <1>14 DEF CountInv

\* The units of a frame, by their kinds.
LEMMA FrameKinds ==
  ASSUME NEW s, NEW L \in Nat, NEW h \in Nat, NEW n \in Nat, NEW f, NEW op, NEW ext, NEW split,
         NEW id \in Nat, Fits(f, op, n, ext, split, h), Carries(s, L, h, n, f, op, split, id)
  PROVE  /\ \A p \in (L + 1)..(L + h) : s[p].kind # "payload"
         /\ \A p \in (L + h + 1)..(L + h + n) : s[p].kind = "payload" /\ s[p].id = id + (p - L - h)
<1>1. h = 2 \/ h = 3
  BY DEF Fits
<1>2. s[L + 1].kind = "core"
  BY DEF Carries, CoreUnit
<1>3. h = 2 => s[L + 2].kind = "length"
  BY DEF Carries, Short, LengthUnit
<1>4. h = 3 => s[L + 2].kind = "length" /\ s[L + 3].kind = "ext"
  BY DEF Carries, Long, LengthUnit, ExtUnit
<1>5. ASSUME NEW p \in (L + 1)..(L + h) PROVE s[p].kind # "payload"
  <2>1. p = L + 1 \/ p = L + 2 \/ (h = 3 /\ p = L + 3)
    BY <1>1
  <2> QED
    BY <1>1, <1>2, <1>3, <1>4, <2>1
<1>6. ASSUME NEW p \in (L + h + 1)..(L + h + n)
      PROVE  s[p].kind = "payload" /\ s[p].id = id + (p - L - h)
  <2>1. PICK i \in 1..n : i = p - L - h /\ p = L + h + i
    OBVIOUS
  <2>2. s[L + h + i] = PayloadUnit(id + i)
    BY DEF Carries
  <2>3. \A x : PayloadUnit(x).kind = "payload" /\ PayloadUnit(x).id = x
    BY DEF PayloadUnit
  <2>4. s[p].kind = "payload" /\ s[p].id = id + i
    BY <2>1, <2>2, <2>3
  <2> QED
    BY <2>1, <2>4
<1> QED
  BY <1>5, <1>6

LEMMA SendCounted ==
  ASSUME Inv, CountInv, Server
  PROVE  CountInv'
<1>1. PICK f \in [0..Len(stream) -> Nat] : Counts(f) /\ Read(f[0])
  BY DEF CountInv
<1>2. TypeOK /\ Len(stream) \in Nat /\ nunits \in Nat
  BY StreamType DEF Inv, TypeOK
<1>3. PICK fi, op, ext, split : \E n \in Nat, h \in Nat : Sending(fi, op, n, ext, split, h)
  BY SendIs, Zenon
<1>4. PICK n \in Nat, h \in Nat : Sending(fi, op, n, ext, split, h)
  BY <1>3, Zenon
<1>5. /\ Fits(fi, op, n, ext, split, h) /\ link = "up" /\ nunits' = nunits + n
      /\ stream' = stream \o Frame(fi, op, n, ext, split)
      /\ UNCHANGED <<taken, buffer>>
  BY <1>4 DEF Sending
<1>6. PICK L \in Nat, c \in Nat : L = Len(stream) /\ c = nunits /\ f \in [0..L -> Nat]
  BY <1>2
<1>7. /\ Len(stream') = L + h + n /\ \A i \in 1..L : stream'[i] = stream[i]
      /\ Carries(stream', L, h, n, fi, op, split, c)
  BY <1>2, <1>5, <1>6, StreamGrows
<1>8. PICK s : s = stream'
  OBVIOUS
<1>9. /\ \A p \in (L + 1)..(L + h) : s[p].kind # "payload"
      /\ \A p \in (L + h + 1)..(L + h + n) : s[p].kind = "payload" /\ s[p].id = c + (p - L - h)
  <2>1. Carries(s, L, h, n, fi, op, split, c)
    BY <1>7, <1>8
  <2>2. L \in Nat /\ h \in Nat /\ n \in Nat /\ c \in Nat
    BY <1>4, <1>6
  <2> QED
    BY <1>5, <2>1, <2>2, FrameKinds
<1> DEFINE N == L + h + n
           g == [p \in 0..N |-> IF p <= L THEN f[p] ELSE IF p <= L + h THEN c ELSE c + (p - L - h)]
<1>10. f[L] = c /\ \A p \in 0..L : f[p] <= c
  BY <1>1, <1>5, <1>6 DEF Counts
<1>11. \A p \in 1..L : IF stream[p].kind = "payload" THEN f[p] = f[p - 1] + 1 /\ stream[p].id = f[p]
                                                      ELSE f[p] = f[p - 1]
  BY <1>1, <1>6 DEF Counts
<1>12. /\ g \in [0..N -> Nat] /\ N \in Nat /\ L <= N
       /\ \A p \in 0..L : g[p] = f[p]
       /\ \A p \in L..(L + h) : g[p] = c
       /\ \A p \in (L + h)..N : g[p] = c + (p - L - h)
  <2>1. ASSUME NEW p \in 0..N
        PROVE  (IF p <= L THEN f[p] ELSE IF p <= L + h THEN c ELSE c + (p - L - h)) \in Nat
    BY <1>6
  <2>2. g \in [0..N -> Nat] /\ N \in Nat /\ L <= N /\ \A p \in 0..L : g[p] = f[p]
    BY <2>1
  <2>3. \A p \in L..(L + h) : g[p] = c
    BY <1>10
  <2>4. ASSUME NEW p \in (L + h)..N PROVE g[p] = c + (p - L - h)
    <3>1. CASE p = L + h
      <4>1. p - L - h = 0 /\ c + 0 = c /\ p \in L..(L + h)
        BY <3>1
      <4> HIDE DEF g
      <4> QED
        BY <2>3, <4>1
    <3>2. CASE p > L + h
      BY <3>2
    <3> QED
      BY <3>1, <3>2
  <2> QED
    BY <2>2, <2>3, <2>4
<1> HIDE DEF g, N
<1>13. ASSUME NEW p \in 1..N
       PROVE  IF s[p].kind = "payload" THEN g[p] = g[p - 1] + 1 /\ s[p].id = g[p]
                                       ELSE g[p] = g[p - 1]
  <2>1. CASE p <= L
    <3>1. p \in 1..L /\ p \in 0..L /\ p - 1 \in 0..L
      BY <2>1, <1>12
    <3>2. g[p] = f[p] /\ g[p - 1] = f[p - 1] /\ s[p] = stream[p]
      BY <1>7, <1>8, <1>12, <3>1
    <3> QED
      BY <1>11, <3>1, <3>2
  <2>2. CASE p > L /\ p <= L + h
    <3>1. p \in L..(L + h) /\ p - 1 \in L..(L + h) /\ p \in (L + 1)..(L + h)
      BY <2>2, <1>12
    <3>2. g[p] = c /\ g[p - 1] = c /\ s[p].kind # "payload"
      BY <1>9, <1>12, <3>1
    <3> QED
      BY <3>2
  <2>3. CASE p > L + h
    <3>1. p \in (L + h)..N /\ p - 1 \in (L + h)..N /\ p \in (L + h + 1)..(L + h + n)
      BY <2>3, <1>12 DEF N
    <3>2. /\ g[p] = c + (p - L - h) /\ g[p - 1] = c + ((p - 1) - L - h)
          /\ s[p].kind = "payload" /\ s[p].id = c + (p - L - h)
      BY <1>9, <1>12, <3>1
    <3>3. c + (p - L - h) = (c + ((p - 1) - L - h)) + 1
      BY <1>12
    <3> QED
      BY <3>2, <3>3
  <2> QED
    BY <1>12, <2>1, <2>2, <2>3
<1>14. ASSUME NEW p \in 0..N PROVE g[p] <= c + n
  <2>1. CASE p <= L
    BY <1>10, <1>12, <2>1
  <2>2. CASE p > L /\ p <= L + h
    BY <1>12, <2>2
  <2>3. CASE p > L + h
    BY <1>12, <2>3 DEF N
  <2> QED
    BY <1>12, <2>1, <2>2, <2>3
<1>15. g[N] = c + n
  <2>1. N \in (L + h)..N /\ N - L - h = n
    BY DEF N
  <2> QED
    BY <1>12, <2>1
<1>16. Len(stream') = N /\ nunits' = c + n
  BY <1>5, <1>6, <1>7 DEF N
<1>17. Counts(g)'
  BY <1>8, <1>13, <1>14, <1>15, <1>16 DEF Counts
<1>18. PICK m : m = f[0]
  OBVIOUS
<1>19. Read(m)'
  BY <1>1, <1>5, <1>18, ReadStays
<1>20. g[0] = m
  BY <1>12, <1>18
<1>21. Read(g[0])'
  BY <1>19, <1>20
<1> QED
  BY <1>12, <1>16, <1>17, <1>21 DEF CountInv

LEMMA InitCounted ==
  ASSUME Init
  PROVE  CountInv
<1>1. stream = <<>> /\ taken = <<>> /\ buffer = <<>> /\ nunits = 0
  BY DEF Init
<1> DEFINE f == [p \in 0..0 |-> 0]
<1>2. Len(stream) = 0 /\ FlattenSeq(taken) = <<>>
  BY <1>1 DEF FlattenSeq
<1>3. f \in [0..0 -> Nat] /\ f[0] = 0 /\ \A p \in 0..0 : f[p] = 0
  OBVIOUS
<1> HIDE DEF f
<1>4. All = <<>>
  <2>1. <<>> \in Seq(Nat)
    OBVIOUS
  <2>2. <<>> \o <<>> = <<>>
    BY <2>1, Nothing
  <2> QED
    BY <1>1, <1>2, <2>2 DEF All
<1>5. Read(0)
  BY <1>2, <1>4 DEF Read, First
<1>6. Counts(f)
  BY <1>1, <1>2, <1>3 DEF Counts
<1> QED
  BY <1>2, <1>3, <1>5, <1>6 DEF CountInv

LEMMA StepCounted ==
  ASSUME Inv, CountInv, [Next]_vars
  PROVE  CountInv'
<1>1. TypeOK
  BY DEF Inv
<1>2. ASSUME Reads, UNCHANGED <<taken, buffer>>,
             \/ stream' = stream
             \/ stream # <<>> /\ Next1.kind # "payload" /\ stream' = Tail(stream)
      PROVE  CountInv'
  BY <1>1, <1>2, CountKept
<1>3. CASE ReadCore \/ ReadLength \/ ReadExt
  <2>1. /\ Reads /\ UNCHANGED <<taken, buffer>>
        /\ stream # <<>> /\ Next1.kind # "payload" /\ stream' = Tail(stream)
    BY <1>3 DEF ReadCore, ReadLength, ReadExt, Arrived, Reads, server
  <2> QED
    BY <1>2, <2>1
<1>4. CASE CoreFails \/ LengthFails \/ PayloadFails \/ NextFragment \/ DeliverNothing
  <2>1. Reads /\ UNCHANGED <<taken, buffer>> /\ stream' = stream
    BY <1>4 DEF CoreFails, LengthFails, PayloadFails, NextFragment, DeliverNothing, Reads, server
  <2> QED
    BY <1>2, <2>1
<1>5. CASE UNCHANGED vars
  <2>1. Reads /\ UNCHANGED <<taken, buffer>> /\ stream' = stream
    BY <1>5 DEF vars, server, reader, Reads
  <2> QED
    BY <1>2, <2>1
<1> QED
  BY <1>3, <1>4, <1>5, SendCounted, DropCounted, PayloadCounted, DeliverCounted DEF Next, Reader

\* Whatever the stream does, the reader neither drops, repeats nor reorders
\* payload: what it has handed over and what it is filling are the first units
\* that the server sent.
THEOREM NoneSkipped == Spec => []NothingSkipped
<1>1. Init => CountInv
  BY InitCounted
<1>2. Inv /\ CountInv /\ [Next]_vars => CountInv'
  BY StepCounted
<1>3. Inv /\ CountInv => NothingSkipped
  BY Seen DEF Inv
<1> QED
  BY <1>1, <1>2, <1>3, InvHolds, PTL DEF Spec
=============================================================================
