---------------------------- MODULE ClientProofs ----------------------------
(***************************************************************************)
(* Proofs about Client, for any number of runs, handlers and faults.       *)
(*                                                                         *)
(* First what the operations on a stack of handlers do to it, then the     *)
(* inductive invariant, one step for each action.                          *)
(***************************************************************************)
EXTENDS Client, SequenceTheorems, TLAPS

Ends     == {"shut", "quit"}
InRequest == {"inside", "failed", "spin"}

\* The step a stack of handlers is at, if any.
Cur(s) == IF s # <<>> /\ s[Len(s)] # <<>> THEN Head(s[Len(s)]) ELSE [do |-> "none"]

EndFrame(f) == \A j \in 1..Len(f) : f[j].do \in Ends

\* Only the first step of a handler can be inside a request.
Frame(f) ==
  /\ f \in Seq(Step)
  /\ \A j \in 2..Len(f) : f[j].do \notin InRequest
  /\ EndFrame(f) \/ \A j \in 1..Len(f) : f[j].do \notin Ends

\* A suspended handler shows a box.
Waiting(f) == f # <<>> /\ Head(f).do \in {"box", "failed"}

GoodStack(s) ==
  /\ s \in Seq(Seq(Step))
  /\ \A i \in 1..Len(s) : Frame(s[i]) /\ (i < Len(s) => Waiting(s[i]))

FailedOn(c)  == [do |-> "failed", conn |-> c]
Failed(s, c) == \E i \in 1..Len(s) : s[i] # <<>> /\ Head(s[i]) = FailedOn(c)

\* Nothing but WM_CLOSE.
OnlyEnds(s) == Len(s) <= 1 /\ \A i \in 1..Len(s) : EndFrame(s[i])

-----------------------------------------------------------------------------

LEMMA Replaced ==
  ASSUME NEW s, GoodStack(s), s # <<>>, NEW f, Frame(f)
  PROVE  LET r == [s EXCEPT ![Len(s)] = f]
         IN  /\ GoodStack(r) /\ r # <<>> /\ Len(r) = Len(s) /\ r[Len(r)] = f
             /\ \A c : Failed(r, c) => Failed(s, c) \/ (f # <<>> /\ Head(f) = FailedOn(c))
             /\ OnlyEnds(s) /\ EndFrame(f) => OnlyEnds(r)
<1> DEFINE r == [s EXCEPT ![Len(s)] = f]
<1>1. s \in Seq(Seq(Step)) /\ Len(s) \in Nat \ {0} /\ f \in Seq(Step)
  BY EmptySeq DEF GoodStack, Frame
<1>2. /\ r \in Seq(Seq(Step)) /\ Len(r) = Len(s)
      /\ \A j \in 1..Len(s) : r[j] = IF j = Len(s) THEN f ELSE s[j]
  BY <1>1, ExceptSeq
<1>3. r # <<>> /\ r[Len(r)] = f
  BY <1>1, <1>2
<1>4. GoodStack(r)
  <2>1. ASSUME NEW i \in 1..Len(s) PROVE Frame(r[i]) /\ (i < Len(s) => Waiting(r[i]))
    <3>1. CASE i = Len(s)
      BY <1>1, <1>2, <3>1
    <3>2. CASE i # Len(s)
      BY <1>1, <1>2, <3>2 DEF GoodStack
    <3> QED
      BY <3>1, <3>2
  <2> QED
    BY <1>2, <2>1 DEF GoodStack
<1>5. ASSUME NEW c, Failed(r, c) PROVE Failed(s, c) \/ (f # <<>> /\ Head(f) = FailedOn(c))
  BY <1>1, <1>2, <1>5 DEF Failed
<1>6. OnlyEnds(s) /\ EndFrame(f) => OnlyEnds(r)
  BY <1>1, <1>2 DEF OnlyEnds
<1> QED
  BY <1>2, <1>3, <1>4, <1>5, <1>6

\* The rest of a handler.
LEMMA TailFrame ==
  ASSUME NEW f, Frame(f), f # <<>>
  PROVE  /\ Frame(Tail(f))
         /\ Tail(f) # <<>> => Head(Tail(f)).do \notin InRequest
         /\ EndFrame(f) => EndFrame(Tail(f))
         /\ Tail(f) # <<>> /\ Head(Tail(f)).do \in Ends => Head(f).do \in Ends
<1>1. /\ f \in Seq(Step) /\ Len(f) \in Nat \ {0} /\ Tail(f) \in Seq(Step)
      /\ Len(Tail(f)) = Len(f) - 1
      /\ \A i \in 1..Len(Tail(f)) : Tail(f)[i] = f[i + 1]
  BY EmptySeq, HeadTailProperties DEF Frame
<1>2. Tail(f) # <<>> => Len(f) >= 2 /\ Head(Tail(f)) = f[2]
  <2> SUFFICES ASSUME Tail(f) # <<>> PROVE Len(f) >= 2 /\ Head(Tail(f)) = f[2]
    OBVIOUS
  <2>1. Len(Tail(f)) \in Nat \ {0}
    BY <1>1, EmptySeq
  <2>2. Head(Tail(f)) = Tail(f)[1]
    BY <1>1
  <2> QED
    BY <1>1, <2>1, <2>2
<1>3. Head(f) = f[1]
  BY <1>1
<1> QED
  BY <1>1, <1>2, <1>3 DEF Frame, EndFrame

\* A handler that goes on.
LEMMA Proceeding ==
  ASSUME NEW s, GoodStack(s), s # <<>>, s[Len(s)] # <<>>
  PROVE  LET r == [s EXCEPT ![Len(s)] = Tail(s[Len(s)])]
         IN  /\ GoodStack(r) /\ r # <<>> /\ Len(r) = Len(s)
             /\ Cur(r).do \notin InRequest
             /\ Cur(r).do \in Ends => Cur(s).do \in Ends
             /\ \A c : Failed(r, c) => Failed(s, c)
             /\ OnlyEnds(s) => OnlyEnds(r)
<1> DEFINE f == Tail(s[Len(s)])
           r == [s EXCEPT ![Len(s)] = f]
<1>1. s \in Seq(Seq(Step)) /\ Len(s) \in Nat \ {0} /\ Frame(s[Len(s)])
  BY EmptySeq DEF GoodStack
<1>2. /\ Frame(f)
      /\ f # <<>> => Head(f).do \notin InRequest
      /\ EndFrame(s[Len(s)]) => EndFrame(f)
      /\ f # <<>> /\ Head(f).do \in Ends => Head(s[Len(s)]).do \in Ends
  BY <1>1, TailFrame
<1> HIDE DEF f
<1>3. /\ GoodStack(r) /\ r # <<>> /\ Len(r) = Len(s) /\ r[Len(r)] = f
      /\ \A c : Failed(r, c) => Failed(s, c) \/ (f # <<>> /\ Head(f) = FailedOn(c))
      /\ OnlyEnds(s) /\ EndFrame(f) => OnlyEnds(r)
  BY <1>2, Replaced
<1> HIDE DEF r
<1>4. Cur(r).do \notin InRequest
  BY <1>2, <1>3 DEF Cur, InRequest
<1>5. Cur(r).do \in Ends => Cur(s).do \in Ends
  BY <1>2, <1>3 DEF Cur, Ends
<1>6. \A c : Failed(r, c) => Failed(s, c)
  BY <1>2, <1>3 DEF FailedOn, InRequest
<1>7. OnlyEnds(s) => OnlyEnds(r)
  BY <1>1, <1>2, <1>3 DEF OnlyEnds
<1> QED
  BY <1>3, <1>4, <1>5, <1>6, <1>7 DEF r, f

\* A handler that turns from one step to another.
LEMMA TurnedFrame ==
  ASSUME NEW f, Frame(f), f # <<>>, "conn" \in DOMAIN Head(f), Head(f).do \notin Ends,
         NEW w \in InRequest
  PROVE  LET g == <<[Head(f) EXCEPT !.do = w]>> \o Tail(f)
         IN  Frame(g) /\ g # <<>> /\ Head(g) = [do |-> w, conn |-> Head(f).conn]
<1> DEFINE h == [Head(f) EXCEPT !.do = w]
           g == <<h>> \o Tail(f)
<1>1. /\ f \in Seq(Step) /\ Len(f) \in Nat \ {0} /\ Head(f) \in Step /\ Tail(f) \in Seq(Step)
      /\ Len(Tail(f)) = Len(f) - 1 /\ Head(f) = f[1]
      /\ \A i \in 1..Len(Tail(f)) : Tail(f)[i] = f[i + 1]
  BY EmptySeq, HeadTailProperties DEF Frame
<1>2. h = [do |-> w, conn |-> Head(f).conn] /\ h \in Step
  BY <1>1 DEF Step, InRequest
<1> HIDE DEF h
<1>3. <<h>> \in Seq(Step) /\ Len(<<h>>) = 1 /\ <<h>>[1] = h
  BY <1>2
<1>4. /\ g \in Seq(Step) /\ Len(g) = Len(f)
      /\ \A i \in 1..Len(f) : g[i] = IF i = 1 THEN h ELSE f[i]
  <2>1. /\ g \in Seq(Step) /\ Len(g) = 1 + Len(Tail(f))
        /\ \A i \in 1..1 + Len(Tail(f)) :
             g[i] = IF i <= 1 THEN <<h>>[i] ELSE Tail(f)[i - 1]
    BY <1>1, <1>3, ConcatProperties
  <2> HIDE DEF g
  <2> QED
    BY <1>1, <1>3, <2>1
<1> HIDE DEF g
<1>5. g # <<>> /\ Head(g) = h
  BY <1>1, <1>4
<1>6. Frame(g)
  <2>1. \A j \in 2..Len(g) : g[j].do \notin InRequest
    BY <1>1, <1>4 DEF Frame
  <2>2. \A j \in 1..Len(f) : f[j].do \notin Ends
    BY <1>1 DEF Frame, EndFrame
  <2>3. \A j \in 1..Len(g) : g[j].do \notin Ends
    BY <1>1, <1>2, <1>4, <2>2 DEF Ends, InRequest
  <2> QED
    BY <1>4, <2>1, <2>3 DEF Frame
<1> QED
  BY <1>2, <1>5, <1>6 DEF g, h

LEMMA Turning ==
  ASSUME NEW s, GoodStack(s), s # <<>>, s[Len(s)] # <<>>,
         Cur(s).do \in {"request", "inside", "failed"}, NEW w \in InRequest
  PROVE  LET f == s[Len(s)]
             r == [s EXCEPT ![Len(s)] = <<[Head(f) EXCEPT !.do = w]>> \o Tail(f)]
         IN  /\ GoodStack(r) /\ r # <<>> /\ Len(r) = Len(s)
             /\ Cur(r) = [do |-> w, conn |-> Cur(s).conn]
             /\ \A c : Failed(r, c) => Failed(s, c) \/ (w = "failed" /\ c = Cur(s).conn)
<1> DEFINE f == s[Len(s)]
           g == <<[Head(f) EXCEPT !.do = w]>> \o Tail(f)
           r == [s EXCEPT ![Len(s)] = g]
<1>1. s \in Seq(Seq(Step)) /\ Len(s) \in Nat \ {0} /\ Frame(f)
  BY EmptySeq DEF GoodStack
<1>2. Head(f) \in Step /\ Head(f).do \in {"request", "inside", "failed"}
  BY <1>1, HeadTailProperties DEF Frame, Cur
<1>3. "conn" \in DOMAIN Head(f) /\ Head(f).do \notin Ends
  BY <1>2 DEF Step, Ends
<1>4. Frame(g) /\ g # <<>> /\ Head(g) = [do |-> w, conn |-> Cur(s).conn]
  BY <1>1, <1>3, TurnedFrame DEF Cur
<1> HIDE DEF g
<1>5. /\ GoodStack(r) /\ r # <<>> /\ Len(r) = Len(s) /\ r[Len(r)] = g
      /\ \A c : Failed(r, c) => Failed(s, c) \/ (g # <<>> /\ Head(g) = FailedOn(c))
  BY <1>4, Replaced
<1> HIDE DEF r
<1>6. Cur(r) = [do |-> w, conn |-> Cur(s).conn]
  BY <1>4, <1>5 DEF Cur
<1>7. \A c : Failed(r, c) => Failed(s, c) \/ (w = "failed" /\ c = Cur(s).conn)
  BY <1>4, <1>5 DEF FailedOn
<1> QED
  BY <1>5, <1>6, <1>7 DEF r, g

\* A handler that begins.
LEMMA Pushed ==
  ASSUME NEW s, GoodStack(s), s # <<>> => Cur(s).do \in {"box", "failed"},
         NEW f, Frame(f), f # <<>>, Head(f).do \notin InRequest
  PROVE  LET r == Append(s, f)
         IN  /\ GoodStack(r) /\ r # <<>> /\ Len(r) = Len(s) + 1
             /\ Cur(r) = Head(f)
             /\ \A c : Failed(r, c) => Failed(s, c)
             /\ s = <<>> /\ EndFrame(f) => OnlyEnds(r)
<1> DEFINE r == Append(s, f)
<1>1. s \in Seq(Seq(Step)) /\ Len(s) \in Nat /\ f \in Seq(Step)
  BY DEF GoodStack, Frame
<1>2. /\ r \in Seq(Seq(Step)) /\ r # <<>> /\ Len(r) = Len(s) + 1
      /\ \A i \in 1..Len(s) : r[i] = s[i]
      /\ r[Len(s) + 1] = f
  BY <1>1, AppendProperties
<1> HIDE DEF r
<1>3. GoodStack(r)
  <2>1. ASSUME NEW i \in 1..Len(r) PROVE Frame(r[i]) /\ (i < Len(r) => Waiting(r[i]))
    <3>1. CASE i = Len(r)
      BY <1>1, <1>2, <3>1
    <3>2. CASE i < Len(s)
      <4>1. i \in 1..Len(s) /\ r[i] = s[i]
        BY <1>1, <1>2, <3>2
      <4>2. Frame(s[i]) /\ Waiting(s[i])
        BY <3>2, <4>1 DEF GoodStack
      <4> QED
        BY <4>1, <4>2
    <3>3. CASE i = Len(s)
      <4>1. s # <<>>
        BY <1>1, <3>3
      <4>2. Waiting(s[Len(s)])
        BY <4>1 DEF Cur, Waiting
      <4> QED
        BY <1>1, <1>2, <3>3, <4>2 DEF GoodStack
    <3> QED
      BY <1>1, <1>2, <3>1, <3>2, <3>3
  <2> QED
    BY <1>2, <2>1 DEF GoodStack
<1>4. Cur(r) = Head(f)
  BY <1>2 DEF Cur
<1>5. ASSUME NEW c, Failed(r, c) PROVE Failed(s, c)
  <2>1. PICK i \in 1..Len(r) : r[i] # <<>> /\ Head(r[i]) = FailedOn(c)
    BY <1>5 DEF Failed
  <2>2. i # Len(s) + 1
    BY <1>2, <2>1 DEF FailedOn, InRequest
  <2>3. i \in 1..Len(s)
    BY <1>1, <1>2, <2>2
  <2> QED
    BY <1>2, <2>1, <2>3 DEF Failed
<1>6. s = <<>> /\ EndFrame(f) => OnlyEnds(r)
  BY <1>1, <1>2 DEF OnlyEnds
<1> QED
  BY <1>2, <1>3, <1>4, <1>5, <1>6 DEF r

\* A handler that ends.
LEMMA Popped ==
  ASSUME NEW s, GoodStack(s), s # <<>>
  PROVE  LET r == SubSeq(s, 1, Len(s) - 1)
         IN  /\ GoodStack(r) /\ Len(r) = Len(s) - 1
             /\ r # <<>> => Cur(r).do \in {"box", "failed"}
             /\ \A c : Failed(r, c) => Failed(s, c)
             /\ OnlyEnds(s) => OnlyEnds(r)
<1> DEFINE r == SubSeq(s, 1, Len(s) - 1)
<1>1. s \in Seq(Seq(Step)) /\ Len(s) \in Nat \ {0} /\ \A i \in 1..Len(s) : s[i] \in Seq(Step)
  BY EmptySeq, ElementOfSeq DEF GoodStack
<1>2. r \in Seq(Seq(Step)) /\ Len(r) = Len(s) - 1 /\ \A i \in 1..Len(r) : r[i] = s[i]
  <2>1. 1 \in Int /\ Len(s) - 1 \in Int /\ \A i \in 1..Len(s) - 1 : s[i] \in Seq(Step)
    BY <1>1
  <2>2. /\ r \in Seq(Seq(Step))
        /\ Len(r) = IF 1 <= Len(s) - 1 THEN (Len(s) - 1) - 1 + 1 ELSE 0
        /\ \A i \in 1..(Len(s) - 1) - 1 + 1 : r[i] = s[1 + i - 1]
    <3> HIDE DEF r
    <3>1. \A m, n \in Int : (\A i \in m..n : s[i] \in Seq(Step)) =>
             /\ SubSeq(s, m, n) \in Seq(Seq(Step))
             /\ Len(SubSeq(s, m, n)) = IF m <= n THEN n - m + 1 ELSE 0
             /\ \A i \in 1..n - m + 1 : SubSeq(s, m, n)[i] = s[m + i - 1]
      BY SubSeqProperties
    <3> QED
      BY <2>1, <3>1 DEF r
  <2> HIDE DEF r
  <2>3. Len(r) = Len(s) - 1
    <3>1. PICK n \in Nat \ {0} : n = Len(s)
      BY <1>1
    <3>2. n = 1 => Len(r) = n - 1
      BY <2>2, <3>1
    <3>3. n > 1 => Len(r) = n - 1
      BY <2>2, <3>1
    <3>4. n = 1 \/ n > 1
      BY <3>1
    <3> QED
      BY <3>1, <3>2, <3>3, <3>4
  <2> QED
    BY <1>1, <2>2, <2>3
<1> HIDE DEF r
<1>3. GoodStack(r)
  BY <1>1, <1>2 DEF GoodStack
<1>4. r # <<>> => Cur(r).do \in {"box", "failed"}
  <2> SUFFICES ASSUME r # <<>> PROVE Cur(r).do \in {"box", "failed"}
    OBVIOUS
  <2>1. Len(r) \in 1..Len(s) /\ Len(r) < Len(s)
    BY <1>1, <1>2, EmptySeq
  <2>2. Waiting(s[Len(r)])
    BY <2>1 DEF GoodStack
  <2> QED
    BY <1>2, <2>1, <2>2 DEF Cur, Waiting
<1>5. ASSUME NEW c, Failed(r, c) PROVE Failed(s, c)
  <2>1. PICK i \in 1..Len(r) : r[i] # <<>> /\ Head(r[i]) = FailedOn(c)
    BY <1>5 DEF Failed
  <2>2. i \in 1..Len(s) /\ r[i] = s[i]
    BY <1>1, <1>2
  <2> QED
    BY <2>1, <2>2 DEF Failed
<1>6. OnlyEnds(s) => OnlyEnds(r)
  BY <1>1, <1>2 DEF OnlyEnds
<1> QED
  BY <1>2, <1>3, <1>4, <1>5, <1>6 DEF r

\* The handlers that messages and frames begin.
Starting(f) == f \in Seq(Step) /\ \A j \in 1..Len(f) : f[j].do \in {"request", "switch", "box", "call"}

LEMMA StartingFrame ==
  ASSUME NEW f, Starting(f), f # <<>>
  PROVE  Frame(f) /\ Head(f).do \notin InRequest /\ Head(f).do \notin Ends
<1>1. Len(f) \in Nat \ {0} /\ Head(f) = f[1]
  BY EmptySeq DEF Starting
<1> QED
  BY <1>1 DEF Starting, Frame, InRequest, Ends

LEMMA StartingConcat ==
  ASSUME NEW f, NEW g, Starting(f), Starting(g), f # <<>> \/ g # <<>>
  PROVE  Starting(f \o g) /\ f \o g # <<>>
<1>1. /\ f \o g \in Seq(Step) /\ Len(f \o g) = Len(f) + Len(g)
      /\ \A i \in 1..Len(f) + Len(g) : (f \o g)[i] = IF i <= Len(f) THEN f[i] ELSE g[i - Len(f)]
  BY ConcatProperties DEF Starting
<1>2. Len(f) \in Nat /\ Len(g) \in Nat
  BY DEF Starting
<1>3. \A i \in 1..Len(f \o g) : (f \o g)[i].do \in {"request", "switch", "box", "call"}
  BY <1>1, <1>2 DEF Starting
<1>4. f \o g # <<>>
  BY ConcatEqualIffEmpty DEF Starting
<1> QED
  BY <1>1, <1>3, <1>4 DEF Starting

LEMMA HandlersStart ==
  /\ \A f \in WindowHandlers \cup GatewayHandlers : Starting(f) /\ f # <<>>
  /\ Starting(<<Do("box")>>) /\ <<Do("box")>> # <<>>
<1>1. /\ Do("switch") \in Step /\ Do("box") \in Step /\ Do("call") \in Step
      /\ Of("maincon") \in Step /\ Of("cdncon") \in Step
  BY DEF Do, Of, Step, Conns
<1>2. /\ Do("switch").do = "switch" /\ Do("box").do = "box" /\ Do("call").do = "call"
      /\ Of("maincon").do = "request" /\ Of("cdncon").do = "request"
  BY DEF Do, Of
<1>3. \A p \in Picture : Starting(p)
  <2>1. Starting(<<>>)
    BY DEF Starting
  <2>2. Starting(<<Of("cdncon")>>) /\ Starting(<<Do("box")>>)
    BY <1>1, <1>2 DEF Starting
  <2>3. Starting(<<Of("cdncon"), Do("box")>>)
    BY <1>1, <1>2 DEF Starting
  <2> QED
    BY <2>1, <2>2, <2>3 DEF Picture
<1>4. /\ Starting(<<Of("maincon"), Do("switch")>>) /\ Starting(<<Of("maincon")>>)
      /\ Starting(<<Do("call")>>) /\ Starting(<<Do("box")>>)
  BY <1>1, <1>2 DEF Starting
<1>5. /\ <<Of("maincon"), Do("switch")>> # <<>> /\ <<Of("maincon")>> # <<>>
      /\ <<Do("call")>> # <<>> /\ <<Do("box")>> # <<>>
  OBVIOUS
<1>6. \A p \in Picture : /\ Starting(<<Of("maincon"), Do("switch")>> \o p)
                         /\ <<Of("maincon"), Do("switch")>> \o p # <<>>
                         /\ Starting(p \o <<Do("call")>>)
                         /\ p \o <<Do("call")>> # <<>>
  BY <1>3, <1>4, <1>5, StartingConcat
<1> QED
  BY <1>3, <1>4, <1>5, <1>6 DEF WindowHandlers, GatewayHandlers

LEMMA ShutFrame ==
  LET f == <<Do("shut"), Do("quit"), Do("shut")>>
  IN  Frame(f) /\ f # <<>> /\ EndFrame(f) /\ Head(f).do = "shut"
BY DEF Do, Frame, EndFrame, Ends, InRequest, Step

-----------------------------------------------------------------------------

Stacks == \A t \in Threads : GoodStack(stack[t])

\* What keeps a connection with a thread after the request it is at: one that
\* was abandoned, or a box inside a request further down.
Stuck(t, c)  == (holder[c] = t /\ abandoned[c]) \/ Failed(stack[t], c)
Inside(t, c) == Cur(stack[t]) = [do |-> "inside", conn |-> c]

Counted == \A c \in Conns : /\ holder[c] = NoThread <=> depth[c] = 0
                            /\ abandoned[c] => holder[c] # NoThread

\* Who is inside has the critical section, and has it twice if leaving it once
\* must not set it free.
Owned == ~closed => \A t \in Threads, c \in Conns :
           /\ Inside(t, c) \/ Stuck(t, c) => holder[c] = t
           /\ Inside(t, c) /\ Stuck(t, c) => depth[c] >= 2

\* The gateway thread has no second handler, so it leaves what it enters.
GatewayOwns ==
  /\ Len(stack[Gateway]) <= 1
  /\ ~closed => \A c \in Conns : holder[c] = Gateway /\ ~abandoned[c] =>
                  /\ depth[c] = 1
                  /\ Cur(stack[Gateway]).do \in InRequest
                  /\ Cur(stack[Gateway]).conn = c

\* If nothing was suspended, WM_CLOSE is all that is left to do.
Closing ==
  /\ ~suspended /\ (closed \/ Cur(stack[Window]).do \in Ends) => OnlyEnds(stack[Window])
  /\ Window \in misuse => closed

Inv == TypeOK /\ Stacks /\ Counted /\ Owned /\ GatewayOwns /\ Closing /\ MisuseHasCause

LEMMA NoStack == GoodStack(<<>>) /\ (\A c : ~Failed(<<>>, c)) /\ Cur(<<>>).do = "none" /\ OnlyEnds(<<>>)
BY DEF GoodStack, Failed, Cur, OnlyEnds

\* Every run begins with nothing to do and nothing locked.
LEMMA BlankInv ==
  ASSUME stack = Fresh.stack, holder = Fresh.holder, depth = Fresh.depth,
         abandoned = Fresh.abandoned, ~closed, ~suspended, misuse = {}
  PROVE  /\ stack \in [Threads -> Seq(Seq(Step))] /\ holder \in [Conns -> Threads \cup {NoThread}]
         /\ depth \in [Conns -> Nat] /\ abandoned \in [Conns -> BOOLEAN]
         /\ Stacks /\ Counted /\ Owned /\ GatewayOwns /\ Closing /\ MisuseHasCause
<1>1. /\ stack = [t \in Threads |-> <<>>] /\ holder = [c \in Conns |-> NoThread]
      /\ depth = [c \in Conns |-> 0] /\ abandoned = [c \in Conns |-> FALSE]
  BY DEF Fresh
<1>2. \A t \in Threads : stack[t] = <<>>
  BY <1>1
<1>3. Window \in Threads /\ Gateway \in Threads
  BY DEF Threads
<1>4. stack \in [Threads -> Seq(Seq(Step))]
  BY <1>1
<1>5. Stacks
  BY <1>2, NoStack DEF Stacks
<1>6. Owned
  BY <1>1, <1>2, NoStack DEF Owned, Inside, Stuck
<1>7. GatewayOwns
  BY <1>1, <1>2, <1>3, ThreadsAssumption DEF GatewayOwns
<1>8. Closing
  BY <1>2, <1>3, NoStack DEF Closing
<1> QED
  BY <1>1, <1>4, <1>5, <1>6, <1>7, <1>8 DEF Counted, MisuseHasCause

LEMMA InitInv == Init => Inv
<1> SUFFICES ASSUME Init PROVE Inv
  OBVIOUS
<1>1. /\ stack \in [Threads -> Seq(Seq(Step))] /\ holder \in [Conns -> Threads \cup {NoThread}]
      /\ depth \in [Conns -> Nat] /\ abandoned \in [Conns -> BOOLEAN]
      /\ Stacks /\ Counted /\ Owned /\ GatewayOwns /\ Closing /\ MisuseHasCause
  BY BlankInv DEF Init
<1>2. /\ run \in 1..MaxRuns /\ handlers \in 0..MaxHandlers /\ faults \in 0..MaxFaults
  BY BoundsAssumption DEF Init
<1>3. /\ registry \in {"none", "good", "bad"} /\ misuse \subseteq {"twice"} \cup Threads
      /\ phase \in {"start", "login", "lost", "create", "running", "over"}
      /\ {closed, quitting, ready, chosen, suspended} \subseteq BOOLEAN
  BY DEF Init
<1> QED
  BY <1>1, <1>2, <1>3 DEF Inv, TypeOK

LEMMA RestartInv == Inv /\ Restart => Inv'
<1> SUFFICES ASSUME Inv, Restart PROVE Inv'
  OBVIOUS
<1>1. (/\ stack \in [Threads -> Seq(Seq(Step))] /\ holder \in [Conns -> Threads \cup {NoThread}]
       /\ depth \in [Conns -> Nat] /\ abandoned \in [Conns -> BOOLEAN]
       /\ Stacks /\ Counted /\ Owned /\ GatewayOwns /\ Closing /\ MisuseHasCause)'
  <2>1. (/\ stack = Fresh.stack /\ holder = Fresh.holder /\ depth = Fresh.depth
         /\ abandoned = Fresh.abandoned /\ ~closed /\ ~suspended /\ misuse = {})'
    BY DEF Restart, Fresh
  <2> QED
    BY <2>1, BlankInv, PTL
<1>2. (/\ run \in 1..MaxRuns /\ handlers \in 0..MaxHandlers /\ faults \in 0..MaxFaults)'
  BY BoundsAssumption DEF Restart, Inv, TypeOK
<1>3. (/\ registry \in {"none", "good", "bad"} /\ misuse \subseteq {"twice"} \cup Threads
       /\ phase \in {"start", "login", "lost", "create", "running", "over"}
       /\ {closed, quitting, ready, chosen, suspended} \subseteq BOOLEAN)'
  BY DEF Restart, Inv, TypeOK
<1> QED
  BY <1>1, <1>2, <1>3 DEF Inv, TypeOK

-----------------------------------------------------------------------------
(* What the steps do to the stacks.                                         *)

LEMMA AtCur ==
  ASSUME Inv, NEW t \in Threads, NEW what, At(t, what)
  PROVE  /\ stack[t] # <<>> /\ stack[t][Len(stack[t])] # <<>>
         /\ Top(t) = stack[t][Len(stack[t])]
         /\ Cur(stack[t]) = Head(Top(t)) /\ Cur(stack[t]).do \in what /\ Conn(t) = Cur(stack[t]).conn
BY DEF At, Busy, Top, Cur, Conn

\* Nobody else's stack.
OthersKeep(t) == /\ stack' \in [Threads -> Seq(Seq(Step))]
                 /\ \A u \in Threads : GoodStack(stack'[u])
                 /\ \A u \in Threads \ {t} : stack'[u] = stack[u]

LEMMA Others ==
  ASSUME Inv, NEW t \in Threads, NEW r, GoodStack(r), stack' = [stack EXCEPT ![t] = r]
  PROVE  OthersKeep(t) /\ stack'[t] = r
BY DEF Inv, TypeOK, Stacks, OthersKeep, GoodStack

LEMMA ProceedEffect ==
  ASSUME Inv, NEW t \in Threads, NEW what, At(t, what), Proceed(t)
  PROVE  /\ OthersKeep(t) /\ stack'[t] # <<>> /\ Len(stack'[t]) = Len(stack[t])
         /\ Cur(stack'[t]).do \notin InRequest
         /\ Cur(stack'[t]).do \in Ends => Cur(stack[t]).do \in Ends
         /\ \A c : Failed(stack'[t], c) => Failed(stack[t], c)
         /\ OnlyEnds(stack[t]) => OnlyEnds(stack'[t])
<1> DEFINE s == stack[t]
           r == [s EXCEPT ![Len(s)] = Tail(s[Len(s)])]
<1>1. GoodStack(s) /\ s # <<>> /\ s[Len(s)] # <<>>
  BY AtCur DEF Inv, Stacks
<1>2. stack' = [stack EXCEPT ![t] = r]
  BY DEF Proceed, Becomes, Top
<1>3. /\ GoodStack(r) /\ r # <<>> /\ Len(r) = Len(s)
      /\ Cur(r).do \notin InRequest
      /\ Cur(r).do \in Ends => Cur(s).do \in Ends
      /\ \A c : Failed(r, c) => Failed(s, c)
      /\ OnlyEnds(s) => OnlyEnds(r)
  BY <1>1, Proceeding
<1> HIDE DEF r
<1>4. OthersKeep(t) /\ stack'[t] = r
  BY <1>2, <1>3, Others
<1> QED
  BY <1>3, <1>4

LEMMA TurnEffect ==
  ASSUME Inv, NEW t \in Threads, At(t, {"request", "inside", "failed"}),
         NEW w \in InRequest, Turn(t, w)
  PROVE  /\ OthersKeep(t) /\ stack'[t] # <<>> /\ Len(stack'[t]) = Len(stack[t])
         /\ Cur(stack'[t]) = [do |-> w, conn |-> Conn(t)]
         /\ \A c : Failed(stack'[t], c) => Failed(stack[t], c) \/ (w = "failed" /\ c = Conn(t))
<1> DEFINE s == stack[t]
           f == s[Len(s)]
           r == [s EXCEPT ![Len(s)] = <<[Head(f) EXCEPT !.do = w]>> \o Tail(f)]
<1>1. /\ GoodStack(s) /\ s # <<>> /\ s[Len(s)] # <<>>
      /\ Cur(s).do \in {"request", "inside", "failed"} /\ Conn(t) = Cur(s).conn
  BY AtCur DEF Inv, Stacks
<1>2. stack' = [stack EXCEPT ![t] = r]
  BY DEF Turn, Becomes, Top
<1>3. /\ GoodStack(r) /\ r # <<>> /\ Len(r) = Len(s)
      /\ Cur(r) = [do |-> w, conn |-> Cur(s).conn]
      /\ \A c : Failed(r, c) => Failed(s, c) \/ (w = "failed" /\ c = Cur(s).conn)
  BY <1>1, Turning
<1> HIDE DEF r
<1>4. OthersKeep(t) /\ stack'[t] = r
  BY <1>2, <1>3, Others
<1> QED
  BY <1>1, <1>3, <1>4

LEMMA PushEffect ==
  ASSUME Inv, NEW t \in Threads, stack[t] # <<>> => Cur(stack[t]).do \in {"box", "failed"},
         NEW f, Frame(f), f # <<>>, Head(f).do \notin InRequest,
         stack' = [stack EXCEPT ![t] = Append(@, f)]
  PROVE  /\ OthersKeep(t) /\ stack'[t] # <<>> /\ Len(stack'[t]) = Len(stack[t]) + 1
         /\ Cur(stack'[t]) = Head(f)
         /\ \A c : Failed(stack'[t], c) => Failed(stack[t], c)
         /\ stack[t] = <<>> /\ EndFrame(f) => OnlyEnds(stack'[t])
<1> DEFINE s == stack[t]
           r == Append(s, f)
<1>1. GoodStack(s)
  BY DEF Inv, Stacks
<1>2. stack' = [stack EXCEPT ![t] = r]
  OBVIOUS
<1>3. /\ GoodStack(r) /\ r # <<>> /\ Len(r) = Len(s) + 1
      /\ Cur(r) = Head(f)
      /\ \A c : Failed(r, c) => Failed(s, c)
      /\ s = <<>> /\ EndFrame(f) => OnlyEnds(r)
  BY <1>1, Pushed
<1> HIDE DEF r
<1>4. OthersKeep(t) /\ stack'[t] = r
  BY <1>2, <1>3, Others
<1> QED
  BY <1>3, <1>4

LEMMA PopEffect ==
  ASSUME Inv, NEW t \in Threads, stack[t] # <<>>,
         stack' = [stack EXCEPT ![t] = SubSeq(@, 1, Len(@) - 1)]
  PROVE  /\ OthersKeep(t) /\ Len(stack'[t]) = Len(stack[t]) - 1
         /\ stack'[t] # <<>> => Cur(stack'[t]).do \in {"box", "failed"}
         /\ \A c : Failed(stack'[t], c) => Failed(stack[t], c)
         /\ OnlyEnds(stack[t]) => OnlyEnds(stack'[t])
<1> DEFINE s == stack[t]
           r == SubSeq(s, 1, Len(s) - 1)
<1>1. GoodStack(s)
  BY DEF Inv, Stacks
<1>2. stack' = [stack EXCEPT ![t] = r]
  OBVIOUS
<1>3. /\ GoodStack(r) /\ Len(r) = Len(s) - 1
      /\ r # <<>> => Cur(r).do \in {"box", "failed"}
      /\ \A c : Failed(r, c) => Failed(s, c)
      /\ OnlyEnds(s) => OnlyEnds(r)
  BY <1>1, Popped
<1> HIDE DEF r
<1>4. OthersKeep(t) /\ stack'[t] = r
  BY <1>2, <1>3, Others
<1> QED
  BY <1>3, <1>4

\* A step of t that touches no critical section, and is not one of a handler
\* of the gateway thread inside a request.
LEMMA QuietLocks ==
  ASSUME Inv, NEW t \in Threads, OthersKeep(t), UNCHANGED <<locks, closed>>,
         Cur(stack'[t]).do # "inside",
         \A c : Failed(stack'[t], c) => Failed(stack[t], c),
         t = Gateway => Len(stack'[t]) <= 1 /\ Cur(stack[t]).do \notin InRequest
  PROVE  Counted' /\ Owned' /\ GatewayOwns'
<1> USE DEF Inv, locks
<1>1. Counted'
  BY DEF Counted
<1>2. Owned'
  <2> SUFFICES ASSUME ~closed, NEW u \in Threads, NEW c \in Conns
               PROVE  /\ (Inside(u, c) \/ Stuck(u, c) => holder[c] = u)'
                      /\ (Inside(u, c) /\ Stuck(u, c) => depth[c] >= 2)'
    BY DEF Owned
  <2>1. Inside(u, c)' => Inside(u, c)
    BY DEF Inside, OthersKeep
  <2>2. Stuck(u, c)' => Stuck(u, c)
    BY DEF Stuck, OthersKeep
  <2> QED
    BY <2>1, <2>2 DEF Owned
<1>3. GatewayOwns'
  <2>1. CASE t = Gateway
    BY <2>1 DEF GatewayOwns
  <2>2. CASE t # Gateway
    <3>1. stack'[Gateway] = stack[Gateway]
      BY <2>2 DEF OthersKeep, Threads
    <3> QED
      BY <3>1 DEF GatewayOwns
  <2> QED
    BY <2>1, <2>2
<1> QED
  BY <1>1, <1>2, <1>3

-----------------------------------------------------------------------------
(* One lemma for each kind of step.                                         *)

\* Start-up and the ends of a run change none of what Inv is about.
LEMMA GoesInv ==
  ASSUME Inv, NEW to \in {"start", "login", "lost", "create", "running", "over"}, Goes(to),
         registry' \in {"none", "good", "bad"}
  PROVE  Inv'
<1> USE DEF Goes, Inv, locks, ending, session, counts
<1>1. TypeOK'
  BY DEF TypeOK
<1>2. Stacks' /\ Counted' /\ Closing' /\ MisuseHasCause'
  BY DEF Stacks, Counted, Closing, MisuseHasCause
<1>3. Owned' /\ GatewayOwns'
  BY DEF Owned, GatewayOwns, Inside, Stuck
<1> QED
  BY <1>1, <1>2, <1>3

\* Switch, Call, CloseBox, PostQuit: a handler goes on.
LEMMA GoesOnInv ==
  ASSUME Inv, NEW t \in Threads, NEW what, At(t, what), what \cap InRequest = {}, Proceed(t),
         UNCHANGED <<registry, phase, run, locks, closed, misuse, suspended, ready, counts>>,
         quitting' \in BOOLEAN, chosen' \in BOOLEAN
  PROVE  Inv'
<1> USE DEF Inv, locks, counts
<1>1. /\ OthersKeep(t) /\ stack'[t] # <<>> /\ Len(stack'[t]) = Len(stack[t])
      /\ Cur(stack'[t]).do \notin InRequest
      /\ Cur(stack'[t]).do \in Ends => Cur(stack[t]).do \in Ends
      /\ \A c : Failed(stack'[t], c) => Failed(stack[t], c)
      /\ OnlyEnds(stack[t]) => OnlyEnds(stack'[t])
  BY ProceedEffect
<1>2. Cur(stack[t]).do \notin InRequest
  BY AtCur
<1>3. TypeOK' /\ Stacks'
  BY <1>1 DEF TypeOK, Stacks, OthersKeep
<1>4. Counted' /\ Owned' /\ GatewayOwns'
  <2>1. Cur(stack'[t]).do # "inside" /\ (t = Gateway => Len(stack'[t]) <= 1)
    BY <1>1 DEF InRequest, GatewayOwns
  <2> QED
    BY <1>1, <1>2, <2>1, QuietLocks
<1>5. Closing' /\ MisuseHasCause'
  <2>1. CASE t = Window
    BY <1>1, <2>1 DEF Closing, MisuseHasCause
  <2>2. CASE t # Window
    BY <1>1, <2>2 DEF Closing, MisuseHasCause, OthersKeep, Threads
  <2> QED
    BY <2>1, <2>2
<1> QED
  BY <1>3, <1>4, <1>5

LEMMA HandlerEndsInv == ASSUME Inv, NEW t \in Threads, HandlerEnds(t) PROVE Inv'
<1> USE DEF Inv, locks, ending, session, counts
<1>1. stack[t] # <<>> /\ stack[t][Len(stack[t])] = <<>>
  BY DEF HandlerEnds, Busy, Top
<1>2. /\ OthersKeep(t) /\ Len(stack'[t]) = Len(stack[t]) - 1
      /\ stack'[t] # <<>> => Cur(stack'[t]).do \in {"box", "failed"}
      /\ \A c : Failed(stack'[t], c) => Failed(stack[t], c)
      /\ OnlyEnds(stack[t]) => OnlyEnds(stack'[t])
  BY <1>1, PopEffect DEF HandlerEnds
<1>3. Cur(stack'[t]).do \notin Ends /\ Cur(stack'[t]).do # "inside" /\ Cur(stack[t]).do \notin InRequest
  BY <1>1, <1>2, NoStack DEF Cur, Ends, InRequest
<1>4. TypeOK' /\ Stacks'
  BY <1>2 DEF HandlerEnds, TypeOK, Stacks, OthersKeep
<1>5. Counted' /\ Owned' /\ GatewayOwns'
  <2>1. t = Gateway => Len(stack'[t]) <= 1
    BY <1>2 DEF GatewayOwns, Stacks, GoodStack
  <2>2. UNCHANGED <<locks, closed>>
    BY DEF HandlerEnds
  <2> QED
    BY <1>2, <1>3, <2>1, <2>2, QuietLocks
<1>6. Closing' /\ MisuseHasCause'
  <2>1. CASE t = Window
    BY <1>2, <1>3, <2>1 DEF HandlerEnds, Closing, MisuseHasCause
  <2>2. CASE t # Window
    BY <1>2, <2>2 DEF HandlerEnds, Closing, MisuseHasCause, OthersKeep, Threads
  <2> QED
    BY <2>1, <2>2
<1> QED
  BY <1>4, <1>5, <1>6

\* Input and Receive: a handler begins.
LEMMA BeginInv ==
  ASSUME Inv, NEW t \in Threads, NEW f, Begin(t, f), Starting(f), f # <<>>,
         \/ t = Window /\ InLoop /\ ~closed
         \/ t = Gateway /\ ~Busy(Gateway),
         UNCHANGED <<registry, phase, run, locks, ending, chosen, faults>>, ready' \in BOOLEAN
  PROVE  Inv'
<1> USE DEF Inv, locks, ending
<1>1. stack[t] # <<>> => t = Window /\ Cur(stack[t]).do \in {"box", "failed"}
  BY AtCur DEF InLoop, Busy, Threads
<1>2. Frame(f) /\ Head(f).do \notin InRequest /\ Head(f).do \notin Ends
  BY StartingFrame
<1>3. /\ OthersKeep(t) /\ stack'[t] # <<>> /\ Len(stack'[t]) = Len(stack[t]) + 1
      /\ Cur(stack'[t]) = Head(f)
      /\ \A c : Failed(stack'[t], c) => Failed(stack[t], c)
  BY <1>1, <1>2, PushEffect DEF Begin
<1>4. handlers' \in 0..MaxHandlers
  BY BoundsAssumption DEF Begin, TypeOK
<1>5. TypeOK' /\ Stacks'
  BY <1>3, <1>4 DEF TypeOK, Stacks, OthersKeep
<1>6. Counted' /\ Owned' /\ GatewayOwns'
  <2>1. t = Gateway => Len(stack'[t]) <= 1 /\ Cur(stack[t]).do \notin InRequest
    <3> SUFFICES ASSUME t = Gateway PROVE Len(stack'[t]) <= 1 /\ Cur(stack[t]).do \notin InRequest
      OBVIOUS
    <3>1. stack[t] = <<>>
      BY <1>1, ThreadsAssumption
    <3> QED
      BY <1>3, <3>1, NoStack DEF InRequest
  <2>2. Cur(stack'[t]).do # "inside"
    BY <1>2, <1>3 DEF InRequest
  <2> QED
    BY <1>3, <2>1, <2>2, QuietLocks
<1>7. Closing' /\ MisuseHasCause'
  <2>1. CASE t = Window
    BY <1>2, <1>3, <2>1, ThreadsAssumption DEF Closing, MisuseHasCause
  <2>2. CASE t # Window
    BY <1>3, <2>2 DEF Closing, MisuseHasCause, OthersKeep, Threads
  <2> QED
    BY <2>1, <2>2
<1> QED
  BY <1>5, <1>6, <1>7

LEMMA InputInv == ASSUME Inv, Input PROVE Inv'
<1>1. PICK f \in WindowHandlers : Begin(Window, f)
  BY DEF Input
<1>2. Starting(f) /\ f # <<>>
  BY HandlersStart
<1> QED
  BY <1>1, <1>2, BeginInv DEF Input, Threads, session, Inv, TypeOK

LEMMA ReceiveInv == ASSUME Inv, Receive PROVE Inv'
<1>1. PICK f : Begin(Gateway, f) /\ f \in GatewayHandlers \cup {<<Do("box")>>}
  BY DEF Receive
<1>2. Starting(f) /\ f # <<>>
  BY <1>1, HandlersStart
<1>3. ready' \in BOOLEAN
  BY DEF Receive, Inv, TypeOK
<1> QED
  BY <1>1, <1>2, <1>3, BeginInv DEF Receive, Threads

LEMMA CloseInv == ASSUME Inv, Close PROVE Inv'
<1> DEFINE f == <<Do("shut"), Do("quit"), Do("shut")>>
<1> USE DEF Inv, locks, session, counts
<1>0. Window \in Threads
  BY DEF Threads
<1>1. stack[Window] # <<>> => Cur(stack[Window]).do \in {"box", "failed"}
  BY <1>0, AtCur DEF Close, InLoop, Busy
<1>2. Frame(f) /\ f # <<>> /\ EndFrame(f) /\ Head(f).do = "shut"
  BY ShutFrame
<1>3. stack' = [stack EXCEPT ![Window] = Append(@, f)]
  BY DEF Close
<1> HIDE DEF f
<1>4. /\ OthersKeep(Window) /\ stack'[Window] # <<>> /\ Len(stack'[Window]) = Len(stack[Window]) + 1
      /\ Cur(stack'[Window]) = Head(f)
      /\ \A c : Failed(stack'[Window], c) => Failed(stack[Window], c)
      /\ stack[Window] = <<>> /\ EndFrame(f) => OnlyEnds(stack'[Window])
  BY <1>0, <1>1, <1>2, <1>3, PushEffect DEF InRequest
<1>5. TypeOK' /\ Stacks'
  BY <1>4 DEF Close, TypeOK, Stacks, OthersKeep, Busy
<1>6. Counted' /\ Owned' /\ GatewayOwns'
  <2>1. Cur(stack'[Window]).do # "inside" /\ Window # Gateway
    BY <1>2, <1>4, ThreadsAssumption
  <2>2. UNCHANGED <<locks, closed>>
    BY DEF Close
  <2> QED
    BY <1>0, <1>4, <2>1, <2>2, QuietLocks
<1>7. Closing' /\ MisuseHasCause'
  <2>1. ~suspended' => stack[Window] = <<>>
    BY DEF Close, Busy
  <2>2. Window \notin misuse /\ misuse' = misuse
    BY DEF Close, Closing
  <2> QED
    BY <1>2, <1>4, <2>1, <2>2 DEF Closing, MisuseHasCause
<1> QED
  BY <1>5, <1>6, <1>7

\* DiscordHTTPClose, with whatever is left of WM_CLOSE.
LEMMA HTTPCloseInv == ASSUME Inv, DiscordHTTPClose PROVE Inv'
<1> USE DEF Inv, locks, session, counts
<1>0. Window \in Threads /\ Window # Gateway
  BY ThreadsAssumption DEF Threads
<1>1. /\ stack[Window] # <<>> /\ Cur(stack[Window]).do = "shut"
  BY <1>0, AtCur DEF DiscordHTTPClose
<1>2. /\ \A u \in Threads : GoodStack(stack'[u])
      /\ stack' \in [Threads -> Seq(Seq(Step))] /\ stack'[Gateway] = stack[Gateway]
      /\ OnlyEnds(stack[Window]) => OnlyEnds(stack'[Window])
  <2>1. CASE Proceed(Window)
    <3>1. At(Window, {"shut"})
      BY DEF DiscordHTTPClose
    <3>2. OthersKeep(Window) /\ (OnlyEnds(stack[Window]) => OnlyEnds(stack'[Window]))
      BY <1>0, <2>1, <3>1, ProceedEffect
    <3> QED
      BY <1>0, <3>2 DEF OthersKeep, Threads
  <2>2. CASE UNCHANGED stack
    BY <2>2 DEF Stacks, TypeOK
  <2> QED
    BY <2>1, <2>2 DEF DiscordHTTPClose
<1>3. TypeOK'
  <2>1. phase' \in {phase, "over"} /\ misuse' \subseteq misuse \cup {"twice"} /\ closed' = TRUE
    BY DEF DiscordHTTPClose
  <2> QED
    BY <1>2, <2>1 DEF DiscordHTTPClose, TypeOK
<1>4. Stacks' /\ Counted'
  BY <1>2 DEF DiscordHTTPClose, Stacks, Counted
<1>5. Owned' /\ GatewayOwns'
  BY <1>2 DEF DiscordHTTPClose, Owned, GatewayOwns
<1>6. Closing' /\ MisuseHasCause'
  <2>1. ~suspended => OnlyEnds(stack[Window])
    BY <1>1 DEF Closing, Ends
  <2>2. closed' /\ suspended' = suspended /\ (Window \in misuse' => Window \in misuse)
    BY ThreadsAssumption DEF DiscordHTTPClose
  <2> QED
    BY <1>2, <2>1, <2>2 DEF DiscordHTTPClose, Closing, MisuseHasCause
<1> QED
  BY <1>3, <1>4, <1>5, <1>6

LEMMA UseClosedInv == ASSUME Inv, NEW t \in Threads, UseClosed(t) PROVE Inv'
<1> USE DEF Inv, locks, session, counts
<1>0. Window \in Threads /\ Gateway \in Threads /\ Window # Gateway
  BY ThreadsAssumption DEF Threads
<1>1. At(t, {"request", "inside", "failed"}) /\ closed
  BY DEF UseClosed
<1>2. /\ stack' \in [Threads -> Seq(Seq(Step))] /\ \A u \in Threads : GoodStack(stack'[u])
      /\ \A u \in Threads \ {t} : stack'[u] = stack[u]
      /\ Len(stack'[t]) = Len(stack[t])
  <2>1. CASE Proceed(t)
    BY <1>1, <2>1, ProceedEffect DEF OthersKeep
  <2>2. CASE Turn(t, "spin")
    BY <1>1, <2>2, TurnEffect DEF OthersKeep, InRequest
  <2>3. CASE UNCHANGED stack
    BY <2>3 DEF Stacks, TypeOK
  <2> QED
    BY <2>1, <2>2, <2>3 DEF UseClosed
<1>3. TypeOK'
  <2>1. phase' \in {phase, "over"} /\ misuse' \subseteq misuse \cup Threads
    BY DEF UseClosed
  <2> QED
    BY <1>2, <2>1 DEF UseClosed, TypeOK
<1>4. Stacks' /\ Counted'
  BY <1>2 DEF UseClosed, Stacks, Counted
<1>5. Owned' /\ GatewayOwns'
  <2>1. Len(stack'[Gateway]) <= 1 /\ closed'
    BY <1>0, <1>2 DEF UseClosed, GatewayOwns
  <2> QED
    BY <2>1 DEF Owned, GatewayOwns
<1>6. Closing' /\ MisuseHasCause'
  <2>1. t = Window => suspended
    <3> SUFFICES ASSUME t = Window, ~suspended PROVE FALSE
      OBVIOUS
    <3> DEFINE s == stack[Window]
    <3>1. OnlyEnds(s)
      BY <1>1 DEF Closing
    <3>2. s # <<>> /\ s[Len(s)] # <<>> /\ Head(s[Len(s)]).do \in {"request", "inside", "failed"}
      BY <1>1, AtCur DEF Cur
    <3>3. Len(s) \in Nat \ {0} /\ s[Len(s)] \in Seq(Step)
      BY <1>0, <3>2, EmptySeq, ElementOfSeq DEF Stacks, GoodStack
    <3>4. Head(s[Len(s)]) = s[Len(s)][1] /\ Len(s[Len(s)]) \in Nat \ {0}
      BY <3>2, <3>3, EmptySeq
    <3>5. EndFrame(s[Len(s)])
      BY <3>1, <3>3 DEF OnlyEnds
    <3> QED
      BY <3>2, <3>4, <3>5 DEF EndFrame, Ends
  <2>2. closed' /\ suspended' = suspended /\ misuse' = misuse \cup {t}
    BY <1>1 DEF UseClosed
  <2>3. t # Window => stack'[Window] = stack[Window] /\ (Window \in misuse' => Window \in misuse)
    BY <1>0, <1>2, <2>2
  <2> QED
    BY <1>1, <2>1, <2>2, <2>3 DEF Closing, MisuseHasCause
<1> QED
  BY <1>3, <1>4, <1>5, <1>6

-----------------------------------------------------------------------------
(* Requests.                                                                *)

\* A step in which a handler turns or goes on inside a request.
LEMMA RequestRest ==
  ASSUME Inv, NEW t \in Threads, At(t, {"request", "inside", "failed"}), ~closed,
         OthersKeep(t), Cur(stack'[t]).do \notin Ends,
         Len(stack'[t]) = Len(stack[t]),
         holder' \in [Conns -> Threads \cup {NoThread}], depth' \in [Conns -> Nat],
         abandoned' \in [Conns -> BOOLEAN], faults' \in 0..MaxFaults,
         UNCHANGED <<registry, phase, run, ending, session, handlers>>
  PROVE  TypeOK' /\ Stacks' /\ Closing' /\ MisuseHasCause' /\ Len(stack'[Gateway]) <= 1
<1> USE DEF Inv, ending, session
<1>0. Window \in Threads /\ Gateway \in Threads /\ Window # Gateway
  BY ThreadsAssumption DEF Threads
<1>1. TypeOK' /\ Stacks'
  BY DEF TypeOK, Stacks, OthersKeep
<1>2. Closing' /\ MisuseHasCause'
  BY <1>0 DEF Closing, MisuseHasCause, OthersKeep
<1>3. Len(stack'[Gateway]) <= 1
  BY <1>0 DEF GatewayOwns, OthersKeep
<1> QED
  BY <1>1, <1>2, <1>3

LEMMA ConnIsConn ==
  ASSUME Inv, NEW t \in Threads, At(t, {"request", "inside", "failed"})
  PROVE  Conn(t) \in Conns
<1> DEFINE f == Top(t)
<1>1. f = stack[t][Len(stack[t])] /\ stack[t] # <<>> /\ f # <<>>
      /\ Head(f).do \in {"request", "inside", "failed"}
  BY AtCur
<1>2. f \in Seq(Step)
  BY <1>1, EmptySeq, ElementOfSeq DEF Inv, Stacks, GoodStack
<1>3. Head(f) \in Step
  BY <1>1, <1>2, HeadTailProperties
<1> QED
  BY <1>1, <1>3 DEF Step, Conn

LEMMA AtStep ==
  ASSUME Inv, NEW t \in Threads, NEW what, At(t, what)
  PROVE  Cur(stack[t]) \in Step
<1>1. /\ stack[t] # <<>> /\ stack[t][Len(stack[t])] # <<>>
      /\ Cur(stack[t]) = Head(stack[t][Len(stack[t])])
  BY AtCur
<1>2. stack[t][Len(stack[t])] \in Seq(Step)
  BY <1>1, EmptySeq, ElementOfSeq DEF Inv, Stacks, GoodStack
<1> QED
  BY <1>1, <1>2, HeadTailProperties

LEMMA AtInside == ASSUME Inv, NEW t \in Threads, At(t, {"inside"}) PROVE Inside(t, Conn(t))
BY AtCur, AtStep DEF Inside, Step

LEMMA AtFailed == ASSUME Inv, NEW t \in Threads, At(t, {"failed"}) PROVE Failed(stack[t], Conn(t))
<1> DEFINE s == stack[t]
<1>1. s # <<>> /\ s[Len(s)] # <<>> /\ Cur(s) = Head(s[Len(s)]) /\ Cur(s) = FailedOn(Conn(t))
  BY AtCur, AtStep DEF FailedOn, Step
<1>2. Len(s) \in 1..Len(s)
  BY <1>1, EmptySeq DEF Inv, Stacks, GoodStack
<1> QED
  BY <1>1, <1>2 DEF Failed

LEMMA EnterInv == ASSUME Inv, NEW t \in Threads, Enter(t) PROVE Inv'
<1> DEFINE c == Conn(t)
<1> USE DEF Inv
<1>0. At(t, {"request"}) /\ At(t, {"request", "inside", "failed"}) /\ ~closed /\ Turn(t, "inside")
  BY DEF Enter, At
<1>1. /\ OthersKeep(t) /\ stack'[t] # <<>> /\ Len(stack'[t]) = Len(stack[t])
      /\ Cur(stack'[t]) = [do |-> "inside", conn |-> c]
      /\ \A d : Failed(stack'[t], d) => Failed(stack[t], d)
  BY <1>0, TurnEffect DEF InRequest
<1>2. c \in Conns /\ Cur(stack[t]).do = "request"
  BY <1>0, ConnIsConn, AtCur
<1> HIDE DEF c
<1>3. /\ holder[c] \in {NoThread, t} /\ holder' = [holder EXCEPT ![c] = t]
      /\ depth' = [depth EXCEPT ![c] = @ + 1] /\ abandoned' = abandoned /\ closed' = closed
  BY DEF Enter, ending, c
<1>4. /\ holder' \in [Conns -> Threads \cup {NoThread}] /\ depth' \in [Conns -> Nat]
      /\ abandoned' \in [Conns -> BOOLEAN] /\ NoThread \notin Threads
  <2>1. holder' \in [Conns -> Threads \cup {NoThread}]
    BY <1>2, <1>3 DEF TypeOK
  <2>2. depth' \in [Conns -> Nat]
    BY <1>2, <1>3 DEF TypeOK
  <2>3. abandoned' \in [Conns -> BOOLEAN] /\ NoThread \notin Threads
    BY <1>3, ThreadsAssumption DEF TypeOK, Threads
  <2> QED
    BY <2>1, <2>2, <2>3
<1>5. TypeOK' /\ Stacks' /\ Closing' /\ MisuseHasCause' /\ Len(stack'[Gateway]) <= 1
  <2>1. Cur(stack'[t]).do \notin Ends /\ faults' \in 0..MaxFaults
    BY <1>1 DEF Ends, Enter, counts, TypeOK
  <2> QED
    BY <1>0, <1>1, <1>4, <2>1, RequestRest DEF Enter, counts
<1>6. Counted'
  BY <1>2, <1>3, <1>4 DEF Counted, TypeOK
<1>7. Owned'
  <2> SUFFICES ASSUME NEW u \in Threads, NEW d \in Conns
               PROVE  /\ (Inside(u, d) \/ Stuck(u, d) => holder[d] = u)'
                      /\ (Inside(u, d) /\ Stuck(u, d) => depth[d] >= 2)'
    BY DEF Owned
  <2>1. /\ Inside(u, d)' => Inside(u, d) \/ (u = t /\ d = c)
        /\ u # t => (Failed(stack'[u], d) => Failed(stack[u], d))
    BY <1>1 DEF Inside, OthersKeep
  <2>2. Stuck(u, d)' => Stuck(u, d) \/ (u = t /\ d = c)
    BY <1>1, <1>2, <1>3, <2>1 DEF Stuck, TypeOK
  <2>3. CASE d # c
    BY <1>0, <1>2, <1>3, <2>1, <2>2, <2>3 DEF Owned, TypeOK
  <2>4. CASE d = c /\ u # t
    <3>1. ~Inside(u, d) /\ ~Stuck(u, d)
      BY <1>0, <1>3, <1>4, <2>4 DEF Owned
    <3> QED
      BY <2>1, <2>2, <2>4, <3>1
  <2>5. CASE d = c /\ u = t
    <3>1. holder'[d] = u /\ depth'[d] = depth[d] + 1
      BY <1>2, <1>3, <2>5 DEF TypeOK
    <3>2. Stuck(u, d)' => depth[d] # 0
      <4> SUFFICES ASSUME Stuck(u, d)' PROVE depth[d] # 0
        OBVIOUS
      <4>1. CASE Failed(stack'[t], c)
        BY <1>0, <1>1, <1>2, <1>4, <2>5, <4>1 DEF Owned, Stuck, Counted
      <4>2. CASE abandoned[c]
        BY <1>2, <2>5, <4>2 DEF Counted
      <4> QED
        BY <1>3, <2>5, <4>1, <4>2 DEF Stuck
    <3> QED
      BY <1>2, <2>5, <3>1, <3>2 DEF TypeOK
  <2> QED
    BY <2>3, <2>4, <2>5
<1>8. GatewayOwns'
  <2> SUFFICES ASSUME NEW d \in Conns, holder'[d] = Gateway, ~abandoned'[d]
               PROVE  /\ depth'[d] = 1 /\ Cur(stack'[Gateway]).do \in InRequest
                      /\ Cur(stack'[Gateway]).conn = d
    BY <1>5 DEF GatewayOwns
  <2>1. CASE t = Gateway
    <3>1. \A e \in Conns : ~(holder[e] = Gateway /\ ~abandoned[e])
      BY <1>0, <1>2, <2>1 DEF GatewayOwns, InRequest
    <3>2. d = c /\ holder[c] = NoThread
      BY <1>2, <1>3, <2>1, <3>1 DEF TypeOK
    <3>3. depth'[d] = 1
      BY <1>2, <1>3, <3>2 DEF Counted, TypeOK
    <3> QED
      BY <1>1, <2>1, <3>2, <3>3 DEF InRequest
  <2>2. CASE t # Gateway
    <3>1. d # c /\ stack'[Gateway] = stack[Gateway]
      BY <1>1, <1>2, <1>3, <2>2 DEF OthersKeep, Threads, TypeOK
    <3> QED
      BY <1>0, <1>2, <1>3, <3>1 DEF GatewayOwns, TypeOK
  <2> QED
    BY <2>1, <2>2
<1> QED
  BY <1>5, <1>6, <1>7, <1>8

\* The rest of a request, which no longer has the section or keeps it.
LEMMA ReturnInv == ASSUME Inv, NEW t \in Threads, Return(t) PROVE Inv'
<1> DEFINE c == Conn(t)
<1> USE DEF Inv
<1>0. At(t, {"inside"}) /\ At(t, {"request", "inside", "failed"}) /\ ~closed /\ Proceed(t)
  BY DEF Return, At
<1>1. /\ OthersKeep(t) /\ stack'[t] # <<>> /\ Len(stack'[t]) = Len(stack[t])
      /\ Cur(stack'[t]).do \notin InRequest
      /\ Cur(stack'[t]).do \in Ends => Cur(stack[t]).do \in Ends
      /\ \A d : Failed(stack'[t], d) => Failed(stack[t], d)
  BY <1>0, ProceedEffect
<1>2. c \in Conns /\ Inside(t, c)
  BY <1>0, ConnIsConn, AtInside
<1> HIDE DEF c
<1>3. /\ holder' = [holder EXCEPT ![c] = IF depth[c] = 1 THEN NoThread ELSE t]
      /\ depth' = [depth EXCEPT ![c] = @ - 1] /\ abandoned' = abandoned /\ closed' = closed
  BY DEF Return, ending, c
<1>4. holder[c] = t /\ depth[c] \in Nat \ {0} /\ NoThread \notin Threads
  BY <1>0, <1>2, ThreadsAssumption DEF Owned, Counted, TypeOK, Threads
<1>5. /\ holder' \in [Conns -> Threads \cup {NoThread}] /\ depth' \in [Conns -> Nat]
      /\ abandoned' \in [Conns -> BOOLEAN]
  <2>1. holder' \in [Conns -> Threads \cup {NoThread}]
    BY <1>2, <1>3 DEF TypeOK
  <2>2. depth' \in [Conns -> Nat]
    BY <1>2, <1>3, <1>4 DEF TypeOK
  <2>3. abandoned' \in [Conns -> BOOLEAN]
    BY <1>3 DEF TypeOK
  <2> QED
    BY <2>1, <2>2, <2>3
<1>6. TypeOK' /\ Stacks' /\ Closing' /\ MisuseHasCause' /\ Len(stack'[Gateway]) <= 1
  <2>1. Cur(stack'[t]).do \notin Ends /\ faults' \in 0..MaxFaults
    BY <1>1, <1>2 DEF Ends, Return, counts, TypeOK, Inside
  <2> QED
    BY <1>0, <1>1, <1>5, <2>1, RequestRest DEF Return, counts
<1>7. Counted'
  <2>1. abandoned[c] => depth[c] >= 2
    BY <1>0, <1>2, <1>4 DEF Owned, Stuck
  <2> SUFFICES ASSUME NEW d \in Conns
               PROVE  (holder'[d] = NoThread <=> depth'[d] = 0) /\ (abandoned'[d] => holder'[d] # NoThread)
    BY DEF Counted
  <2>2. CASE d = c
    BY <1>2, <1>3, <1>4, <2>1, <2>2 DEF TypeOK
  <2>3. CASE d # c
    BY <1>2, <1>3, <2>3 DEF Counted, TypeOK
  <2> QED
    BY <2>2, <2>3
<1>8. Owned'
  <2> SUFFICES ASSUME NEW u \in Threads, NEW d \in Conns
               PROVE  /\ (Inside(u, d) \/ Stuck(u, d) => holder[d] = u)'
                      /\ (Inside(u, d) /\ Stuck(u, d) => depth[d] >= 2)'
    BY DEF Owned
  <2>1. /\ Inside(u, d)' => Inside(u, d) /\ u # t
        /\ u # t => (Failed(stack'[u], d) => Failed(stack[u], d))
    BY <1>1 DEF Inside, OthersKeep, InRequest
  <2>2. Stuck(u, d)' => Stuck(u, d)
    BY <1>1, <1>2, <1>3, <1>4, <2>1 DEF Stuck, TypeOK
  <2>3. CASE d # c
    BY <1>0, <1>2, <1>3, <2>1, <2>2, <2>3 DEF Owned, TypeOK
  <2>4. CASE d = c /\ u # t
    BY <1>0, <1>4, <2>1, <2>2, <2>4 DEF Owned
  <2>5. CASE d = c /\ u = t
    <3>1. Stuck(u, d)' => depth[c] >= 2
      BY <1>0, <1>2, <2>2, <2>5 DEF Owned
    <3> QED
      BY <1>2, <1>3, <2>1, <2>5, <3>1 DEF TypeOK
  <2> QED
    BY <2>3, <2>4, <2>5
<1>9. GatewayOwns'
  <2> SUFFICES ASSUME NEW d \in Conns, holder'[d] = Gateway, ~abandoned'[d]
               PROVE  /\ depth'[d] = 1 /\ Cur(stack'[Gateway]).do \in InRequest
                      /\ Cur(stack'[Gateway]).conn = d
    BY <1>6 DEF GatewayOwns
  <2>1. CASE t = Gateway
    <3>1. d = c
      BY <1>0, <1>2, <1>3, <2>1 DEF GatewayOwns, Inside, TypeOK
    <3>2. depth[c] = 1
      BY <1>0, <1>2, <1>3, <1>4, <2>1, <3>1 DEF GatewayOwns
    <3>3. holder'[d] = NoThread
      BY <1>2, <1>3, <3>1, <3>2 DEF TypeOK
    <3> QED
      BY <3>3, ThreadsAssumption
  <2>2. CASE t # Gateway
    <3>1. d # c /\ stack'[Gateway] = stack[Gateway]
      BY <1>1, <1>2, <1>3, <2>2, ThreadsAssumption DEF OthersKeep, Threads, TypeOK
    <3> QED
      BY <1>0, <1>2, <1>3, <3>1 DEF GatewayOwns, TypeOK
  <2> QED
    BY <2>1, <2>2
<1> QED
  BY <1>6, <1>7, <1>8, <1>9

LEMMA FailInv == ASSUME Inv, NEW t \in Threads, Fail(t) PROVE Inv'
<1> DEFINE c == Conn(t)
<1> USE DEF Inv
<1>0. At(t, {"inside"}) /\ At(t, {"request", "inside", "failed"}) /\ ~closed
  BY DEF Fail, At
<1>1. PICK w \in {"failed", "spin"} : Turn(t, w)
  BY DEF Fail
<1>2. /\ OthersKeep(t) /\ stack'[t] # <<>> /\ Len(stack'[t]) = Len(stack[t])
      /\ Cur(stack'[t]) = [do |-> w, conn |-> c]
      /\ \A d : Failed(stack'[t], d) => Failed(stack[t], d) \/ d = c
  BY <1>0, <1>1, TurnEffect DEF InRequest
<1>3. c \in Conns /\ Cur(stack[t]).do = "inside" /\ Cur(stack[t]).conn = c
  BY <1>0, ConnIsConn, AtCur
<1>4. Inside(t, c)
  BY <1>0, AtInside
<1> HIDE DEF c
<1>5. UNCHANGED <<holder, depth, abandoned, closed>>
  BY DEF Fail, locks, ending
<1>6. TypeOK' /\ Stacks' /\ Closing' /\ MisuseHasCause' /\ Len(stack'[Gateway]) <= 1
  <2>1. Cur(stack'[t]).do \notin Ends
    BY <1>2 DEF Ends
  <2>2. faults' \in 0..MaxFaults
    BY BoundsAssumption DEF Fail, TypeOK
  <2>3. /\ holder' \in [Conns -> Threads \cup {NoThread}] /\ depth' \in [Conns -> Nat]
        /\ abandoned' \in [Conns -> BOOLEAN]
    BY <1>5 DEF TypeOK
  <2> QED
    BY <1>0, <1>2, <2>1, <2>2, <2>3, RequestRest DEF Fail
<1>7. Counted'
  BY <1>5 DEF Counted
<1>8. Owned'
  <2> SUFFICES ASSUME NEW u \in Threads, NEW d \in Conns
               PROVE  /\ (Inside(u, d) \/ Stuck(u, d) => holder[d] = u)'
                      /\ (Inside(u, d) /\ Stuck(u, d) => depth[d] >= 2)'
    BY DEF Owned
  <2>1. Inside(u, d)' => Inside(u, d) /\ u # t
    BY <1>2 DEF Inside, OthersKeep
  <2>2. Stuck(u, d)' => Stuck(u, d) \/ (u = t /\ d = c)
    BY <1>2, <1>5 DEF Stuck, OthersKeep
  <2> QED
    BY <1>0, <1>3, <1>4, <1>5, <2>1, <2>2 DEF Owned
<1>9. GatewayOwns'
  <2>1. CASE t = Gateway
    BY <1>0, <1>2, <1>3, <1>5, <1>6, <2>1 DEF GatewayOwns, InRequest
  <2>2. CASE t # Gateway
    <3>1. stack'[Gateway] = stack[Gateway]
      BY <1>2, <2>2 DEF OthersKeep, Threads
    <3> QED
      BY <1>5, <3>1 DEF GatewayOwns
  <2> QED
    BY <2>1, <2>2
<1> QED
  BY <1>6, <1>7, <1>8, <1>9

LEMMA AbandonInv == ASSUME Inv, NEW t \in Threads, Abandon(t) PROVE Inv'
<1> DEFINE c == Conn(t)
<1> USE DEF Inv
<1>0. At(t, {"failed"}) /\ At(t, {"request", "inside", "failed"}) /\ ~closed /\ Proceed(t)
  BY DEF Abandon, At
<1>1. /\ OthersKeep(t) /\ stack'[t] # <<>> /\ Len(stack'[t]) = Len(stack[t])
      /\ Cur(stack'[t]).do \notin InRequest
      /\ Cur(stack'[t]).do \in Ends => Cur(stack[t]).do \in Ends
      /\ \A d : Failed(stack'[t], d) => Failed(stack[t], d)
  BY <1>0, ProceedEffect
<1>2. c \in Conns /\ Cur(stack[t]).do = "failed" /\ Cur(stack[t]).conn = c
  BY <1>0, ConnIsConn, AtCur
<1>3. Failed(stack[t], c)
  BY <1>0, AtFailed
<1> HIDE DEF c
<1>4. /\ abandoned' = [abandoned EXCEPT ![c] = TRUE] /\ UNCHANGED <<holder, depth, closed>>
  BY DEF Abandon, ending, c
<1>5. holder[c] = t /\ NoThread \notin Threads
  BY <1>0, <1>2, <1>3, ThreadsAssumption DEF Owned, Stuck, Threads
<1>6. TypeOK' /\ Stacks' /\ Closing' /\ MisuseHasCause' /\ Len(stack'[Gateway]) <= 1
  <2>1. Cur(stack'[t]).do \notin Ends /\ faults' \in 0..MaxFaults
    BY <1>1, <1>2 DEF Ends, Abandon, counts, TypeOK
  <2>2. /\ holder' \in [Conns -> Threads \cup {NoThread}] /\ depth' \in [Conns -> Nat]
        /\ abandoned' \in [Conns -> BOOLEAN]
    BY <1>2, <1>4 DEF TypeOK
  <2> QED
    BY <1>0, <1>1, <2>1, <2>2, RequestRest DEF Abandon, counts
<1>7. Counted'
  BY <1>2, <1>4, <1>5 DEF Counted, TypeOK
<1>8. Owned'
  <2> SUFFICES ASSUME NEW u \in Threads, NEW d \in Conns
               PROVE  /\ (Inside(u, d) \/ Stuck(u, d) => holder[d] = u)'
                      /\ (Inside(u, d) /\ Stuck(u, d) => depth[d] >= 2)'
    BY DEF Owned
  <2>1. Inside(u, d)' => Inside(u, d) /\ u # t
    BY <1>1 DEF Inside, OthersKeep, InRequest
  <2>2. Stuck(u, d)' => Stuck(u, d)
    BY <1>1, <1>2, <1>3, <1>4, <1>5 DEF Stuck, OthersKeep, TypeOK
  <2> QED
    BY <1>0, <1>4, <2>1, <2>2 DEF Owned
<1>9. GatewayOwns'
  <2> SUFFICES ASSUME NEW d \in Conns, holder'[d] = Gateway, ~abandoned'[d]
               PROVE  /\ depth'[d] = 1 /\ Cur(stack'[Gateway]).do \in InRequest
                      /\ Cur(stack'[Gateway]).conn = d
    BY <1>6 DEF GatewayOwns
  <2>1. d # c /\ ~abandoned[d] /\ holder[d] = Gateway
    BY <1>2, <1>4 DEF TypeOK
  <2>2. Cur(stack[Gateway]).conn = d
    BY <1>0, <2>1 DEF GatewayOwns
  <2>3. stack'[Gateway] = stack[Gateway]
    BY <1>1, <1>2, <2>1, <2>2 DEF OthersKeep, Threads
  <2> QED
    BY <1>0, <1>4, <2>1, <2>3 DEF GatewayOwns
<1> QED
  BY <1>6, <1>7, <1>8, <1>9

-----------------------------------------------------------------------------
(* The theorems.                                                            *)

LEMMA StepInv == Inv /\ [Next]_vars => Inv'
<1> SUFFICES ASSUME Inv, [Next]_vars PROVE Inv'
  OBVIOUS
<1> USE DEF Inv
<1>1. CASE StartUp \/ Kill \/ SendNowhere \/ WinMainReturns
  <2>1. CASE Start
    BY <2>1, GoesInv DEF Start, TypeOK
  <2>2. CASE Login
    BY <2>2, GoesInv DEF Login
  <2>3. CASE CloseLogin
    BY <2>3, GoesInv DEF CloseLogin, TypeOK
  <2>4. CASE Connect
    BY <2>4, GoesInv DEF Connect, TypeOK
  <2>5. CASE Restart
    BY <2>5, RestartInv
  <2>6. CASE Kill \/ SendNowhere \/ WinMainReturns
    BY <2>6, GoesInv DEF Kill, SendNowhere, WinMainReturns, TypeOK
  <2> QED
    BY <1>1, <2>1, <2>2, <2>3, <2>4, <2>5, <2>6 DEF StartUp
<1>2. CASE Input
  BY <1>2, InputInv
<1>3. CASE Receive
  BY <1>3, ReceiveInv
<1>4. CASE Close
  BY <1>4, CloseInv
<1>5. CASE DiscordHTTPClose
  BY <1>5, HTTPCloseInv
<1>6. CASE PostQuit
  <2>1. Window \in Threads
    BY DEF Threads
  <2> QED
    BY <1>6, <2>1, GoesOnInv DEF PostQuit, InRequest, session, TypeOK
<1>7. ASSUME NEW t \in Threads, HandlerEnds(t) PROVE Inv'
  BY <1>7, HandlerEndsInv
<1>8. ASSUME NEW t \in Threads, Switch(t) PROVE Inv'
  BY <1>8, GoesOnInv DEF Switch, InRequest, ending, TypeOK
<1>9. ASSUME NEW t \in Threads, Call(t) PROVE Inv'
  BY <1>9, GoesOnInv DEF Call, InRequest, ending, session, TypeOK
<1>10. ASSUME NEW t \in Threads, CloseBox(t) PROVE Inv'
  BY <1>10, GoesOnInv DEF CloseBox, InRequest, ending, session, TypeOK
<1>11. ASSUME NEW t \in Threads, Enter(t) \/ Return(t) \/ Fail(t) \/ Abandon(t) \/ UseClosed(t)
       PROVE  Inv'
  BY <1>11, EnterInv, ReturnInv, FailInv, AbandonInv, UseClosedInv
<1>12. CASE UNCHANGED vars
  <2>1. TypeOK' /\ Stacks' /\ Counted' /\ Closing' /\ MisuseHasCause'
    BY <1>12 DEF vars, locks, ending, session, counts, TypeOK, Stacks, Counted, Closing, MisuseHasCause
  <2>2. Owned' /\ GatewayOwns'
    BY <1>12 DEF vars, locks, ending, Owned, GatewayOwns, Inside, Stuck
  <2> QED
    BY <2>1, <2>2
<1> QED
  BY <1>1, <1>2, <1>3, <1>4, <1>5, <1>6, <1>7, <1>8, <1>9, <1>10, <1>11, <1>12 DEF Next, End

LEMMA Invariance == Spec => []Inv
BY InitInv, StepInv, PTL DEF Spec

\* All types; in particular a critical section is not left more often than it
\* was entered, whatever returns, boxes and nested requests come in between.
THEOREM TypeCorrect == Spec => []TypeOK
<1>1. Inv => TypeOK
  BY DEF Inv
<1> QED
  BY <1>1, Invariance, PTL

\* The two threads wait for each other -- the window thread for a connection,
\* the gateway thread for a window -- only over an abandoned connection.
THEOREM WaitsExplained == Spec => []WaitsHaveCause
<1>1. Inv => WaitsHaveCause
  <2> SUFFICES ASSUME Inv, NEW c \in Conns, At(Gateway, {"call"}), holder[c] = Gateway, ~closed
               PROVE  abandoned[c]
    BY DEF WaitsHaveCause
  <2>1. Cur(stack[Gateway]).do = "call"
    BY AtCur DEF Threads
  <2> QED
    BY <2>1 DEF Inv, GatewayOwns, InRequest
<1> QED
  BY <1>1, Invariance, PTL

\* The window thread uses a freed connection only in a handler that WM_CLOSE
\* found suspended in a box.
THEOREM MisuseExplained == Spec => []MisuseHasCause
<1>1. Inv => MisuseHasCause
  BY DEF Inv
<1> QED
  BY <1>1, Invariance, PTL

\* What entering, leaving and abandoning a critical section is to ConnService.
LEMMA ServiceStep ==
  ASSUME NEW c \in Conns, NEW t \in Threads, NEW d \in Conns,
         holder \in [Conns -> Threads \cup {NoThread}], abandoned \in [Conns -> BOOLEAN],
         \/ /\ holder[d] \in {NoThread, t} /\ holder' = [holder EXCEPT ![d] = t]
            /\ abandoned' = abandoned
         \/ /\ holder[d] = t /\ holder' = [holder EXCEPT ![d] = NoThread] /\ ~abandoned[d]
            /\ abandoned' = abandoned
         \/ /\ holder[d] = t /\ abandoned' = [abandoned EXCEPT ![d] = TRUE] /\ holder' = holder
  PROVE  Service(c)!Next \/ UNCHANGED <<holder[c], abandoned[c]>>
<1>1. CASE c # d
  BY <1>1
<1>2. CASE c = d /\ holder[d] = NoThread /\ holder' = [holder EXCEPT ![d] = t] /\ abandoned' = abandoned
  <2>1. Service(c)!Take(t)
    BY <1>2 DEF Service!Take
  <2> QED
    BY <2>1 DEF Service!Next
<1>3. CASE c = d /\ holder[d] = t /\ holder' = [holder EXCEPT ![d] = t] /\ abandoned' = abandoned
  BY <1>3
<1>4. CASE /\ c = d /\ holder[d] = t /\ holder' = [holder EXCEPT ![d] = NoThread] /\ ~abandoned[d]
           /\ abandoned' = abandoned
  <2>1. Service(c)!GiveBack(t)
    BY <1>4 DEF Service!GiveBack
  <2> QED
    BY <2>1 DEF Service!Next
<1>5. CASE c = d /\ holder[d] = t /\ abandoned' = [abandoned EXCEPT ![d] = TRUE] /\ holder' = holder
  <2>1. CASE abandoned[d]
    BY <1>5, <2>1
  <2>2. CASE ~abandoned[d]
    <3>1. Service(c)!Abandon(t)
      BY <1>5, <2>2 DEF Service!Abandon
    <3> QED
      BY <3>1 DEF Service!Next
  <2> QED
    BY <2>1, <2>2
<1> QED
  BY <1>1, <1>2, <1>3, <1>4, <1>5

Used(c) == Service(c)!Next \/ UNCHANGED <<holder[c], abandoned[c]>>

LEMMA RequestUses ==
  ASSUME Inv, NEW t \in Threads, Enter(t) \/ Return(t) \/ Abandon(t), NEW c \in Conns
  PROVE  Used(c)
<1> DEFINE d == Conn(t)
<1>1. /\ At(t, {"request", "inside", "failed"}) /\ ~closed
  BY DEF Enter, Return, Abandon, At
<1>2. d \in Conns
  BY <1>1, ConnIsConn
<1>3. holder \in [Conns -> Threads \cup {NoThread}] /\ abandoned \in [Conns -> BOOLEAN]
  BY DEF Inv, TypeOK
<1>4. CASE Enter(t)
  <2>1. holder[d] \in {NoThread, t} /\ holder' = [holder EXCEPT ![d] = t] /\ abandoned' = abandoned
    BY <1>4 DEF Enter
  <2> HIDE DEF d
  <2> QED
    BY <1>2, <1>3, <2>1, ServiceStep DEF Used
<1>5. CASE Return(t)
  <2>1. /\ holder' = [holder EXCEPT ![d] = IF depth[d] = 1 THEN NoThread ELSE t]
        /\ abandoned' = abandoned
    BY <1>5 DEF Return
  <2>2. Inside(t, d)
    BY <1>5, AtInside DEF Return
  <2> HIDE DEF d
  <2>3. holder[d] = t /\ (abandoned[d] => depth[d] >= 2)
    BY <1>1, <1>2, <2>2 DEF Inv, Owned, Stuck
  <2>4. CASE depth[d] = 1
    <3>1. ~abandoned[d] /\ holder' = [holder EXCEPT ![d] = NoThread]
      BY <2>1, <2>3, <2>4
    <3> QED
      BY <1>2, <1>3, <2>1, <2>3, <3>1, ServiceStep DEF Used
  <2>5. CASE depth[d] # 1
    BY <1>2, <1>3, <2>1, <2>3, <2>5, ServiceStep DEF Used
  <2> QED
    BY <2>4, <2>5
<1>6. CASE Abandon(t)
  <2>1. abandoned' = [abandoned EXCEPT ![d] = TRUE] /\ holder' = holder
    BY <1>6 DEF Abandon
  <2>2. Failed(stack[t], d)
    BY <1>6, AtFailed DEF Abandon
  <2> HIDE DEF d
  <2>3. holder[d] = t
    BY <1>1, <1>2, <2>2 DEF Inv, Owned, Stuck
  <2> QED
    BY <1>2, <1>3, <2>1, <2>3, ServiceStep DEF Used
<1> QED
  BY <1>4, <1>5, <1>6

\* Until a run ends, SendHTTPRequest is called on each connection the way
\* ConnService allows, which KeepAliveConn is proved to implement.
THEOREM UsedAsServices == Spec => ConnsAreServices
<1>1. Inv /\ [Next]_vars =>
        [phase' = "start" \/ \A c \in Conns : Used(c)]_vars
  <2> SUFFICES ASSUME Inv, Next, phase' # "start", NEW c \in Conns PROVE Used(c)
    OBVIOUS
  <2>1. ASSUME NEW t \in Threads, Enter(t) \/ Return(t) \/ Abandon(t) PROVE Used(c)
    BY <2>1, RequestUses
  <2>2. CASE UNCHANGED locks
    BY <2>2 DEF locks, Used
  <2>3. StartUp \/ Kill \/ Input \/ SendNowhere \/ Receive \/ End => UNCHANGED locks
    BY DEF StartUp, Start, Login, CloseLogin, Connect, Restart, Kill, Input, SendNowhere, Receive, End,
           Close, DiscordHTTPClose, PostQuit, WinMainReturns, Goes
  <2>4. ASSUME NEW t \in Threads,
               HandlerEnds(t) \/ Switch(t) \/ Call(t) \/ CloseBox(t) \/ Fail(t) \/ UseClosed(t)
        PROVE  UNCHANGED locks
    BY <2>4 DEF HandlerEnds, Switch, Call, CloseBox, Fail, UseClosed
  <2> QED
    BY <2>1, <2>2, <2>3, <2>4 DEF Next
<1>2. Spec => [][phase' = "start" \/ \A c \in Conns : Used(c)]_vars
  BY <1>1, Invariance, PTL DEF Spec
<1> QED
  BY <1>2 DEF ConnsAreServices, Used

\* What is in the registry is only changed when there was nothing.
TokenInv ==
  /\ phase = "login" => registry = "none"
  /\ phase \in {"start", "login"} => ~ready
  /\ registry = "bad" => ~ready

\* A token that the gateway refuses is kept for good, and no run with it is
\* ever told of a guild or a channel.
THEOREM BadTokenKept == Spec => BadTokenForGood
<1>1. Init => TokenInv
  BY DEF Init, TokenInv
<1> DEFINE Bad == registry = "bad"
<1>2. TokenInv /\ [Next]_vars => TokenInv' /\ (Bad => Bad')
  <2> SUFFICES ASSUME TokenInv, [Next]_vars PROVE TokenInv' /\ (registry = "bad" => registry' = "bad")
    OBVIOUS
  <2> USE DEF TokenInv, Goes, session, ending
  <2>1. CASE Start \/ CloseLogin \/ Connect \/ Restart
    BY <2>1 DEF Start, CloseLogin, Connect, Restart
  <2>2. CASE Login
    BY <2>2 DEF Login
  <2>3. CASE Kill \/ SendNowhere \/ WinMainReturns
    BY <2>3 DEF Kill, SendNowhere, WinMainReturns
  <2>4. CASE Input \/ Close \/ DiscordHTTPClose \/ PostQuit
    BY <2>4 DEF Input, InLoop, Close, DiscordHTTPClose, PostQuit, At
  <2>5. CASE Receive
    BY <2>5 DEF Receive
  <2>6. ASSUME NEW t \in Threads,
               \/ HandlerEnds(t) \/ Switch(t) \/ Call(t) \/ CloseBox(t)
               \/ Enter(t) \/ Return(t) \/ Fail(t) \/ Abandon(t) \/ UseClosed(t)
        PROVE  TokenInv' /\ (registry = "bad" => registry' = "bad")
    <3>1. phase' \in {phase, "over"} /\ UNCHANGED <<registry, ready>>
      BY <2>6 DEF HandlerEnds, Switch, Call, CloseBox, Enter, Return, Fail, Abandon, UseClosed
    <3> QED
      BY <3>1
  <2>7. CASE UNCHANGED vars
    BY <2>7 DEF vars
  <2> QED
    BY <2>1, <2>2, <2>3, <2>4, <2>5, <2>6, <2>7 DEF Next, StartUp, End
<1>3. TokenInv /\ Bad => ~ready
  BY DEF TokenInv
<1> HIDE DEF Bad
<1>4. Spec => [](Bad => []~ready)
  BY <1>1, <1>2, <1>3, PTL DEF Spec
<1> QED
  BY <1>4 DEF BadTokenForGood, Bad
=============================================================================
