------------------------- MODULE MessageStoreProofs -------------------------
(***************************************************************************)
(* Proofs about MessageStore, for any number of messages, selections and   *)
(* nested handlers.                                                        *)
(***************************************************************************)
EXTENDS MessageStore, FiniteSetTheorems, SequenceTheorems, WellFoundedInduction, TLAPS

-----------------------------------------------------------------------------
(* The inductive invariant.                                                 *)

\* Steps with a message at hand.
Busy == {"pfp", "box", "setkey", "grow", "grown", "write", "count"}

\* The messages that thread t, in its handler k, has still to insert.
Todo(t, k) == stack[t][k].todo

\* Suspended handlers show a box.  A message belongs to one handler at most,
\* and to none once it has been counted in.
StackInv ==
  /\ \A t \in Threads : \A k \in 1..Depth(t) :
       /\ k < Depth(t) => stack[t][k].pc = "box"
       /\ stack[t][k].pc \in Busy => Todo(t, k) # <<>>
       /\ \A i \in 1..Len(Todo(t, k)) :
            /\ Todo(t, k)[i] \in 1..Len(messages) /\ Todo(t, k)[i] \notin past
            /\ \A u \in Threads : \A l \in 1..Depth(u) : \A j \in 1..Len(Todo(u, l)) :
                 Todo(t, k)[i] = Todo(u, l)[j] => t = u /\ k = l /\ i = j
  /\ past \subseteq 1..Len(messages) /\ uimsgcnt <= Cardinality(past)

\* The entries in use: while ClearChatControl frees them, those it has not
\* reached yet.
Live == IF At(Window, "free") THEN Top(Window).i..Top(Window).n ELSE 1..uimsgcnt

Apart == ~(Using(Window) /\ Using(Gateway)) /\ ~(Keying(Window) /\ Keying(Gateway))

ArrayInv ==
  /\ Apart
  /\ freed \subseteq past
  /\ \A j \in Live : /\ j \in 1..Len(uimsgs)
                     /\ uimsgs[j] \in past \ freed
                     /\ \A l \in Live : uimsgs[j] = uimsgs[l] => j = l

\* What the handlers know of the array at each of their steps.
FrameInv ==
  /\ At(Window, "free") \/ At(Window, "shrunk") => uimsgcnt = 0
  /\ At(Window, "painting") => Top(Window).n = uimsgcnt
  /\ \A t \in Threads :
       /\ At(t, "grown") => Top(t).n = uimsgcnt + 1
       /\ At(t, "write") \/ At(t, "count") => Len(uimsgs) >= uimsgcnt + 1
       /\ At(t, "count") => uimsgs[uimsgcnt + 1] = Head(Top(t).todo)

\* A picture set since the last clear has a key that was set since then, and
\* nothing set since then is freed.
KeyInv ==
  /\ fresh \subseteq 1..Len(messages) /\ fresh \cap freed = {}
  /\ At(Window, "free") => \A j \in Live : uimsgs[j] \notin fresh
  /\ \A m \in fresh : keys[messages[m].user] \cap fresh # {}

CalmInv == ArrayInv /\ FrameInv /\ KeyInv

\* The loop of ClearChatControl, whatever happens to the array.
LoopInv == At(Window, "free") => Top(Window).i >= 1

Inv == TypeOK /\ StackInv /\ LoopInv /\ (~shared => CalmInv) /\ WildHasCause

-----------------------------------------------------------------------------
(* What a step does to the stack of the thread that takes it.               *)

OthersStay(t) == \A u \in Threads : u # t => stack'[u] = stack[u]

\* Its running handler becomes f,
Turned(t, f) ==
  /\ Depth(t) > 0 /\ Depth(t)' = Depth(t) /\ Top(t)' = f
  /\ \A k \in 1..Depth(t) : k < Depth(t) => stack'[t][k] = stack[t][k]
  /\ OthersStay(t)

\* a handler f begins,
Begun(t, f) ==
  /\ Depth(t)' = Depth(t) + 1 /\ Top(t)' = f
  /\ \A k \in 1..Depth(t) : stack'[t][k] = stack[t][k]
  /\ OthersStay(t)

\* or one ends.
Ended(t) ==
  /\ Depth(t) > 0 /\ Depth(t)' = Depth(t) - 1
  /\ \A k \in 1..Depth(t) : k < Depth(t) => stack'[t][k] = stack[t][k]
  /\ OthersStay(t)

StackType == stack \in [Threads -> Seq(Frame)]

LEMMA TypeStack ==
  ASSUME TypeOK
  PROVE  /\ StackType
         /\ \A t \in Threads : /\ stack[t] \in Seq(Frame) /\ Depth(t) \in Nat
                               /\ \A k \in 1..Depth(t) : stack[t][k] \in Frame
                               /\ Depth(t) > 0 => Top(t) \in Frame
<1>1. stack \in [Threads -> Seq(Frame)]
  BY DEF TypeOK
<1> SUFFICES ASSUME NEW t \in Threads
             PROVE  /\ stack[t] \in Seq(Frame) /\ Depth(t) \in Nat
                    /\ \A k \in 1..Depth(t) : stack[t][k] \in Frame
                    /\ Depth(t) > 0 => Top(t) \in Frame
  BY <1>1 DEF StackType
<1>2. stack[t] \in Seq(Frame)
  BY <1>1
<1>3. Depth(t) \in Nat /\ \A k \in 1..Depth(t) : stack[t][k] \in Frame
  BY <1>2, ElementOfSeq, LenProperties DEF Depth
<1>4. Depth(t) > 0 => Depth(t) \in 1..Depth(t)
  BY <1>3
<1> QED
  BY <1>2, <1>3, <1>4 DEF Top

LEMMA Turns ==
  ASSUME StackType, NEW t \in Threads, NEW f \in Frame, Depth(t) > 0,
         stack' = [stack EXCEPT ![t][Depth(t)] = f]
  PROVE  StackType' /\ Turned(t, f)
<1> DEFINE s == stack[t]
           r == [s EXCEPT ![Len(s)] = f]
<1>1. s \in Seq(Frame) /\ Len(s) \in 1..Len(s) /\ Depth(t) = Len(s)
  BY DEF StackType, Depth
<1>2. /\ r \in Seq(Frame) /\ Len(r) = Len(s)
      /\ \A j \in 1..Len(s) : r[j] = IF j = Len(s) THEN f ELSE s[j]
  BY <1>1, ExceptSeq
<1>3. stack' = [stack EXCEPT ![t] = r]
  BY DEF Depth
<1> HIDE DEF r
<1>4. stack' \in [Threads -> Seq(Frame)] /\ stack'[t] = r /\ OthersStay(t)
  BY <1>2, <1>3 DEF StackType, OthersStay
<1> QED
  BY <1>1, <1>2, <1>4 DEF StackType, Turned, Depth, Top

LEMMA Begins ==
  ASSUME StackType, NEW t \in Threads, NEW f \in Frame, Push(t, f)
  PROVE  StackType' /\ Begun(t, f)
<1> DEFINE s == stack[t]
           r == Append(s, f)
<1>1. s \in Seq(Frame) /\ Len(s) \in Nat /\ Depth(t) = Len(s)
  BY DEF StackType, Depth
<1>2. /\ r \in Seq(Frame) /\ Len(r) = Len(s) + 1 /\ r[Len(s) + 1] = f
      /\ \A j \in 1..Len(s) : r[j] = s[j]
  BY <1>1, AppendProperties
<1>3. stack' = [stack EXCEPT ![t] = r]
  BY DEF Push
<1> HIDE DEF r
<1>4. stack' \in [Threads -> Seq(Frame)] /\ stack'[t] = r /\ OthersStay(t)
  BY <1>2, <1>3 DEF StackType, OthersStay
<1> QED
  BY <1>1, <1>2, <1>4 DEF StackType, Begun, Depth, Top

LEMMA Ends ==
  ASSUME StackType, NEW t \in Threads, Depth(t) > 0,
         stack' = [stack EXCEPT ![t] = SubSeq(@, 1, Depth(t) - 1)]
  PROVE  StackType' /\ Ended(t)
<1> DEFINE s == stack[t]
           r == SubSeq(s, 1, Len(s) - 1)
<1>1. s \in Seq(Frame) /\ Len(s) \in 1..Len(s) /\ Depth(t) = Len(s)
  BY DEF StackType, Depth
<1>2. /\ r \in Seq(Frame) /\ Len(r) = Len(s) - 1
      /\ \A j \in 1..Len(s) : j < Len(s) => r[j] = s[j]
  BY <1>1
<1>3. stack' = [stack EXCEPT ![t] = r]
  BY <1>1
<1> HIDE DEF r
<1>4. stack' \in [Threads -> Seq(Frame)] /\ stack'[t] = r /\ OthersStay(t)
  BY <1>2, <1>3 DEF StackType, OthersStay
<1> QED
  BY <1>1, <1>2, <1>4 DEF StackType, Ended, Depth

Pcs == {"fetch", "clear", "free", "shrunk", "next", "pfp", "box", "setkey",
        "grow", "grown", "write", "count", "paint", "painting"}

LEMMA FrameFields ==
  ASSUME NEW f \in Frame
  PROVE  /\ f.todo \in Seq(Nat) /\ f.i \in Nat /\ f.n \in Nat /\ f.pc \in Pcs
         /\ f.fetched \in BOOLEAN
         /\ \A pc \in Pcs : [f EXCEPT !.pc = pc] \in Frame
BY DEF Frame, Pcs

LEMMA Goes ==
  ASSUME TypeOK, NEW t \in Threads, NEW pc \in Pcs, Depth(t) > 0, Goto(t, pc)
  PROVE  StackType' /\ Turned(t, [Top(t) EXCEPT !.pc = pc])
<1>1. StackType /\ Top(t) \in Frame
  BY TypeStack
<1>2. stack' = [stack EXCEPT ![t][Depth(t)] = [Top(t) EXCEPT !.pc = pc]]
  BY DEF Goto, Top
<1> QED
  BY <1>1, <1>2, FrameFields, Turns

LEMMA NewHandler ==
  ASSUME NEW pc \in Pcs, NEW todo \in Seq(Nat)
  PROVE  Handler(pc, todo) \in Frame
BY DEF Handler, Frame, Pcs

-----------------------------------------------------------------------------
(* The messages that handlers have still to insert.                         *)

\* Each handler that was there keeps its messages, and a new one has none.
TodosStay ==
  \A t \in Threads : \A k \in 1..Depth(t)' :
    \/ k \in 1..Depth(t) /\ Todo(t, k)' = Todo(t, k)
    \/ Todo(t, k)' = <<>>

\* Suspended handlers show a box, and whoever needs a message has one.
PcsFit ==
  \A t \in Threads : \A k \in 1..Depth(t) :
    /\ k < Depth(t) => stack[t][k].pc = "box"
    /\ stack[t][k].pc \in Busy => Todo(t, k) # <<>>

LEMMA Fits == StackInv => PcsFit
BY DEF StackInv, PcsFit

LEMMA OneOwner ==
  ASSUME StackInv, NEW t \in Threads, NEW k \in 1..Depth(t), NEW i \in 1..Len(Todo(t, k)),
         NEW u \in Threads, NEW l \in 1..Depth(u), NEW j \in 1..Len(Todo(u, l)),
         Todo(t, k)[i] = Todo(u, l)[j]
  PROVE  t = u /\ k = l /\ i = j
BY DEF StackInv

LEMMA StackKept ==
  ASSUME TypeOK, StackInv, TodosStay, PcsFit', uimsgcnt' <= uimsgcnt, past' = past,
         uimsgcnt' \in Nat, Len(messages') \in Nat, Len(messages') >= Len(messages)
  PROVE  StackInv'
<1>1. Len(messages) \in Nat /\ uimsgcnt \in Nat
  BY DEF TypeOK
<1>2. Cardinality(past) \in Nat
  <2>1. IsFiniteSet(1..Len(messages)) /\ past \subseteq 1..Len(messages)
    BY <1>1, FS_Interval DEF StackInv
  <2> QED
    BY <2>1, FS_Subset, FS_CardinalityType
<1>3. past' \subseteq 1..Len(messages') /\ uimsgcnt' <= Cardinality(past')
  <2>1. past \subseteq 1..Len(messages) /\ uimsgcnt <= Cardinality(past)
    BY DEF StackInv
  <2> QED
    BY <1>1, <1>2, <2>1
<1>4. ASSUME NEW t \in Threads, NEW k \in 1..Depth(t)', NEW i \in 1..Len(Todo(t, k)')
      PROVE  /\ Todo(t, k)'[i] \in 1..Len(messages') /\ Todo(t, k)'[i] \notin past'
             /\ \A u \in Threads : \A l \in 1..Depth(u)' : \A j \in 1..Len(Todo(u, l)') :
                  Todo(t, k)'[i] = Todo(u, l)'[j] => t = u /\ k = l /\ i = j
  <2>1. k \in 1..Depth(t) /\ Todo(t, k)' = Todo(t, k) /\ i \in 1..Len(Todo(t, k))
    BY <1>4 DEF TodosStay
  <2>2. Todo(t, k)[i] \in 1..Len(messages) /\ Todo(t, k)[i] \notin past
    BY <2>1 DEF StackInv
  <2>3. Todo(t, k)[i] \in 1..Len(messages')
    BY <1>1, <2>2
  <2>4. ASSUME NEW u \in Threads, NEW l \in 1..Depth(u)', NEW j \in 1..Len(Todo(u, l)'),
               Todo(t, k)'[i] = Todo(u, l)'[j]
        PROVE  t = u /\ k = l /\ i = j
    <3>1. l \in 1..Depth(u) /\ Todo(u, l)' = Todo(u, l) /\ j \in 1..Len(Todo(u, l))
      BY <2>4 DEF TodosStay
    <3> QED
      BY <2>1, <2>4, <3>1 DEF StackInv
  <2> QED
    BY <2>1, <2>2, <2>3, <2>4
<1> QED
  BY <1>3, <1>4 DEF StackInv, PcsFit

\* The three kinds of steps keep the shape of the stacks.
LEMMA TurnedFits ==
  ASSUME TypeOK, StackInv, NEW t \in Threads, NEW f \in Frame, Turned(t, f),
         f.pc \in Busy => f.todo # <<>>
  PROVE  /\ PcsFit'
         /\ f.todo = Top(t).todo \/ f.todo = <<>> => TodosStay
<1>1. \A u \in Threads : Depth(u) \in Nat
  BY TypeStack
<1>2. ASSUME NEW u \in Threads, NEW k \in 1..Depth(u)'
      PROVE  k \in 1..Depth(u) /\ stack'[u][k] = IF u = t /\ k = Depth(t) THEN f ELSE stack[u][k]
  BY <1>1, <1>2 DEF Turned, OthersStay, Depth, Top
<1>3. \A u \in Threads : Depth(u)' = Depth(u)
  BY DEF Turned, OthersStay, Depth
<1>4. PcsFit'
  <2> SUFFICES ASSUME NEW u \in Threads, NEW k \in 1..Depth(u)'
               PROVE  /\ k < Depth(u)' => stack'[u][k].pc = "box"
                      /\ stack'[u][k].pc \in Busy => Todo(u, k)' # <<>>
    BY DEF PcsFit
  <2>1. CASE u = t /\ k = Depth(t)
    <3>1. stack'[u][k] = f /\ ~(k < Depth(u)')
      BY <1>1, <1>2, <1>3, <2>1
    <3>2. Todo(u, k)' = f.todo /\ stack'[u][k].pc = f.pc
      BY <3>1 DEF Todo
    <3> QED
      BY <3>1, <3>2
  <2>2. CASE ~(u = t /\ k = Depth(t))
    <3>1. k \in 1..Depth(u) /\ stack'[u][k] = stack[u][k] /\ Depth(u)' = Depth(u)
      BY <1>2, <1>3, <2>2
    <3>2. Todo(u, k)' = Todo(u, k) /\ stack'[u][k].pc = stack[u][k].pc
      BY <3>1 DEF Todo
    <3> QED
      BY <3>1, <3>2, Fits DEF PcsFit
  <2> QED
    BY <2>1, <2>2
<1>5. f.todo = Top(t).todo \/ f.todo = <<>> => TodosStay
  BY <1>2 DEF TodosStay, Todo, Top
<1> QED
  BY <1>4, <1>5

LEMMA BegunFits ==
  ASSUME TypeOK, StackInv, NEW t \in Threads, NEW f \in Frame, Begun(t, f),
         Depth(t) > 0 => Top(t).pc = "box", f.pc \in Busy => f.todo # <<>>
  PROVE  PcsFit' /\ (f.todo = <<>> => TodosStay)
<1>1. \A u \in Threads : Depth(u) \in Nat
  BY TypeStack
<1>2. ASSUME NEW u \in Threads, NEW k \in 1..Depth(u)'
      PROVE  IF u = t /\ k = Depth(t) + 1 THEN stack'[u][k] = f
             ELSE k \in 1..Depth(u) /\ stack'[u][k] = stack[u][k]
  BY <1>1, <1>2 DEF Begun, OthersStay, Depth, Top
<1>3. PcsFit'
  <2> SUFFICES ASSUME NEW u \in Threads, NEW k \in 1..Depth(u)'
               PROVE  /\ k < Depth(u)' => stack'[u][k].pc = "box"
                      /\ stack'[u][k].pc \in Busy => Todo(u, k)' # <<>>
    BY DEF PcsFit
  <2>1. CASE u = t /\ k = Depth(t) + 1
    <3>1. stack'[u][k] = f /\ ~(k < Depth(u)')
      BY <1>1, <1>2, <2>1 DEF Begun
    <3>2. Todo(u, k)' = f.todo /\ stack'[u][k].pc = f.pc
      BY <3>1 DEF Todo
    <3> QED
      BY <3>1, <3>2
  <2>2. CASE u = t /\ k # Depth(t) + 1
    <3>1. k \in 1..Depth(t) /\ stack'[t][k] = stack[t][k]
      BY <1>2, <2>2
    <3>2. k = Depth(t) => stack[t][k].pc = "box"
      BY <1>1, <3>1 DEF Top
    <3>3. k < Depth(t) => stack[t][k].pc = "box"
      BY <3>1 DEF StackInv
    <3>4. Todo(t, k)' = Todo(t, k) /\ stack'[t][k].pc = stack[t][k].pc
      BY <3>1 DEF Todo
    <3> QED
      BY <1>1, <2>2, <3>1, <3>2, <3>3, <3>4, Fits DEF PcsFit
  <2>3. CASE u # t
    <3>1. Depth(u)' = Depth(u) /\ k \in 1..Depth(u) /\ stack'[u][k] = stack[u][k]
      BY <1>2, <2>3 DEF Begun, OthersStay, Depth
    <3>2. Todo(u, k)' = Todo(u, k) /\ stack'[u][k].pc = stack[u][k].pc
      BY <3>1 DEF Todo
    <3> QED
      BY <3>1, <3>2, Fits DEF PcsFit
  <2> QED
    BY <2>1, <2>2, <2>3
<1>4. f.todo = <<>> => TodosStay
  <2> SUFFICES ASSUME f.todo = <<>>, NEW u \in Threads, NEW k \in 1..Depth(u)'
               PROVE  \/ k \in 1..Depth(u) /\ Todo(u, k)' = Todo(u, k)
                      \/ Todo(u, k)' = <<>>
    BY DEF TodosStay
  <2> QED
    BY <1>2 DEF Todo
<1> QED
  BY <1>3, <1>4

LEMMA EndedFits ==
  ASSUME TypeOK, StackInv, NEW t \in Threads, Ended(t)
  PROVE  PcsFit' /\ TodosStay /\ (Depth(t)' > 0 => Top(t)'.pc = "box")
<1>1. \A u \in Threads : Depth(u) \in Nat
  BY TypeStack
<1>2. ASSUME NEW u \in Threads, NEW k \in 1..Depth(u)'
      PROVE  k \in 1..Depth(u) /\ stack'[u][k] = stack[u][k] /\ (k < Depth(u)' => k < Depth(u))
  BY <1>1, <1>2 DEF Ended, OthersStay, Depth
<1>3. PcsFit'
  BY <1>2 DEF PcsFit, StackInv, Todo
<1>4. TodosStay
  BY <1>2 DEF TodosStay, Todo
<1>5. Depth(t)' > 0 => Top(t)'.pc = "box"
  <2> SUFFICES ASSUME Depth(t)' > 0 PROVE Top(t)'.pc = "box"
    OBVIOUS
  <2> DEFINE d == Depth(t)'
  <2>1. d \in 1..Depth(t) /\ d < Depth(t)
    BY <1>1 DEF Ended
  <2>2. stack'[t][d] = stack[t][d]
    BY <2>1 DEF Ended
  <2>3. stack[t][d].pc = "box"
    BY <2>1 DEF StackInv
  <2> QED
    BY <2>2, <2>3 DEF Top
<1> QED
  BY <1>3, <1>4, <1>5

-----------------------------------------------------------------------------
(* Two threads that keep apart.                                             *)

\* The last conjunct of Next, and its first.
Rule ==
  /\ ~wild
  /\ shared' = (shared \/ (\A t \in Threads : Using(t))' \/ (\A t \in Threads : Keying(t))')

LEMMA Sharing ==
  ASSUME TypeOK, Rule, ~shared'
  PROVE  ~shared /\ Apart'
<1>1. ~shared /\ ~(\A t \in Threads : Using(t))' /\ ~(\A t \in Threads : Keying(t))'
  BY Zenon DEF Rule
<1> QED
  BY <1>1, Zenon DEF Apart, Threads

LEMMA OtherIs ==
  ASSUME NEW t \in Threads
  PROVE  Other(t) \in Threads /\ Other(t) # t
<1>1. \E s \in Threads : s # t
  BY ThreadsAssumption DEF Threads
<1> QED
  BY <1>1, Zenon DEF Other

LEMMA Alone ==
  ASSUME Apart, NEW t \in Threads, Using(t)
  PROVE  /\ \A u \in Threads : u # t => ~Using(u)
         /\ ~Moving(t)
<1>0. t = Window \/ t = Gateway
  BY DEF Threads
<1>1. ASSUME NEW u \in Threads, u # t PROVE ~Using(u)
  <2>1. (t = Window /\ u = Gateway) \/ (t = Gateway /\ u = Window)
    BY <1>0, <1>1 DEF Threads
  <2> QED
    BY <2>1 DEF Apart
<1>2. Other(t) \in Threads /\ Other(t) # t
  BY OtherIs
<1>3. \A u \in Threads : At(u, "grown") \/ At(u, "shrunk") => Using(u)
  BY DEF At, Using
<1> QED
  BY <1>1, <1>2, <1>3, Zenon DEF Moving

\* Steps at which a handler relies on what it knows of the array.
Inside == {"free", "shrunk", "grown", "write", "count", "painting"}

Resting(t) == Depth(t) > 0 => Top(t).pc \notin Inside

Message == [user : Users, live : BOOLEAN]

\* What is parsed stays.
MessagesGrow ==
  /\ Len(messages') \in Nat /\ Len(messages') >= Len(messages)
  /\ \A m \in 1..Len(messages) : messages'[m] = messages[m]

\* The picture of a message not yet inserted is set.
KeySet(m) ==
  /\ m \in keys'[messages[m].user]
  /\ \A v \in Users : v # messages[m].user => keys'[v] = keys[v]
  /\ fresh' = fresh \cup {m}

KeysStep ==
  \/ shared
  \/ keys' = keys /\ fresh' = fresh
  \/ \E m \in 1..Len(messages) : m \notin past /\ KeySet(m)

LEMMA FreshKept ==
  ASSUME ~shared, TypeOK, KeyInv, MessagesGrow, KeysStep, freed' = freed, freed \subseteq past
  PROVE  /\ fresh' \subseteq 1..Len(messages') /\ fresh' \cap freed' = {}
         /\ \A m \in fresh' : keys'[messages'[m].user] \cap fresh' # {}
         /\ \A m \in past : m \in fresh' => m \in fresh
<1>1. Len(messages) \in Nat /\ \A m \in 1..Len(messages) : messages[m].user \in Users
  <2>1. messages \in Seq(Message)
    BY Zenon DEF TypeOK, Message
  <2>2. \A m \in 1..Len(messages) : messages[m] \in Message
    BY <2>1
  <2> QED
    BY <2>1, <2>2 DEF Message
<1>2. \A m \in 1..Len(messages) : m \in 1..Len(messages') /\ messages'[m] = messages[m]
  BY <1>1 DEF MessagesGrow
<1>3. CASE keys' = keys /\ fresh' = fresh
  BY <1>2, <1>3 DEF KeyInv
<1>4. CASE \E m \in 1..Len(messages) : m \notin past /\ KeySet(m)
  <2>1. PICK m \in 1..Len(messages) : m \notin past /\ KeySet(m)
    BY <1>4
  <2>2. fresh' = fresh \cup {m}
    BY <2>1 DEF KeySet
  <2>3. fresh' \subseteq 1..Len(messages') /\ fresh' \cap freed' = {}
    BY <1>2, <2>1, <2>2 DEF KeyInv
  <2>4. ASSUME NEW x \in fresh' PROVE keys'[messages'[x].user] \cap fresh' # {}
    <3>1. x \in 1..Len(messages) /\ messages'[x] = messages[x] /\ messages[x].user \in Users
      BY <1>1, <1>2, <2>1, <2>2 DEF KeyInv
    <3>2. CASE messages[x].user = messages[m].user
      BY <2>1, <2>2, <3>1, <3>2 DEF KeySet
    <3>3. CASE messages[x].user # messages[m].user
      <4>1. x \in fresh /\ keys'[messages[x].user] = keys[messages[x].user]
        BY <2>1, <2>2, <3>1, <3>3 DEF KeySet
      <4> QED
        BY <2>2, <3>1, <4>1 DEF KeyInv
    <3> QED
      BY <3>2, <3>3
  <2>5. \A x \in past : x \in fresh' => x \in fresh
    BY <2>1, <2>2
  <2> QED
    BY <2>3, <2>4, <2>5
<1> QED
  BY <1>3, <1>4 DEF KeysStep

\* A step that leaves the array alone, of a thread t that is outside afterwards.
LEMMA CalmKept ==
  ASSUME TypeOK, Inv, Rule, ~shared', TypeOK', NEW t \in Threads, OthersStay(t),
         Resting(t)', ~At(t, "free"), UNCHANGED <<array, freed>>, MessagesGrow, KeysStep
  PROVE  CalmInv'
<1>1. UNCHANGED <<uimsgs, uimsgcnt, past, freed>>
  BY DEF array
<1>2. ~shared /\ Apart' /\ CalmInv
  BY Sharing DEF Inv
<1>3. ArrayInv /\ FrameInv /\ KeyInv
  BY <1>2 DEF CalmInv
<1>4. \A u \in Threads : u # t => Depth(u)' = Depth(u) /\ Top(u)' = Top(u)
  BY DEF OthersStay, Depth, Top
<1>5. \A u \in Threads, pc \in Inside : At(u, pc)' => u # t /\ At(u, pc) /\ Top(u)' = Top(u)
  BY <1>4 DEF Resting, At
<1>6. Live' = Live
  <2>1. At(Window, "free")' <=> At(Window, "free")
    BY <1>4 DEF Resting, At, Inside, Threads
  <2>2. At(Window, "free") => Top(Window)' = Top(Window)
    BY <1>4 DEF Threads
  <2> QED
    BY <1>1, <2>1, <2>2 DEF Live
<1>7. ArrayInv'
  BY <1>1, <1>2, <1>3, <1>6 DEF ArrayInv
<1>8. FrameInv'
  <2>1. At(Window, "free")' \/ At(Window, "shrunk")' => uimsgcnt' = 0
    BY <1>1, <1>3, <1>5 DEF FrameInv, Inside, Threads
  <2>2. At(Window, "painting")' => Top(Window)'.n = uimsgcnt'
    BY <1>1, <1>3, <1>5 DEF FrameInv, Inside, Threads
  <2>3. ASSUME NEW u \in Threads
        PROVE  /\ At(u, "grown")' => Top(u)'.n = uimsgcnt' + 1
               /\ At(u, "write")' \/ At(u, "count")' => Len(uimsgs') >= uimsgcnt' + 1
               /\ At(u, "count")' => uimsgs'[uimsgcnt' + 1] = Head(Top(u)'.todo)
    BY <1>1, <1>3, <1>5 DEF FrameInv, Inside
  <2> QED
    BY <2>1, <2>2, <2>3 DEF FrameInv
<1>9. KeyInv'
  <2>1. /\ fresh' \subseteq 1..Len(messages') /\ fresh' \cap freed' = {}
        /\ \A m \in fresh' : keys'[messages'[m].user] \cap fresh' # {}
        /\ \A m \in past : m \in fresh' => m \in fresh
    BY <1>1, <1>2, <1>3, FreshKept DEF ArrayInv
  <2>2. At(Window, "free")' => \A j \in Live' : uimsgs'[j] \notin fresh'
    BY <1>1, <1>3, <1>5, <1>6, <2>1 DEF KeyInv, ArrayInv, Inside, Threads
  <2> QED
    BY <2>1, <2>2 DEF KeyInv
<1> QED
  BY <1>7, <1>8, <1>9 DEF CalmInv

-----------------------------------------------------------------------------
(* The steps that leave the array alone.                                    *)

LEMMA Aside ==
  ASSUME Inv, Rule, TypeOK', StackInv', NEW t \in Threads, OthersStay(t),
         Resting(t)', ~At(t, "free"), UNCHANGED <<array, freed, wild>>, MessagesGrow, KeysStep
  PROVE  Inv'
<1>1. ~shared' => CalmInv'
  BY CalmKept DEF Inv
<1>2. ~wild'
  BY DEF Rule
<1>3. LoopInv'
  BY DEF Inv, LoopInv, At, Top, Depth, OthersStay, Resting, Inside, Threads
<1> QED
  BY <1>1, <1>2, <1>3 DEF Inv, WildHasCause

LEMMA Quiet ==
  ASSUME TypeOK, UNCHANGED <<messages, keys, fresh>>
  PROVE  MessagesGrow /\ KeysStep /\ Len(messages) \in Nat
BY DEF TypeOK, MessagesGrow, KeysStep

\* What follows the use of an entry that is not there is not modelled.
LEMMA WildStep ==
  ASSUME Inv, Rule, Wild, ~shared => FreesLive
  PROVE  Inv'
<1>1. UNCHANGED <<uimsgs, uimsgcnt, past, stack, messages, freed, keys, selects, fresh>> /\ wild'
  BY DEF Wild, array
<1>2. \A t \in Threads : (Using(t)' <=> Using(t)) /\ (Keying(t)' <=> Keying(t))
  BY <1>1 DEF Using, Keying, Depth, Top
<1>3. shared' <=> shared
  <2>1. ~shared => ~(\A t \in Threads : Using(t)) /\ ~(\A t \in Threads : Keying(t))
    BY Zenon DEF Inv, CalmInv, ArrayInv, Apart, Threads
  <2>2. shared' <=> shared \/ (\A t \in Threads : Using(t)) \/ (\A t \in Threads : Keying(t))
    BY <1>2, Zenon DEF Rule
  <2> QED
    BY <2>1, <2>2, Zenon
<1>4. TypeOK'
  <2>1. wild' \in BOOLEAN /\ shared' \in BOOLEAN
    BY <1>1, Zenon DEF Rule, Wild
  <2> QED
    BY <1>1, <2>1 DEF Inv, TypeOK
<1>5. StackInv'
  BY <1>1 DEF Inv, StackInv, Depth, Todo
<1>6. CalmInv => CalmInv'
  <2>1. \A t \in Threads : Depth(t)' = Depth(t) /\ Top(t)' = Top(t)
    BY <1>1 DEF Depth, Top
  <2>2. Window \in Threads /\ Gateway \in Threads
    BY DEF Threads
  <2>3. Live' = Live
    BY <1>1, <2>1, <2>2 DEF Live, At
  <2>4. Apart => Apart'
    BY <1>2, <2>2 DEF Apart
  <2>5. ArrayInv => ArrayInv'
    BY <1>1, <2>3, <2>4 DEF ArrayInv
  <2>6. FrameInv => FrameInv'
    BY <1>1, <2>1, <2>2 DEF FrameInv, At
  <2>7. KeyInv => KeyInv'
    BY <1>1, <2>1, <2>2, <2>3 DEF KeyInv, At
  <2> QED
    BY <2>5, <2>6, <2>7 DEF CalmInv
<1>7. FreesLive => FreesLive'
  BY <1>1 DEF FreesLive, At, Top, Depth, There, Moving
<1>8. LoopInv'
  BY <1>1 DEF Inv, LoopInv, At, Top, Depth
<1> QED
  BY <1>3, <1>4, <1>5, <1>6, <1>7, <1>8 DEF Inv, WildHasCause

LEMMA SharedType ==
  ASSUME TypeOK, Rule
  PROVE  shared' \in BOOLEAN
BY Zenon DEF TypeOK, Rule

LEMMA SelectKeepsInv ==
  ASSUME Inv, Rule, Select
  PROVE  Inv'
<1>1. /\ InLoop /\ selects < MaxSelects /\ selects' = selects + 1
      /\ UNCHANGED <<array, messages, freed, keys, wild, fresh>>
  BY DEF Select
<1>2. PICK pc \in {"fetch", "clear"} : Push(Window, Handler(pc, <<>>))
  BY DEF Select
<1> DEFINE f == Handler(pc, <<>>)
<1>3. UNCHANGED <<uimsgs, uimsgcnt, past>>
  BY <1>1 DEF array
<1>4. TypeOK /\ StackInv
  BY DEF Inv
<1>5. f \in Frame /\ f.todo = <<>> /\ f.pc = pc
  <2>1. pc \in Pcs /\ <<>> \in Seq(Nat)
    BY DEF Pcs
  <2> QED
    BY <2>1, NewHandler DEF Handler
<1> HIDE DEF f
<1>6. StackType' /\ Begun(Window, f)
  BY <1>2, <1>4, <1>5, TypeStack, Begins DEF Threads, f
<1>7. PcsFit' /\ TodosStay
  BY <1>1, <1>4, <1>5, <1>6, BegunFits DEF InLoop, Threads, Busy
<1>8. TypeOK'
  <2>1. selects' \in 0..MaxSelects
    BY <1>1, <1>4, BoundsAssumption DEF TypeOK
  <2> QED
    BY <1>1, <1>3, <1>4, <1>6, <2>1, SharedType DEF TypeOK, StackType
<1>9. MessagesGrow /\ KeysStep /\ Len(messages) \in Nat /\ uimsgcnt \in Nat
  BY <1>1, <1>4, Quiet DEF TypeOK
<1>10. StackInv'
  BY <1>1, <1>3, <1>4, <1>7, <1>9, StackKept
<1>11. Resting(Window)' /\ ~At(Window, "free") /\ OthersStay(Window)
  BY <1>1, <1>5, <1>6 DEF Resting, Inside, Begun, InLoop, At
<1> QED
  BY <1>1, <1>8, <1>9, <1>10, <1>11, Aside DEF Threads

\* A handler goes from a step outside to another one outside.
LEMMA MoveKeepsInv ==
  ASSUME Inv, Rule, NEW t \in Threads, NEW pc \in Pcs \ Inside, Depth(t) > 0, ~At(t, "free"),
         Goto(t, pc), pc \in Busy => Top(t).todo # <<>>,
         UNCHANGED <<array, messages, freed, rest>>, KeysStep,
         keys' \in [Users -> SUBSET (1..MaxMessages)], fresh' \subseteq 1..MaxMessages
  PROVE  Inv'
<1> DEFINE f == [Top(t) EXCEPT !.pc = pc]
<1>1. UNCHANGED <<uimsgs, uimsgcnt, past, messages, freed, selects, wild>>
  BY DEF array, rest
<1>2. TypeOK /\ StackInv /\ Top(t) \in Frame
  BY TypeStack DEF Inv
<1>3. f \in Frame /\ f.todo = Top(t).todo /\ f.pc = pc
  BY <1>2, FrameFields DEF Frame
<1>4. StackType' /\ Turned(t, f)
  BY <1>2, Goes
<1> HIDE DEF f
<1>5. PcsFit' /\ TodosStay
  BY <1>2, <1>3, <1>4, TurnedFits
<1>6. TypeOK'
  BY <1>1, <1>2, <1>4, SharedType DEF TypeOK, StackType
<1>7. MessagesGrow /\ Len(messages) \in Nat /\ uimsgcnt \in Nat
  BY <1>1, <1>2 DEF MessagesGrow, TypeOK
<1>8. StackInv'
  BY <1>1, <1>2, <1>5, <1>7, StackKept
<1>9. Resting(t)' /\ OthersStay(t)
  BY <1>3, <1>4 DEF Resting, Turned
<1> QED
  BY <1>1, <1>6, <1>7, <1>8, <1>9, Aside

LEMMA NextMessageKeepsInv ==
  ASSUME Inv, Rule, NEW t \in Threads, NextMessage(t)
  PROVE  Inv'
<1>1. /\ At(t, "next") /\ UNCHANGED <<array, messages, freed, keys, rest, fresh>>
  BY DEF NextMessage
<1>2. Depth(t) > 0 /\ ~At(t, "free") /\ TypeOK /\ StackInv
  BY <1>1 DEF At, Inv
<1>3. MessagesGrow /\ KeysStep /\ Len(messages) \in Nat /\ uimsgcnt \in Nat
  BY <1>1, <1>2, Quiet DEF TypeOK
<1>4. CASE Top(t).todo # <<>>
  <2>1. Goto(t, "pfp")
    BY <1>4 DEF NextMessage
  <2>2. keys' \in [Users -> SUBSET (1..MaxMessages)] /\ fresh' \subseteq 1..MaxMessages
    BY <1>1, <1>2 DEF TypeOK
  <2>3. "pfp" \in Pcs \ Inside
    BY DEF Pcs, Inside
  <2> QED
    BY <1>1, <1>2, <1>3, <1>4, <2>1, <2>2, <2>3, MoveKeepsInv
<1>5. CASE Top(t).todo = <<>>
  <2>1. StackType' /\ Ended(t)
    BY <1>2, <1>5, TypeStack, Ends DEF NextMessage
  <2>2. PcsFit' /\ TodosStay /\ (Depth(t)' > 0 => Top(t)'.pc = "box")
    BY <1>2, <2>1, EndedFits
  <2>3. UNCHANGED <<uimsgs, uimsgcnt, past, messages, freed, keys, selects, wild, fresh>>
    BY <1>1 DEF array, rest
  <2>4. TypeOK'
    BY <1>2, <2>1, <2>3, SharedType DEF TypeOK, StackType
  <2>5. StackInv'
    BY <1>2, <1>3, <2>2, <2>3, StackKept
  <2>6. Resting(t)' /\ OthersStay(t)
    BY <2>1, <2>2 DEF Resting, Inside, Ended
  <2> QED
    BY <1>1, <1>2, <1>3, <2>3, <2>4, <2>5, <2>6, Aside
<1> QED
  BY <1>4, <1>5

LEMMA TopBusy ==
  ASSUME TypeOK, StackInv, NEW t \in Threads, Depth(t) > 0, Top(t).pc \in Busy
  PROVE  /\ Top(t).todo \in Seq(Nat) /\ Top(t).todo # <<>>
         /\ Len(Top(t).todo) \in Nat \ {0} /\ Head(Top(t).todo) = Top(t).todo[1]
         /\ Head(Top(t).todo) \in 1..Len(messages) /\ Head(Top(t).todo) \notin past
<1>1. Depth(t) \in 1..Depth(t) /\ Top(t) \in Frame
  BY TypeStack
<1>2. Top(t).todo \in Seq(Nat) /\ Top(t).todo # <<>>
  BY <1>1, FrameFields, Fits DEF PcsFit, Todo, Top
<1>3. Len(Top(t).todo) \in Nat \ {0} /\ Head(Top(t).todo) = Top(t).todo[1]
  BY <1>2, EmptySeq
<1>4. Todo(t, Depth(t)) = Top(t).todo /\ 1 \in 1..Len(Top(t).todo)
  BY <1>3 DEF Todo, Top
<1>5. Todo(t, Depth(t))[1] \in 1..Len(messages) /\ Todo(t, Depth(t))[1] \notin past
  BY <1>1, <1>4 DEF StackInv
<1> QED
  BY <1>2, <1>3, <1>4, <1>5

LEMMA PfpKeepsInv ==
  ASSUME Inv, Rule, NEW t \in Threads, SetPfp(t) \/ CloseBox(t)
  PROVE  Inv'
<1>1. Depth(t) > 0 /\ Top(t).pc \in {"pfp", "box"} /\ UNCHANGED <<array, messages, freed, keys, rest, fresh>>
  BY DEF SetPfp, CloseBox, At
<1>2. TypeOK /\ StackInv /\ ~At(t, "free")
  BY <1>1 DEF Inv, At
<1>3. PICK pc \in {"setkey", "box", "grow"} : Goto(t, pc)
  BY DEF SetPfp, CloseBox
<1>4. KeysStep /\ keys' \in [Users -> SUBSET (1..MaxMessages)] /\ fresh' \subseteq 1..MaxMessages
  BY <1>1, <1>2 DEF KeysStep, TypeOK
<1>5. Top(t).todo # <<>>
  BY <1>1, <1>2, TopBusy DEF Busy
<1>6. pc \in Pcs \ Inside
  BY DEF Pcs, Inside
<1> QED
  BY <1>1, <1>2, <1>3, <1>4, <1>5, <1>6, MoveKeepsInv

\* hashmap_set for the message at hand: its author has the new key, and the
\* other keys are as they were, unless the other thread is in the map.
LEMMA SetKeyIs ==
  ASSUME TypeOK, StackInv, NEW t \in Threads, Depth(t) > 0, Top(t).pc = "setkey",
         NEW m \in Nat, m = Head(Top(t).todo), fresh' = fresh \cup {m},
         \/ \E set \in Replaced(m, messages[m].user) :
              keys' = [keys EXCEPT ![messages[m].user] = set]
         \/ shared /\ keys' = keys
  PROVE  /\ Top(t).todo # <<>>
         /\ KeysStep /\ keys' \in [Users -> SUBSET (1..MaxMessages)] /\ fresh' \subseteq 1..MaxMessages
<1> DEFINE u == messages[m].user
<1>1. Top(t).todo # <<>> /\ m \in 1..Len(messages) /\ m \notin past
  BY TopBusy DEF Busy
<1>2. Len(messages) \in Nat /\ Len(messages) <= MaxMessages /\ messages[m] \in Message
  <2>1. messages \in Seq(Message)
    BY Zenon DEF TypeOK, Message
  <2> QED
    BY <1>1, <2>1 DEF TypeOK
<1>3. u \in Users /\ m \in 1..MaxMessages
  BY <1>1, <1>2, BoundsAssumption DEF Message
<1>4. keys \in [Users -> SUBSET (1..MaxMessages)] /\ fresh \subseteq 1..MaxMessages
  BY DEF TypeOK
<1> HIDE DEF u
<1>5. CASE shared /\ keys' = keys
  BY <1>1, <1>3, <1>4, <1>5 DEF KeysStep
<1>6. ASSUME NEW set \in Replaced(m, u), keys' = [keys EXCEPT ![u] = set]
      PROVE  /\ keys' \in [Users -> SUBSET (1..MaxMessages)] /\ fresh' \subseteq 1..MaxMessages
             /\ KeysStep
  <2>1. m \in set /\ set \in SUBSET (1..MaxMessages)
    <3>1. CASE \E old \in keys[u] : set = (keys[u] \ {old}) \cup {m}
      BY <1>3, <1>4, <3>1
    <3>2. CASE set = keys[u] \cup {m}
      BY <1>3, <1>4, <3>2
    <3> QED
      BY <3>1, <3>2 DEF Replaced
  <2>2. /\ keys' \in [Users -> SUBSET (1..MaxMessages)]
        /\ m \in keys'[u] /\ \A v \in Users : v # u => keys'[v] = keys[v]
    BY <1>3, <1>4, <1>6, <2>1
  <2>3. KeySet(m)
    BY <2>2 DEF KeySet, u
  <2> QED
    BY <1>1, <1>3, <1>4, <2>2, <2>3 DEF KeysStep
<1> QED
  BY <1>1, <1>5, <1>6 DEF u

\* Only two threads that do not keep apart meet in the map.
LEMMA Meeting ==
  ASSUME Inv, NEW t \in Threads, Keying(t), Keying(Other(t))
  PROVE  shared
<1>1. Other(t) \in Threads /\ Other(t) # t
  BY OtherIs
<1>2. (t = Window /\ Other(t) = Gateway) \/ (t = Gateway /\ Other(t) = Window)
  BY <1>1 DEF Threads
<1>3. ~Apart
  BY <1>2 DEF Apart
<1> QED
  BY <1>3 DEF Inv, CalmInv, ArrayInv

LEMMA SetKeyKeepsInv ==
  ASSUME Inv, Rule, NEW t \in Threads, SetKey(t)
  PROVE  Inv'
<1>1. Depth(t) > 0 /\ Top(t).pc = "setkey" /\ Keying(t)
  BY DEF SetKey, At, Keying
<1>2. TypeOK /\ StackInv /\ ~At(t, "free")
  BY <1>1 DEF Inv, At
<1>3. Keying(Other(t)) => shared
  BY <1>1, Meeting
<1>4. CASE Keying(Other(t)) /\ Wild
  BY <1>3, <1>4, WildStep
<1>5. CASE /\ LET m == Head(Top(t).todo)  u == messages[m].user
              IN  /\ \/ \E set \in Replaced(m, u) : keys' = [keys EXCEPT ![u] = set]
                     \/ Keying(Other(t)) /\ keys' = keys
                  /\ fresh' = fresh \cup {m}
           /\ Goto(t, "grow")
           /\ UNCHANGED <<array, messages, freed, rest>>
  <2> DEFINE m == Head(Top(t).todo)
  <2>1. m \in Nat
    BY <1>1, <1>2, TopBusy DEF Busy
  <2>2. /\ fresh' = fresh \cup {m}
        /\ \/ \E set \in Replaced(m, messages[m].user) :
                  keys' = [keys EXCEPT ![messages[m].user] = set]
           \/ shared /\ keys' = keys
    BY <1>3, <1>5
  <2> HIDE DEF m
  <2>3. /\ Top(t).todo # <<>>
        /\ KeysStep /\ keys' \in [Users -> SUBSET (1..MaxMessages)]
        /\ fresh' \subseteq 1..MaxMessages
    BY <1>1, <1>2, <2>1, <2>2, SetKeyIs DEF m
  <2>4. "grow" \in Pcs \ Inside
    BY DEF Pcs, Inside
  <2> QED
    BY <1>1, <1>2, <1>5, <2>3, <2>4, MoveKeepsInv
<1> QED
  BY <1>4, <1>5 DEF SetKey

\* While the two threads keep apart, what is painted is there.
LEMMA ReadableWhen ==
  ASSUME TypeOK, CalmInv, NEW n \in Nat, uimsgcnt <= n,
         ~At(Window, "free"), ~Moving(Window)
  PROVE  Readable(n)
<1>1. uimsgcnt \in Nat /\ past \subseteq 1..MaxMessages
  BY DEF TypeOK
<1>2. ASSUME NEW i \in 1..uimsgcnt PROVE There(Window, i)
  <2>1. i \in 1..Len(uimsgs) /\ uimsgs[i] \in past
    BY <1>2 DEF CalmInv, ArrayInv, Live
  <2>2. uimsgs[i] # 0
    BY <1>1, <2>1
  <2> QED
    BY <2>1, <2>2 DEF There
<1> QED
  BY <1>2 DEF Readable

LEMMA PaintedKeepsInv ==
  ASSUME Inv, Rule, PaintEnds \/ PaintLive
  PROVE  Inv'
<1>1. PICK u \in Threads, m \in Nat :
        /\ Depth(u) > 0 /\ Top(u).pc \in {"painting", "paint"}
        /\ \/ Goto(u, "next") /\ UNCHANGED <<array, messages, freed, keys, rest, fresh>>
           \/ Wild /\ (Readable(m) => shared)
        /\ ~shared => Readable(m)
  <2>1. TypeOK /\ (~shared => CalmInv)
    BY DEF Inv
  <2>2. Window \in Threads /\ Gateway \in Threads
    BY DEF Threads
  <2>3. CASE PaintEnds
    <3>1. At(Window, "painting") /\ Depth(Window) > 0 /\ Top(Window).pc = "painting"
      BY <2>3 DEF PaintEnds, At
    <3>2. Top(Window).n \in Nat
      BY <2>1, <2>2, <3>1, TypeStack, FrameFields
    <3>3. ~shared => Readable(Top(Window).n)
      <4> SUFFICES ASSUME ~shared PROVE Readable(Top(Window).n)
        OBVIOUS
      <4>1. CalmInv /\ Using(Window)
        BY <2>1, <3>1 DEF Using
      <4>2. ~Moving(Window)
        BY <2>2, <4>1, Alone DEF CalmInv, ArrayInv
      <4>3. ~At(Window, "free") /\ uimsgcnt <= Top(Window).n
        BY <2>1, <3>1, <4>1 DEF At, CalmInv, FrameInv, TypeOK
      <4> QED
        BY <2>1, <3>2, <4>1, <4>2, <4>3, ReadableWhen
    <3>4. Keying(Gateway) => shared
      <4>1. Keying(Window) /\ Other(Window) = Gateway
        BY <2>2, <3>1, OtherIs DEF Keying, Threads
      <4> QED
        BY <2>2, <4>1, Meeting
    <3> QED
      BY <2>2, <2>3, <3>1, <3>2, <3>3, <3>4 DEF PaintEnds
  <2>4. CASE PaintLive
    <3>1. At(Gateway, "paint") /\ InLoop /\ Depth(Gateway) > 0 /\ Top(Gateway).pc = "paint"
      BY <2>4 DEF PaintLive, At
    <3>2. uimsgcnt \in Nat
      BY <2>1 DEF TypeOK
    <3>3. ~shared => Readable(uimsgcnt)
      <4>1. ~At(Window, "free")
        BY <3>1 DEF InLoop, At
      <4>2. ~Moving(Window)
        <5>1. Other(Window) = Gateway
          BY ThreadsAssumption DEF Other, Threads
        <5> QED
          BY <3>1, <5>1 DEF Moving, At
      <4> QED
        BY <2>1, <3>2, <4>1, <4>2, ReadableWhen
    <3> QED
      BY <2>2, <2>4, <3>1, <3>2, <3>3 DEF PaintLive
  <2> QED
    BY <2>3, <2>4
<1>2. CASE Wild /\ (Readable(m) => shared)
  BY <1>1, <1>2, WildStep
<1>3. CASE Goto(u, "next") /\ UNCHANGED <<array, messages, freed, keys, rest, fresh>>
  <2>1. Goto(u, "next") /\ UNCHANGED <<array, messages, freed, keys, rest, fresh>>
    BY <1>3
  <2>2. TypeOK /\ ~At(u, "free")
    BY <1>1 DEF Inv, At
  <2>3. KeysStep /\ keys' \in [Users -> SUBSET (1..MaxMessages)] /\ fresh' \subseteq 1..MaxMessages
    BY <2>1, <2>2 DEF KeysStep, TypeOK
  <2>4. "next" \in Pcs \ Inside /\ "next" \notin Busy
    BY DEF Pcs, Inside, Busy
  <2> QED
    BY <1>1, <2>1, <2>2, <2>3, <2>4, MoveKeepsInv
<1> QED
  BY <1>1, <1>2, <1>3

-----------------------------------------------------------------------------
(* The steps that bring messages.                                           *)

\* Handler d of thread t gets the messages after those parsed before.
LEMMA StackFresh ==
  ASSUME TypeOK, StackInv, PcsFit', MessagesGrow, UNCHANGED <<uimsgcnt, past>>,
         NEW t \in Threads, NEW d \in Nat,
         \A u \in Threads : \A k \in 1..Depth(u)' :
           (u = t /\ k = d) \/ (k \in 1..Depth(u) /\ Todo(u, k)' = Todo(u, k)),
         \A i \in 1..Len(Todo(t, d)') :
           Todo(t, d)'[i] = Len(messages) + i /\ Len(messages) + i <= Len(messages')
  PROVE  StackInv'
<1>1. Len(messages) \in Nat /\ Len(messages') \in Nat /\ Len(messages') >= Len(messages)
  BY DEF TypeOK, MessagesGrow
<1>2. past' \subseteq 1..Len(messages') /\ uimsgcnt' <= Cardinality(past')
  <2>1. past \subseteq 1..Len(messages) /\ uimsgcnt <= Cardinality(past)
    BY DEF StackInv
  <2> QED
    BY <1>1, <2>1
<1>3. ASSUME NEW u \in Threads, NEW k \in 1..Depth(u)', NEW i \in 1..Len(Todo(u, k)'),
             ~(u = t /\ k = d)
      PROVE  /\ k \in 1..Depth(u) /\ i \in 1..Len(Todo(u, k)) /\ Todo(u, k)'[i] = Todo(u, k)[i]
             /\ Todo(u, k)'[i] \in 1..Len(messages) /\ Todo(u, k)'[i] \notin past
  <2>1. k \in 1..Depth(u) /\ Todo(u, k)' = Todo(u, k)
    BY <1>3
  <2> QED
    BY <1>3, <2>1 DEF StackInv
<1>4. ASSUME NEW i \in 1..Len(Todo(t, d)')
      PROVE  /\ Todo(t, d)'[i] \in 1..Len(messages') /\ Todo(t, d)'[i] \notin 1..Len(messages)
             /\ Todo(t, d)'[i] \notin past
  <2>1. i \in Nat /\ i >= 1
    OBVIOUS
  <2> QED
    BY <1>1, <1>4, <2>1 DEF StackInv
<1>5. ASSUME NEW u \in Threads, NEW k \in 1..Depth(u)', NEW i \in 1..Len(Todo(u, k)')
      PROVE  Todo(u, k)'[i] \in 1..Len(messages') /\ Todo(u, k)'[i] \notin past'
  <2>1. CASE u = t /\ k = d
    BY <1>4, <1>5, <2>1
  <2>2. CASE ~(u = t /\ k = d)
    BY <1>1, <1>3, <1>5, <2>2
  <2> QED
    BY <2>1, <2>2
<1>6. ASSUME NEW u \in Threads, NEW k \in 1..Depth(u)', NEW i \in 1..Len(Todo(u, k)'),
             NEW v \in Threads, NEW l \in 1..Depth(v)', NEW j \in 1..Len(Todo(v, l)'),
             Todo(u, k)'[i] = Todo(v, l)'[j]
      PROVE  u = v /\ k = l /\ i = j
  <2>1. CASE (u = t /\ k = d) /\ (v = t /\ l = d)
    <3>1. Todo(t, d)'[i] = Len(messages) + i /\ Todo(t, d)'[j] = Len(messages) + j
      BY <1>6, <2>1
    <3>2. i \in Nat /\ j \in Nat
      BY <1>6
    <3>3. i = j
      BY <1>1, <1>6, <2>1, <3>1, <3>2
    <3> QED
      BY <2>1, <3>3
  <2>2. CASE (u = t /\ k = d) /\ ~(v = t /\ l = d)
    BY <1>3, <1>4, <1>6, <2>2
  <2>3. CASE ~(u = t /\ k = d) /\ (v = t /\ l = d)
    BY <1>3, <1>4, <1>6, <2>3
  <2>4. CASE ~(u = t /\ k = d) /\ ~(v = t /\ l = d)
    <3>1. /\ k \in 1..Depth(u) /\ i \in 1..Len(Todo(u, k)) /\ Todo(u, k)'[i] = Todo(u, k)[i]
          /\ l \in 1..Depth(v) /\ j \in 1..Len(Todo(v, l)) /\ Todo(v, l)'[j] = Todo(v, l)[j]
      BY <1>3, <1>6, <2>4
    <3>2. Todo(u, k)[i] = Todo(v, l)[j]
      BY <1>6, <3>1
    <3> QED
      BY <3>1, <3>2, OneOwner
  <2> QED
    BY <2>1, <2>2, <2>3, <2>4
<1> QED
  BY <1>2, <1>5, <1>6 DEF StackInv, PcsFit

LEMMA GetHistoryKeepsInv ==
  ASSUME Inv, Rule, GetHistory
  PROVE  Inv'
<1>1. At(Window, "fetch") /\ UNCHANGED <<array, freed, keys, rest, fresh>>
  BY DEF GetHistory
<1>2. PICK len \in 0..(MaxMessages - Len(messages)) :
        \E by \in [1..len -> Users] :
          /\ messages' = messages \o [i \in 1..len |-> [user |-> by[i], live |-> FALSE]]
          /\ stack' = [stack EXCEPT ![Window][Depth(Window)] =
                         [@ EXCEPT !.pc = "clear", !.fetched = TRUE,
                                   !.todo = [i \in 1..len |-> Len(messages) + i]]]
  BY DEF GetHistory
<1>3. PICK by \in [1..len -> Users] :
        /\ messages' = messages \o [i \in 1..len |-> [user |-> by[i], live |-> FALSE]]
        /\ stack' = [stack EXCEPT ![Window][Depth(Window)] =
                       [@ EXCEPT !.pc = "clear", !.fetched = TRUE,
                                 !.todo = [i \in 1..len |-> Len(messages) + i]]]
  BY <1>2
<1> DEFINE new == [i \in 1..len |-> [user |-> by[i], live |-> FALSE]]
           todo == [i \in 1..len |-> Len(messages) + i]
           f == [Top(Window) EXCEPT !.pc = "clear", !.fetched = TRUE, !.todo = todo]
           d == Depth(Window)
<1>4. UNCHANGED <<uimsgs, uimsgcnt, past, freed, keys, selects, wild, fresh>>
  BY <1>1 DEF array, rest
<1>5. TypeOK /\ StackInv /\ d > 0 /\ d \in 1..d /\ Window \in Threads /\ Top(Window) \in Frame
  BY <1>1, TypeStack DEF Inv, At, Threads
<1>6. Len(messages) \in Nat /\ len \in Nat /\ Len(messages) + len <= MaxMessages
  BY <1>5, BoundsAssumption DEF TypeOK
<1>7. messages' \in Seq(Message) /\ Len(messages') = Len(messages) + len /\ MessagesGrow
  <2>1. messages \in Seq(Message)
    BY <1>5, Zenon DEF TypeOK, Message
  <2>2. \A i \in 1..len : new[i] \in Message
    BY DEF Message
  <2>3. new \in Seq(Message) /\ Len(new) = len
    BY <1>6, <2>2
  <2> HIDE DEF new
  <2>4. /\ messages \o new \in Seq(Message) /\ Len(messages \o new) = Len(messages) + len
        /\ \A i \in 1..Len(messages) + Len(new) :
             (messages \o new)[i] = IF i <= Len(messages) THEN messages[i] ELSE new[i - Len(messages)]
    BY <2>1, <2>3, ConcatProperties
  <2>5. messages' = messages \o new
    BY <1>3 DEF new
  <2> QED
    BY <1>6, <2>3, <2>4, <2>5 DEF MessagesGrow
<1>8. todo \in Seq(Nat) /\ Len(todo) = len /\ \A i \in 1..len : todo[i] = Len(messages) + i
  BY <1>6
<1> HIDE DEF todo
<1>9. f \in Frame /\ f.todo = todo /\ f.pc = "clear"
  BY <1>5, <1>8 DEF Frame
<1>10. stack' = [stack EXCEPT ![Window][Depth(Window)] = f]
  BY <1>3 DEF todo, Top
<1> HIDE DEF f
<1>11. StackType' /\ Turned(Window, f)
  BY <1>5, <1>9, <1>10, TypeStack, Turns
<1>12. PcsFit'
  BY <1>5, <1>9, <1>11, TurnedFits DEF Busy
<1>13. TypeOK'
  BY <1>4, <1>5, <1>6, <1>7, <1>11, SharedType DEF TypeOK, StackType, Message
<1>14. StackInv'
  <2>0. PICK e \in Nat : e = Depth(Window)
    BY <1>5
  <2>1. ASSUME NEW u \in Threads, NEW k \in 1..Depth(u)', ~(u = Window /\ k = e)
        PROVE  k \in 1..Depth(u) /\ Todo(u, k)' = Todo(u, k)
    <3>1. Depth(u)' = Depth(u) /\ Depth(u) \in Nat
      BY <1>5, <1>11, TypeStack DEF Turned, OthersStay, Depth
    <3>2. stack'[u][k] = stack[u][k]
      BY <1>11, <2>0, <2>1, <3>1 DEF Turned, OthersStay
    <3> QED
      BY <3>1, <3>2 DEF Todo
  <2>2. Todo(Window, e)' = todo
    BY <1>9, <1>11, <2>0 DEF Turned, Todo, Top
  <2>3. \A i \in 1..Len(Todo(Window, e)') :
           Todo(Window, e)'[i] = Len(messages) + i /\ Len(messages) + i <= Len(messages')
    BY <1>6, <1>7, <1>8, <2>2
  <2> QED
    BY <1>4, <1>5, <1>7, <1>12, <2>1, <2>3, StackFresh
<1>15. Resting(Window)' /\ ~At(Window, "free") /\ OthersStay(Window) /\ KeysStep
  BY <1>1, <1>4, <1>9, <1>11 DEF Resting, Inside, Turned, At, KeysStep
<1> QED
  BY <1>1, <1>4, <1>5, <1>7, <1>13, <1>14, <1>15, Aside

LEMMA ReceiveKeepsInv ==
  ASSUME Inv, Rule, Receive
  PROVE  Inv'
<1> DEFINE n == Len(messages)
           f == Handler("pfp", <<n + 1>>)
<1>1. /\ Depth(Gateway) = 0 /\ n < MaxMessages /\ Push(Gateway, f)
      /\ UNCHANGED <<array, freed, keys, rest, fresh>>
  BY DEF Receive
<1>2. PICK u \in Users : messages' = Append(messages, [user |-> u, live |-> TRUE])
  BY DEF Receive
<1>3. UNCHANGED <<uimsgs, uimsgcnt, past, freed, keys, selects, wild, fresh>>
  BY <1>1 DEF array, rest
<1>4. TypeOK /\ StackInv /\ Gateway \in Threads /\ n \in Nat
  BY DEF Inv, Threads, TypeOK
<1>5. messages' \in Seq(Message) /\ Len(messages') = n + 1 /\ MessagesGrow
  <2>1. messages \in Seq(Message)
    BY <1>4, Zenon DEF TypeOK, Message
  <2>2. [user |-> u, live |-> TRUE] \in Message
    BY DEF Message
  <2>3. /\ messages' \in Seq(Message) /\ Len(messages') = n + 1
        /\ \A i \in 1..n : messages'[i] = messages[i]
    BY <1>2, <2>1, <2>2, AppendProperties
  <2> QED
    BY <1>4, <2>3 DEF MessagesGrow
<1>6. f \in Frame /\ f.todo = <<n + 1>> /\ f.pc = "pfp"
  <2>1. <<n + 1>> \in Seq(Nat) /\ "pfp" \in Pcs
    BY <1>4 DEF Pcs
  <2> QED
    BY <2>1, NewHandler DEF Handler
<1> HIDE DEF f
<1>7. StackType' /\ Begun(Gateway, f)
  BY <1>1, <1>4, <1>6, TypeStack, Begins
<1>8. PcsFit'
  <2>1. f.todo # <<>>
    BY <1>6
  <2>2. Depth(Gateway) > 0 => Top(Gateway).pc = "box"
    BY <1>1
  <2> QED
    BY <1>4, <1>6, <1>7, <2>1, <2>2, BegunFits
<1>9. TypeOK'
  <2>1. n + 1 <= MaxMessages
    BY <1>1, <1>4, BoundsAssumption
  <2> QED
    BY <1>3, <1>4, <1>5, <1>7, <2>1, SharedType DEF TypeOK, StackType, Message
<1>10. StackInv'
  <2>1. ASSUME NEW v \in Threads, NEW k \in 1..Depth(v)', ~(v = Gateway /\ k = 1)
        PROVE  k \in 1..Depth(v) /\ Todo(v, k)' = Todo(v, k)
    <3>1. v # Gateway
      BY <1>1, <1>7, <2>1 DEF Begun
    <3> QED
      BY <1>7, <2>1, <3>1 DEF Begun, OthersStay, Depth, Todo
  <2>2. Todo(Gateway, 1)' = <<n + 1>>
    BY <1>1, <1>6, <1>7 DEF Begun, Todo, Top
  <2>3. \A i \in 1..Len(Todo(Gateway, 1)') :
           Todo(Gateway, 1)'[i] = n + i /\ n + i <= Len(messages')
    BY <1>4, <1>5, <2>2
  <2> QED
    BY <1>3, <1>4, <1>5, <1>8, <2>1, <2>3, StackFresh
<1>11. Resting(Gateway)' /\ ~At(Gateway, "free") /\ OthersStay(Gateway) /\ KeysStep
  BY <1>1, <1>3, <1>6, <1>7 DEF Resting, Inside, Begun, At, KeysStep
<1> QED
  BY <1>1, <1>3, <1>4, <1>5, <1>9, <1>10, <1>11, Aside

-----------------------------------------------------------------------------
(* The steps that use the array.                                            *)

\* While a thread uses the array, the other one does not.
LEMMA OtherRests ==
  ASSUME Inv, Rule, ~shared', NEW t \in Threads, OthersStay(t), Using(t) \/ Using(t)'
  PROVE  \A u \in Threads : u # t => Resting(u) /\ Resting(u)' /\ Top(u)' = Top(u)
<1>1. ~shared /\ Apart' /\ Apart
  BY Sharing DEF Inv, CalmInv, ArrayInv
<1> SUFFICES ASSUME NEW u \in Threads, u # t PROVE Resting(u) /\ Resting(u)' /\ Top(u)' = Top(u)
  OBVIOUS
<1>2. Depth(u)' = Depth(u) /\ Top(u)' = Top(u)
  BY DEF OthersStay, Depth, Top
<1>3. Using(u)' <=> Using(u)
  BY <1>2 DEF Using
<1>4. (t = Window /\ u = Gateway) \/ (t = Gateway /\ u = Window)
  BY DEF Threads
<1>5. ~Using(u)
  BY <1>1, <1>3, <1>4 DEF Apart
<1>6. Resting(u)
  BY <1>5 DEF Using, Resting, Inside
<1> QED
  BY <1>2, <1>6 DEF Resting

\* What handler f of a step knows of the array, if it relies on it.
Knows(f) ==
  /\ f.pc \in {"free", "shrunk"} => uimsgcnt = 0
  /\ f.pc = "painting" => f.n = uimsgcnt
  /\ f.pc = "grown" => f.n = uimsgcnt + 1
  /\ f.pc \in {"write", "count"} => Len(uimsgs) >= uimsgcnt + 1
  /\ f.pc = "count" => uimsgs[uimsgcnt + 1] = Head(f.todo)

LEMMA KnowsAtTop ==
  ASSUME FrameInv, NEW t \in Threads, Depth(t) > 0,
         Top(t).pc \in {"grown", "write", "count"} \/ t = Window
  PROVE  Knows(Top(t))
BY DEF FrameInv, Knows, At

LEMMA FrameFrom ==
  ASSUME Inv, Rule, ~shared', NEW t \in Threads, OthersStay(t), Using(t) \/ Using(t)',
         Depth(t)' > 0, Knows(Top(t))'
  PROVE  FrameInv'
<1>1. \A u \in Threads : u # t => Resting(u)'
  BY OtherRests
<1>2. \A u \in Threads, pc \in Inside : At(u, pc)' => u = t /\ Top(t)'.pc = pc
  BY <1>1 DEF Resting, At
<1>3. At(Window, "free")' \/ At(Window, "shrunk")' => uimsgcnt' = 0
  BY <1>2 DEF Inside, Threads, Knows
<1>4. At(Window, "painting")' => Top(Window)'.n = uimsgcnt'
  BY <1>2 DEF Inside, Threads, Knows
<1>5. ASSUME NEW u \in Threads
      PROVE  /\ At(u, "grown")' => Top(u)'.n = uimsgcnt' + 1
             /\ At(u, "write")' \/ At(u, "count")' => Len(uimsgs') >= uimsgcnt' + 1
             /\ At(u, "count")' => uimsgs'[uimsgcnt' + 1] = Head(Top(u)'.todo)
  BY <1>2 DEF Inside, Knows
<1> QED
  BY <1>3, <1>4, <1>5 DEF FrameInv

\* A step of a thread that uses the array before or after it, and leaves the
\* entries that are counted as they are.
LEMMA ArrayStep ==
  ASSUME Inv, Rule, TypeOK', StackInv', NEW t \in Threads, OthersStay(t), Depth(t)' > 0,
         Top(t)'.pc # "free", Using(t) \/ Using(t)',
         UNCHANGED <<uimsgcnt, past, messages, freed, keys, wild, fresh>>,
         ~shared => /\ Knows(Top(t))'
                    /\ \A j \in 1..uimsgcnt : /\ j \in Live /\ j \in 1..Len(uimsgs')
                                              /\ uimsgs'[j] = uimsgs[j]
  PROVE  Inv'
<1>1. ASSUME ~shared' PROVE CalmInv'
  <2>1. ~shared /\ Apart' /\ CalmInv
    BY <1>1, Sharing DEF Inv
  <2>2. FrameInv'
    BY <1>1, <2>1, FrameFrom
  <2>3. ~At(Window, "free")'
    <3>1. CASE t = Window
      BY <3>1 DEF At
    <3>2. CASE t # Window
      BY <1>1, <3>2, OtherRests DEF Resting, Inside, At, Threads
    <3> QED
      BY <3>1, <3>2
  <2>4. Live' = 1..uimsgcnt
    BY <2>3 DEF Live
  <2>5. ArrayInv'
    <3>1. \A j \in 1..uimsgcnt : /\ j \in Live /\ j \in 1..Len(uimsgs')
                                 /\ uimsgs'[j] = uimsgs[j]
      BY <2>1
    <3>2. ASSUME NEW j \in Live'
          PROVE  /\ j \in 1..Len(uimsgs')
                 /\ uimsgs'[j] \in past \ freed
                 /\ \A l \in Live' : uimsgs'[j] = uimsgs'[l] => j = l
      BY <2>1, <2>4, <3>1, <3>2 DEF CalmInv, ArrayInv
    <3> QED
      BY <2>1, <3>2 DEF CalmInv, ArrayInv
  <2>6. KeyInv'
    BY <2>1, <2>3 DEF CalmInv, KeyInv
  <2> QED
    BY <2>2, <2>5, <2>6 DEF CalmInv
<1>2. LoopInv'
  <2>1. CASE t = Window
    BY <2>1 DEF LoopInv, At
  <2>2. CASE t # Window
    BY <2>2 DEF Inv, LoopInv, At, Top, Depth, OthersStay, Threads
  <2> QED
    BY <2>1, <2>2
<1>3. ~wild'
  BY DEF Rule
<1> QED
  BY <1>1, <1>2, <1>3 DEF Inv, WildHasCause

LEMMA TurnKeepsStack ==
  ASSUME TypeOK, StackInv, NEW t \in Threads, NEW f \in Frame, Turned(t, f),
         f.todo = Top(t).todo, f.pc \in Busy => Top(t).pc \in Busy,
         UNCHANGED <<past, messages>>, uimsgcnt' \in Nat, uimsgcnt' <= uimsgcnt
  PROVE  StackInv'
<1>1. Depth(t) \in 1..Depth(t)
  BY TypeStack DEF Turned
<1>2. Top(t).pc \in Busy => Top(t).todo # <<>>
  BY <1>1, Fits DEF PcsFit, Todo, Top
<1>3. PcsFit' /\ TodosStay
  BY <1>2, TurnedFits
<1> QED
  BY <1>3, StackKept DEF TypeOK

\* Outside ClearChatControl the entries in use are those that are counted.
LEMMA LiveIs ==
  ASSUME CalmInv, NEW t \in Threads, Using(t), ~At(t, "free")
  PROVE  /\ ~Moving(t) /\ ~At(Window, "free") /\ Live = 1..uimsgcnt
         /\ \A j \in 1..uimsgcnt : j \in Live /\ j \in 1..Len(uimsgs)
<1>1. ~Moving(t) /\ \A u \in Threads : u # t => ~Using(u)
  BY Alone DEF CalmInv, ArrayInv
<1>2. ~At(Window, "free")
  <2>1. At(Window, "free") => Using(Window)
    BY DEF At, Using
  <2> QED
    BY <1>1, <2>1 DEF Threads
<1>3. Live = 1..uimsgcnt
  BY <1>2 DEF Live
<1> QED
  BY <1>1, <1>2, <1>3 DEF CalmInv, ArrayInv

LEMMA GrowBeginsKeepsInv ==
  ASSUME Inv, Rule, NEW t \in Threads, GrowBegins(t)
  PROVE  Inv'
<1> DEFINE f == [[Top(t) EXCEPT !.n = uimsgcnt + 1] EXCEPT !.pc = "grown"]
<1>1. /\ At(t, "grow") /\ Depth(t) > 0 /\ Top(t).pc = "grow" /\ Using(t) /\ ~At(t, "free")
      /\ TypeOK /\ StackInv /\ (~shared => CalmInv)
  BY DEF GrowBegins, At, Using, Inv
<1>2. ~shared => ~Moving(t) /\ \A j \in 1..uimsgcnt : j \in Live /\ j \in 1..Len(uimsgs)
  BY <1>1, LiveIs
<1>3. CASE Moving(t)
  BY <1>2, <1>3, WildStep DEF GrowBegins
<1>4. CASE ~Moving(t)
  <2>1. /\ stack' = [stack EXCEPT ![t][Depth(t)].n = uimsgcnt + 1, ![t][Depth(t)].pc = "grown"]
        /\ UNCHANGED <<array, messages, freed, keys, rest, fresh>>
    BY <1>4, Zenon DEF GrowBegins
  <2>2. UNCHANGED <<uimsgs, uimsgcnt, past, messages, freed, keys, selects, wild, fresh>>
    BY <2>1 DEF array, rest
  <2>3. stack' = [stack EXCEPT ![t][Depth(t)] = f]
    BY <2>1, <1>1, TypeStack DEF Top, StackType
  <2>4. Top(t) \in Frame /\ StackType /\ uimsgcnt \in Nat
    BY <1>1, TypeStack DEF TypeOK
  <2>5. f \in Frame /\ f.pc = "grown" /\ f.n = uimsgcnt + 1 /\ f.todo = Top(t).todo
    <3> DEFINE g == [Top(t) EXCEPT !.n = uimsgcnt + 1]
    <3>1. uimsgcnt + 1 \in Nat
      BY <2>4
    <3>2. g \in Frame /\ g.n = uimsgcnt + 1 /\ g.todo = Top(t).todo
      BY <2>4, <3>1 DEF Frame
    <3> HIDE DEF g
    <3>3. f = [g EXCEPT !.pc = "grown"]
      BY DEF g
    <3> HIDE DEF f
    <3> QED
      BY <3>2, <3>3 DEF Frame
  <2> HIDE DEF f
  <2>6. StackType' /\ Turned(t, f)
    BY <1>1, <2>3, <2>4, <2>5, Turns
  <2>7. TypeOK'
    BY <1>1, <2>2, <2>6, SharedType DEF TypeOK, StackType
  <2>8. StackInv'
    BY <1>1, <2>2, <2>4, <2>5, <2>6, TurnKeepsStack DEF Busy
  <2>9. Depth(t)' > 0 /\ Top(t)' = f /\ OthersStay(t)
    BY <2>6 DEF Turned
  <2>10. Knows(Top(t))'
    BY <2>2, <2>5, <2>9 DEF Knows
  <2> QED
    BY <1>1, <1>2, <2>2, <2>5, <2>7, <2>8, <2>9, <2>10, ArrayStep
<1> QED
  BY <1>3, <1>4

LEMMA ResizedIs ==
  ASSUME TypeOK, NEW n \in Nat
  PROVE  /\ Resized(n) \in Seq(0..MaxMessages) /\ Len(Resized(n)) = n
         /\ \A i \in 1..n : i <= Len(uimsgs) => Resized(n)[i] = uimsgs[i]
<1>1. uimsgs \in Seq(0..MaxMessages) /\ Len(uimsgs) \in Nat /\ 0 \in 0..MaxMessages
  BY BoundsAssumption DEF TypeOK
<1>2. \A i \in 1..n : i <= Len(uimsgs) => uimsgs[i] \in 0..MaxMessages
  <2>1. ASSUME NEW i \in 1..n, i <= Len(uimsgs) PROVE uimsgs[i] \in 0..MaxMessages
    <3>1. i \in 1..Len(uimsgs)
      BY <1>1, <2>1
    <3> QED
      BY <1>1, <3>1, ElementOfSeq
  <2> QED
    BY <2>1
<1> DEFINE r == Resized(n)
<1>3. r \in [1..n -> 0..MaxMessages]
  BY <1>1, <1>2 DEF Resized
<1>4. \A i \in 1..n : i <= Len(uimsgs) => r[i] = uimsgs[i]
  BY DEF Resized
<1> HIDE DEF r
<1>5. r \in Seq(0..MaxMessages) /\ Len(r) = n
  <2> DEFINE S == 0..MaxMessages
  <2>1. r \in [1..n -> S]
    BY <1>3
  <2> HIDE DEF S
  <2>2. r \in Seq(S) /\ Len(r) = n
    BY <2>1
  <2> QED
    BY <2>2 DEF S
<1> QED
  BY <1>4, <1>5 DEF r

LEMMA GrowEndsKeepsInv ==
  ASSUME Inv, Rule, NEW t \in Threads, GrowEnds(t)
  PROVE  Inv'
<1> DEFINE f == [Top(t) EXCEPT !.pc = "write"]
           n == Top(t).n
<1>1. /\ At(t, "grown") /\ Depth(t) > 0 /\ Top(t).pc = "grown" /\ Using(t) /\ ~At(t, "free")
      /\ TypeOK /\ StackInv /\ (~shared => CalmInv)
      /\ uimsgs' = Resized(n) /\ Goto(t, "write")
      /\ UNCHANGED <<uimsgcnt, past, messages, freed, keys, rest, fresh>>
  BY DEF GrowEnds, At, Using, Inv
<1>2. UNCHANGED <<uimsgcnt, past, messages, freed, keys, selects, wild, fresh>>
  BY <1>1 DEF rest
<1>3. Top(t) \in Frame /\ n \in Nat /\ uimsgcnt \in Nat
  BY <1>1, TypeStack, FrameFields DEF TypeOK
<1>4. f \in Frame /\ f.pc = "write" /\ f.todo = Top(t).todo
  BY <1>3 DEF Frame
<1>5. StackType' /\ Turned(t, f)
  BY <1>1, Goes DEF Pcs
<1> HIDE DEF f, n
<1>6. /\ uimsgs' \in Seq(0..MaxMessages) /\ Len(uimsgs') = n
      /\ \A i \in 1..n : i <= Len(uimsgs) => uimsgs'[i] = uimsgs[i]
  BY <1>1, <1>3, ResizedIs
<1>7. TypeOK'
  BY <1>1, <1>2, <1>5, <1>6, SharedType DEF TypeOK, StackType
<1>8. StackInv'
  BY <1>1, <1>2, <1>3, <1>4, <1>5, TurnKeepsStack DEF Busy
<1>9. Depth(t)' > 0 /\ Top(t)' = f /\ OthersStay(t)
  BY <1>5 DEF Turned
<1>10. ASSUME ~shared
       PROVE  /\ Knows(Top(t))'
              /\ \A j \in 1..uimsgcnt : /\ j \in Live /\ j \in 1..Len(uimsgs')
                                        /\ uimsgs'[j] = uimsgs[j]
  <2>1. CalmInv /\ n = uimsgcnt + 1
    BY <1>1, <1>10 DEF CalmInv, FrameInv, n
  <2>2. Knows(Top(t))'
    BY <1>2, <1>3, <1>4, <1>6, <1>9, <2>1 DEF Knows
  <2>3. \A j \in 1..uimsgcnt : j \in Live /\ j \in 1..Len(uimsgs)
    BY <1>1, <2>1, LiveIs
  <2> QED
    BY <1>1, <1>3, <1>6, <2>1, <2>2, <2>3
<1> QED
  BY <1>1, <1>2, <1>4, <1>7, <1>8, <1>9, <1>10, ArrayStep

LEMMA WriteEntryKeepsInv ==
  ASSUME Inv, Rule, NEW t \in Threads, WriteEntry(t)
  PROVE  Inv'
<1> DEFINE f == [Top(t) EXCEPT !.pc = "count"]
           m == Head(Top(t).todo)
           n == uimsgcnt + 1
<1>1. /\ At(t, "write") /\ Depth(t) > 0 /\ Top(t).pc = "write" /\ Using(t) /\ ~At(t, "free")
      /\ TypeOK /\ StackInv /\ (~shared => CalmInv)
  BY DEF WriteEntry, At, Using, Inv
<1>2. uimsgcnt \in Nat /\ uimsgs \in Seq(0..MaxMessages) /\ Len(uimsgs) \in Nat
  BY <1>1 DEF TypeOK
<1>3. ~shared => /\ ~Moving(t) /\ n <= Len(uimsgs)
                 /\ \A j \in 1..uimsgcnt : j \in Live /\ j \in 1..Len(uimsgs)
  <2>1. ~shared => n <= Len(uimsgs)
    BY <1>1, <1>2 DEF CalmInv, FrameInv
  <2> QED
    BY <1>1, <2>1, LiveIs
<1>4. CASE Moving(t) \/ n > Len(uimsgs)
  <2>1. Wild
    BY <1>4, Zenon DEF WriteEntry
  <2>2. shared
    BY <1>2, <1>3, <1>4
  <2> QED
    BY <2>1, <2>2, WildStep
<1>5. CASE ~(Moving(t) \/ n > Len(uimsgs))
  <2>1. /\ uimsgs' = [uimsgs EXCEPT ![n] = m] /\ Goto(t, "count")
        /\ UNCHANGED <<uimsgcnt, past, messages, freed, keys, rest, fresh>>
    BY <1>5, Zenon DEF WriteEntry
  <2>2. UNCHANGED <<uimsgcnt, past, messages, freed, keys, selects, wild, fresh>>
    BY <2>1 DEF rest
  <2>3. Top(t) \in Frame /\ m \in 1..Len(messages)
    BY <1>1, TypeStack, TopBusy DEF Busy
  <2>4. f \in Frame /\ f.pc = "count" /\ f.todo = Top(t).todo
    BY <2>3 DEF Frame
  <2>5. StackType' /\ Turned(t, f)
    BY <1>1, <2>1, Goes DEF Pcs
  <2>6. m \in 0..MaxMessages /\ n \in 1..Len(uimsgs)
    BY <1>1, <1>2, <1>5, <2>3, BoundsAssumption DEF TypeOK
  <2> HIDE DEF f, m, n
  <2>7. /\ uimsgs' \in Seq(0..MaxMessages) /\ Len(uimsgs') = Len(uimsgs) /\ uimsgs'[n] = m
        /\ \A i \in 1..Len(uimsgs) : i # n => uimsgs'[i] = uimsgs[i]
    BY <1>2, <2>1, <2>6, ExceptSeq
  <2>8. TypeOK'
    BY <1>1, <2>2, <2>5, <2>7, SharedType DEF TypeOK, StackType
  <2>9. StackInv'
    BY <1>1, <1>2, <2>2, <2>4, <2>5, TurnKeepsStack DEF Busy
  <2>10. Depth(t)' > 0 /\ Top(t)' = f /\ OthersStay(t)
    BY <2>5 DEF Turned
  <2>11. Knows(Top(t))'
    BY <1>2, <2>2, <2>4, <2>6, <2>7, <2>10 DEF Knows, n, m
  <2>12. ~shared => \A j \in 1..uimsgcnt : /\ j \in Live /\ j \in 1..Len(uimsgs')
                                           /\ uimsgs'[j] = uimsgs[j]
    BY <1>2, <1>3, <2>7 DEF n
  <2> QED
    BY <1>1, <2>2, <2>4, <2>8, <2>9, <2>10, <2>11, <2>12, ArrayStep
<1> QED
  BY <1>4, <1>5

\* The message at hand goes from its handler to those that were counted in.
LEMMA CountKeepsStack ==
  ASSUME TypeOK, StackInv, NEW t \in Threads, NEW f \in Frame, Turned(t, f),
         Top(t).pc = "count", f.pc = "paint", f.todo = Tail(Top(t).todo),
         past' = past \cup {Head(Top(t).todo)}, uimsgcnt' = uimsgcnt + 1, messages' = messages
  PROVE  StackInv' /\ uimsgcnt' \in 0..MaxMessages /\ past' \subseteq 1..MaxMessages
<1>1. PICK m : m = Head(Top(t).todo)
  OBVIOUS
<1>2. PICK d \in Nat : d = Depth(t)
  BY TypeStack
<1>3. d > 0 /\ d \in 1..Depth(t) /\ Depth(t)' = d
  BY <1>2 DEF Turned
<1>4. /\ Todo(t, d) \in Seq(Nat) /\ Todo(t, d) # <<>> /\ Len(Todo(t, d)) \in Nat \ {0}
      /\ m = Todo(t, d)[1] /\ m \in 1..Len(messages) /\ m \notin past
  BY <1>1, <1>2, <1>3, TopBusy DEF Busy, Todo, Top
<1>5. Todo(t, d)' = Tail(Todo(t, d))
  BY <1>2, <1>3 DEF Turned, Todo, Top
<1>6. /\ Len(Tail(Todo(t, d))) = Len(Todo(t, d)) - 1
      /\ \A i \in 1..Len(Tail(Todo(t, d))) : Tail(Todo(t, d))[i] = Todo(t, d)[i + 1]
  BY <1>4, HeadTailProperties
<1>7. Len(messages) \in Nat /\ Len(messages) <= MaxMessages /\ uimsgcnt \in Nat
  BY DEF TypeOK
<1> DEFINE From(u, k, i) == IF u = t /\ k = d THEN i + 1 ELSE i
<1>8. ASSUME NEW u \in Threads, NEW k \in 1..Depth(u)', NEW i \in 1..Len(Todo(u, k)')
      PROVE  /\ k \in 1..Depth(u) /\ From(u, k, i) \in 1..Len(Todo(u, k))
             /\ Todo(u, k)'[i] = Todo(u, k)[From(u, k, i)]
             /\ ~(u = t /\ k = d /\ From(u, k, i) = 1)
  <2>1. Depth(u)' = Depth(u) /\ Depth(u) \in Nat
    BY TypeStack DEF Turned, OthersStay, Depth
  <2>2. CASE u = t /\ k = d
    <3>1. i \in 1..Len(Tail(Todo(t, d))) /\ From(u, k, i) = i + 1
      BY <1>5, <1>8, <2>2
    <3>2. i + 1 \in 1..Len(Todo(t, d)) /\ i + 1 # 1
      BY <1>4, <1>6, <3>1
    <3> QED
      BY <1>5, <1>6, <2>1, <2>2, <3>1, <3>2
  <2>3. CASE ~(u = t /\ k = d)
    <3>1. stack'[u][k] = stack[u][k]
      BY <1>2, <1>3, <2>1, <2>3 DEF Turned, OthersStay
    <3>2. Todo(u, k)' = Todo(u, k) /\ From(u, k, i) = i
      BY <2>3, <3>1 DEF Todo
    <3> QED
      BY <1>8, <2>1, <2>3, <3>2
  <2> QED
    BY <2>2, <2>3
<1> HIDE DEF From
<1>9. ASSUME NEW u \in Threads, NEW k \in 1..Depth(u)', NEW i \in 1..Len(Todo(u, k)')
      PROVE  Todo(u, k)'[i] \in 1..Len(messages') /\ Todo(u, k)'[i] \notin past'
  <2> DEFINE j == From(u, k, i)
  <2>1. /\ k \in 1..Depth(u) /\ j \in 1..Len(Todo(u, k)) /\ Todo(u, k)'[i] = Todo(u, k)[j]
        /\ ~(u = t /\ k = d /\ j = 1)
    BY <1>8
  <2> HIDE DEF j
  <2>2. Todo(u, k)[j] \in 1..Len(messages) /\ Todo(u, k)[j] \notin past
    BY <2>1 DEF StackInv
  <2>3. Todo(u, k)[j] # m
    <3>1. 1 \in 1..Len(Todo(t, d))
      BY <1>4
    <3> QED
      BY <1>3, <1>4, <2>1, <3>1, OneOwner
  <2> QED
    BY <1>1, <2>1, <2>2, <2>3
<1>10. ASSUME NEW u \in Threads, NEW k \in 1..Depth(u)', NEW i \in 1..Len(Todo(u, k)'),
              NEW v \in Threads, NEW l \in 1..Depth(v)', NEW j \in 1..Len(Todo(v, l)'),
              Todo(u, k)'[i] = Todo(v, l)'[j]
       PROVE  u = v /\ k = l /\ i = j
  <2>1. /\ k \in 1..Depth(u) /\ From(u, k, i) \in 1..Len(Todo(u, k))
        /\ Todo(u, k)'[i] = Todo(u, k)[From(u, k, i)]
    BY <1>8
  <2>2. /\ l \in 1..Depth(v) /\ From(v, l, j) \in 1..Len(Todo(v, l))
        /\ Todo(v, l)'[j] = Todo(v, l)[From(v, l, j)]
    BY <1>8
  <2>3. Todo(u, k)[From(u, k, i)] = Todo(v, l)[From(v, l, j)]
    BY <1>10, <2>1, <2>2
  <2>4. u = v /\ k = l /\ From(u, k, i) = From(v, l, j)
    BY <2>1, <2>2, <2>3, OneOwner
  <2>5. i \in Nat /\ j \in Nat
    OBVIOUS
  <2> QED
    BY <2>4, <2>5 DEF From
<1>11. PcsFit'
  BY TurnedFits DEF Busy
<1>12. /\ past' \subseteq 1..Len(messages) /\ uimsgcnt' <= Cardinality(past')
       /\ Cardinality(past') <= Len(messages)
  <2>1. past \subseteq 1..Len(messages) /\ uimsgcnt <= Cardinality(past)
    BY DEF StackInv
  <2>2. IsFiniteSet(1..Len(messages)) /\ Cardinality(1..Len(messages)) = Len(messages)
    BY <1>7, FS_Interval
  <2>3. IsFiniteSet(past) /\ Cardinality(past) \in Nat
    BY <2>1, <2>2, FS_Subset, FS_CardinalityType
  <2>4. past' = past \cup {m}
    BY <1>1
  <2>5. Cardinality(past') = Cardinality(past) + 1
    BY <1>4, <2>3, <2>4, FS_AddElement
  <2>6. past' \subseteq 1..Len(messages)
    BY <1>4, <2>1, <2>4
  <2>7. Cardinality(past') <= Len(messages)
    BY <2>2, <2>6, FS_Subset
  <2> QED
    BY <1>7, <2>1, <2>3, <2>5, <2>6, <2>7
<1>13. uimsgcnt' \in 0..MaxMessages /\ past' \subseteq 1..MaxMessages
  <2>1. Cardinality(past') \in Nat
    <3>1. IsFiniteSet(1..Len(messages))
      BY <1>7, FS_Interval
    <3> QED
      BY <1>12, <3>1, FS_Subset, FS_CardinalityType
  <2>2. MaxMessages \in Nat
    BY BoundsAssumption
  <2>3. uimsgcnt' <= MaxMessages
    BY <1>7, <1>12, <2>1, <2>2
  <2> QED
    BY <1>7, <1>12, <2>2, <2>3
<1>14. StackInv'
  <2>1. messages' = messages
    OBVIOUS
  <2> QED
    BY <1>9, <1>10, <1>11, <1>12, <2>1 DEF StackInv, PcsFit
<1> QED
  BY <1>13, <1>14

LEMMA CountEntryKeepsInv ==
  ASSUME Inv, Rule, NEW t \in Threads, CountEntry(t)
  PROVE  Inv'
<1> DEFINE f == [[Top(t) EXCEPT !.todo = Tail(Top(t).todo)] EXCEPT !.pc = "paint"]
           m == Head(Top(t).todo)
<1>1. /\ At(t, "count") /\ Depth(t) > 0 /\ Top(t).pc = "count" /\ Using(t) /\ ~At(t, "free")
      /\ TypeOK /\ StackInv /\ LoopInv /\ (~shared => CalmInv)
      /\ uimsgcnt' = uimsgcnt + 1 /\ past' = past \cup {m}
      /\ stack' = [stack EXCEPT ![t][Depth(t)].todo = Tail(@), ![t][Depth(t)].pc = "paint"]
      /\ UNCHANGED <<uimsgs, messages, freed, keys, rest, fresh>>
  BY DEF CountEntry, At, Using, Inv
<1>2. UNCHANGED <<uimsgs, messages, freed, keys, selects, wild, fresh>>
  BY <1>1 DEF rest
<1>3. stack' = [stack EXCEPT ![t][Depth(t)] = f]
  BY <1>1, TypeStack DEF Top, StackType
<1>4. Top(t) \in Frame /\ StackType /\ uimsgcnt \in Nat /\ Len(uimsgs) \in Nat
  BY <1>1, TypeStack DEF TypeOK
<1>5. /\ Top(t).todo # <<>> /\ Tail(Top(t).todo) \in Seq(Nat)
      /\ m \in 1..Len(messages) /\ m \notin past
  <2>1. Top(t).todo \in Seq(Nat) /\ Top(t).todo # <<>> /\ m \in 1..Len(messages) /\ m \notin past
    BY <1>1, TopBusy DEF Busy
  <2> QED
    BY <2>1, HeadTailProperties
<1>6. f \in Frame /\ f.pc = "paint" /\ f.todo = Tail(Top(t).todo)
  <2> DEFINE g == [Top(t) EXCEPT !.todo = Tail(Top(t).todo)]
  <2>1. g \in Frame /\ g.todo = Tail(Top(t).todo)
    BY <1>4, <1>5 DEF Frame
  <2> HIDE DEF g
  <2>2. f = [g EXCEPT !.pc = "paint"]
    BY DEF g
  <2> HIDE DEF f
  <2> QED
    BY <2>1, <2>2 DEF Frame
<1> HIDE DEF f
<1>7. StackType' /\ Turned(t, f)
  BY <1>1, <1>3, <1>4, <1>6, Turns
<1>8. StackInv' /\ uimsgcnt' \in 0..MaxMessages /\ past' \subseteq 1..MaxMessages
  BY <1>1, <1>2, <1>6, <1>7, CountKeepsStack
<1> HIDE DEF m
<1>9. TypeOK'
  BY <1>1, <1>2, <1>7, <1>8, SharedType DEF TypeOK, StackType
<1>10. Depth(t)' > 0 /\ Top(t)' = f /\ OthersStay(t)
  BY <1>7 DEF Turned
<1>11. ASSUME ~shared' PROVE CalmInv'
  <2>1. ~shared /\ Apart' /\ CalmInv
    BY <1>1, <1>11, Sharing
  <2>2. Knows(Top(t))'
    BY <1>6, <1>10 DEF Knows
  <2>3. FrameInv'
    BY <1>1, <1>10, <1>11, <2>2, FrameFrom
  <2>4. ~At(Window, "free") /\ Live = 1..uimsgcnt
    BY <1>1, <2>1, LiveIs
  <2>5. ~At(Window, "free")'
    BY <1>1, <1>6, <1>10, <1>11, OtherRests DEF Resting, Inside, At, Threads
  <2>6. Live' = 1..uimsgcnt + 1
    BY <1>1, <2>5 DEF Live
  <2>7. Len(uimsgs) >= uimsgcnt + 1 /\ uimsgs[uimsgcnt + 1] = m
    BY <1>1, <2>1 DEF CalmInv, FrameInv, m
  <2>8. \A j \in 1..uimsgcnt : /\ j \in 1..Len(uimsgs) /\ uimsgs[j] \in past \ freed
                               /\ \A l \in 1..uimsgcnt : uimsgs[j] = uimsgs[l] => j = l
    BY <2>1, <2>4 DEF CalmInv, ArrayInv
  <2>9. freed \subseteq past
    BY <2>1 DEF CalmInv, ArrayInv
  <2>10. \A j \in 1..uimsgcnt + 1 : j \in 1..uimsgcnt \/ j = uimsgcnt + 1
    BY <1>4
  <2>11. ASSUME NEW j \in 1..uimsgcnt + 1
         PROVE  /\ j \in 1..Len(uimsgs) /\ uimsgs[j] \in past' \ freed
                /\ \A l \in 1..uimsgcnt + 1 : uimsgs[j] = uimsgs[l] => j = l
    <3>1. j \in 1..Len(uimsgs)
      BY <1>4, <2>7
    <3>2. uimsgs[j] \in past' \ freed
      BY <1>1, <1>5, <2>7, <2>8, <2>9, <2>10
    <3>3. ASSUME NEW l \in 1..uimsgcnt + 1, uimsgs[j] = uimsgs[l] PROVE j = l
      BY <1>5, <2>7, <2>8, <2>10, <3>3
    <3> QED
      BY <3>1, <3>2, <3>3
  <2>12. ArrayInv'
    BY <1>1, <1>2, <2>1, <2>6, <2>9, <2>11 DEF ArrayInv
  <2>13. KeyInv'
    BY <1>2, <2>1, <2>5 DEF CalmInv, KeyInv
  <2> QED
    BY <2>3, <2>12, <2>13 DEF CalmInv
<1>12. LoopInv'
  <2>1. CASE t = Window
    BY <1>6, <1>10, <2>1 DEF LoopInv, At
  <2>2. CASE t # Window
    BY <1>1, <1>10, <2>2 DEF LoopInv, At, Top, Depth, OthersStay, Threads
  <2> QED
    BY <2>1, <2>2
<1>13. ~wild'
  BY <1>2 DEF Rule
<1> QED
  BY <1>8, <1>9, <1>11, <1>12, <1>13 DEF Inv, WildHasCause

-----------------------------------------------------------------------------
(* ClearChatControl.                                                        *)

LEMMA ClearBeginsKeepsInv ==
  ASSUME Inv, Rule, ClearBegins
  PROVE  Inv'
<1> DEFINE t == Window
           f == [Top(t) EXCEPT !.i = 1, !.n = uimsgcnt, !.pc = "free"]
<1>1. /\ At(t, "clear") /\ Depth(t) > 0 /\ Top(t).pc = "clear" /\ ~At(t, "free")
      /\ TypeOK /\ StackInv /\ (~shared => CalmInv) /\ t \in Threads
      /\ uimsgcnt' = 0 /\ fresh' = {}
      /\ UNCHANGED <<uimsgs, past, messages, freed, keys, rest>>
  BY DEF ClearBegins, At, Inv, Threads
<1>2. UNCHANGED <<uimsgs, past, messages, freed, keys, selects, wild>>
  BY <1>1 DEF rest
<1>3. stack' = [stack EXCEPT ![t][Depth(t)] = f]
  BY DEF ClearBegins, Top
<1>4. Top(t) \in Frame /\ StackType /\ uimsgcnt \in Nat
  BY <1>1, TypeStack DEF TypeOK
<1>5. f \in Frame /\ f.pc = "free" /\ f.i = 1 /\ f.n = uimsgcnt /\ f.todo = Top(t).todo
  BY <1>4 DEF Frame
<1> HIDE DEF f
<1>6. StackType' /\ Turned(t, f)
  BY <1>1, <1>3, <1>4, <1>5, Turns
<1>7. StackInv'
  BY <1>1, <1>2, <1>4, <1>5, <1>6, TurnKeepsStack DEF Busy
<1>8. TypeOK'
  <2>1. uimsgcnt' \in 0..MaxMessages /\ fresh' \subseteq 1..MaxMessages
    BY <1>1, BoundsAssumption
  <2> QED
    BY <1>1, <1>2, <1>6, <2>1, SharedType DEF TypeOK, StackType
<1>9. Depth(t)' > 0 /\ Top(t)' = f /\ OthersStay(t) /\ Using(t)' /\ At(t, "free")'
  BY <1>5, <1>6 DEF Turned, Using, At
<1>10. LoopInv'
  BY <1>5, <1>9 DEF LoopInv
<1>11. ASSUME ~shared' PROVE CalmInv'
  <2>1. ~shared /\ Apart' /\ CalmInv
    BY <1>1, <1>11, Sharing
  <2>2. Knows(Top(t))'
    BY <1>1, <1>5, <1>9 DEF Knows
  <2>3. FrameInv'
    BY <1>1, <1>9, <1>11, <2>2, FrameFrom DEF Inv
  <2>4. Live = 1..uimsgcnt /\ Live' = 1..uimsgcnt
    BY <1>1, <1>5, <1>9 DEF Live
  <2>5. ArrayInv'
    BY <1>2, <2>1, <2>4 DEF CalmInv, ArrayInv
  <2>6. KeyInv'
    BY <1>1 DEF KeyInv
  <2> QED
    BY <2>3, <2>5, <2>6 DEF CalmInv
<1>12. ~wild'
  BY <1>2 DEF Rule
<1> QED
  BY <1>7, <1>8, <1>10, <1>11, <1>12 DEF Inv, WildHasCause

LEMMA FreeEntryKeepsInv ==
  ASSUME Inv, Rule, FreeEntry
  PROVE  Inv'
<1> DEFINE t == Window
           i == Top(t).i
           f == [Top(t) EXCEPT !.i = i + 1]
<1>1. /\ At(t, "free") /\ Depth(t) > 0 /\ Top(t).pc = "free" /\ Using(t)
      /\ TypeOK /\ StackInv /\ LoopInv /\ (~shared => CalmInv) /\ t \in Threads
      /\ i <= Top(t).n
  BY DEF FreeEntry, At, Using, Inv, Threads
<1>2. Top(t) \in Frame /\ StackType /\ i \in Nat /\ Top(t).n \in Nat /\ i >= 1
      /\ Len(uimsgs) \in Nat
  BY <1>1, TypeStack, FrameFields DEF LoopInv, TypeOK
<1>3. ASSUME ~shared
      PROVE  /\ i \in Live /\ There(t, i) /\ uimsgs[i] \in past \ freed /\ uimsgs[i] \notin fresh
             /\ \A j \in Live : uimsgs[j] = uimsgs[i] => j = i
  <2>1. CalmInv
    BY <1>1, <1>3
  <2>2. Live = i..Top(t).n
    BY <1>1 DEF Live
  <2>3. i \in Live
    BY <1>1, <1>2, <2>2
  <2>4. /\ i \in 1..Len(uimsgs) /\ uimsgs[i] \in past \ freed /\ uimsgs[i] \notin fresh
        /\ \A j \in Live : uimsgs[j] = uimsgs[i] => j = i
    BY <1>1, <2>1, <2>3 DEF CalmInv, ArrayInv, KeyInv
  <2>5. ~Moving(t)
    BY <1>1, <2>1, Alone DEF CalmInv, ArrayInv
  <2>6. past \subseteq 1..MaxMessages
    BY <1>1 DEF TypeOK
  <2>7. uimsgs[i] # 0
    BY <2>4, <2>6
  <2>8. There(t, i)
    BY <2>4, <2>5, <2>7 DEF There
  <2> QED
    BY <2>3, <2>4, <2>8
<1>4. CASE ~There(t, i) \/ uimsgs[i] \in freed
  <2>1. Wild
    BY <1>4, Zenon DEF FreeEntry
  <2>2. shared
    BY <1>3, <1>4
  <2> QED
    BY <2>1, <2>2, WildStep
<1>5. CASE There(t, i) /\ uimsgs[i] \notin freed /\ OwnStrings(uimsgs[i]) # Pointer /\ Wild
  <2>1. messages[uimsgs[i]].live
    BY <1>5 DEF OwnStrings
  <2>2. FreesLive
    BY <1>1, <1>5, <2>1 DEF FreesLive
  <2> QED
    BY <1>5, <2>2, WildStep
<1>6. CASE /\ There(t, i) /\ uimsgs[i] \notin freed
           /\ freed' = freed \cup {uimsgs[i]}
           /\ stack' = [stack EXCEPT ![t][Depth(t)].i = i + 1]
           /\ UNCHANGED <<array, messages, keys, rest, fresh>>
  <2>1. UNCHANGED <<uimsgs, uimsgcnt, past, messages, keys, selects, wild, fresh>>
    BY <1>6 DEF array, rest
  <2>2. stack' = [stack EXCEPT ![t][Depth(t)] = f]
    BY <1>6 DEF Top
  <2>3. f \in Frame /\ f.pc = "free" /\ f.i = i + 1 /\ f.n = Top(t).n /\ f.todo = Top(t).todo
    BY <1>1, <1>2 DEF Frame
  <2> HIDE DEF f
  <2>4. StackType' /\ Turned(t, f)
    BY <1>1, <1>2, <2>2, <2>3, Turns
  <2>5. StackInv'
    BY <1>1, <2>1, <2>3, <2>4, TurnKeepsStack DEF Busy, TypeOK
  <2>6. TypeOK'
    <3>1. i \in 1..Len(uimsgs) /\ uimsgs[i] # 0
      BY <1>2, <1>6 DEF There
    <3>2. uimsgs[i] \in 0..MaxMessages
      BY <1>1, <3>1, ElementOfSeq DEF TypeOK
    <3>3. uimsgs[i] \in 1..MaxMessages
      BY <3>1, <3>2, BoundsAssumption
    <3>4. freed' \subseteq 1..MaxMessages
      BY <1>1, <1>6, <3>3 DEF TypeOK
    <3> QED
      BY <1>1, <2>1, <2>4, <3>4, SharedType DEF TypeOK, StackType
  <2>7. Depth(t)' > 0 /\ Top(t)' = f /\ OthersStay(t) /\ Using(t)' /\ At(t, "free")'
    BY <2>3, <2>4 DEF Turned, Using, At
  <2>8. LoopInv'
    BY <1>2, <2>3, <2>7 DEF LoopInv
  <2>9. ASSUME ~shared' PROVE CalmInv'
    <3>1. ~shared /\ Apart' /\ CalmInv
      BY <1>1, <2>9, Sharing
    <3>2. uimsgcnt = 0
      BY <1>1, <3>1 DEF CalmInv, FrameInv
    <3>3. FrameInv'
      BY <1>1, <2>1, <2>3, <2>7, <2>9, <3>2, FrameFrom DEF Knows
    <3>4. Live = i..Top(t).n /\ Live' = (i + 1)..Top(t).n
      BY <1>1, <2>3, <2>7 DEF Live
    <3>5. \A j \in Live' : j \in Live /\ j # i
      BY <1>2, <3>4
    <3>6. /\ uimsgs[i] \in past \ freed /\ uimsgs[i] \notin fresh
          /\ \A j \in Live : uimsgs[j] = uimsgs[i] => j = i
      BY <1>3, <3>1
    <3>7. ArrayInv'
      <4>1. freed' \subseteq past
        BY <1>6, <3>1, <3>6 DEF CalmInv, ArrayInv
      <4>2. ASSUME NEW j \in Live'
            PROVE  /\ j \in 1..Len(uimsgs) /\ uimsgs[j] \in past \ freed'
                   /\ \A l \in Live' : uimsgs[j] = uimsgs[l] => j = l
        BY <1>6, <3>1, <3>5, <3>6, <4>2 DEF CalmInv, ArrayInv
      <4> QED
        BY <2>1, <3>1, <4>1, <4>2 DEF ArrayInv
    <3>8. KeyInv'
      <4>1. fresh' \cap freed' = {}
        BY <1>6, <2>1, <3>1, <3>6 DEF CalmInv, KeyInv
      <4>2. \A j \in Live' : uimsgs'[j] \notin fresh'
        BY <1>1, <2>1, <3>1, <3>5 DEF CalmInv, KeyInv
      <4> QED
        BY <2>1, <3>1, <4>1, <4>2 DEF CalmInv, KeyInv
    <3> QED
      BY <3>3, <3>7, <3>8 DEF CalmInv
  <2>10. ~wild'
    BY <2>1 DEF Rule
  <2> QED
    BY <2>5, <2>6, <2>8, <2>9, <2>10 DEF Inv, WildHasCause
<1>7. \/ ~There(t, i) \/ uimsgs[i] \in freed
      \/ There(t, i) /\ uimsgs[i] \notin freed /\ OwnStrings(uimsgs[i]) # Pointer /\ Wild
      \/ /\ There(t, i) /\ uimsgs[i] \notin freed
         /\ freed' = freed \cup {uimsgs[i]}
         /\ stack' = [stack EXCEPT ![t][Depth(t)].i = i + 1]
         /\ UNCHANGED <<array, messages, keys, rest, fresh>>
  BY Zenon DEF FreeEntry
<1> QED
  BY <1>4, <1>5, <1>6, <1>7

LEMMA ShrinkBeginsKeepsInv ==
  ASSUME Inv, Rule, ShrinkBegins
  PROVE  Inv'
<1> DEFINE t == Window
           f == [Top(t) EXCEPT !.pc = "shrunk"]
<1>1. /\ At(t, "free") /\ Depth(t) > 0 /\ Top(t).pc = "free" /\ Using(t)
      /\ TypeOK /\ StackInv /\ (~shared => CalmInv) /\ t \in Threads
  BY DEF ShrinkBegins, At, Using, Inv, Threads
<1>2. ~shared => ~Moving(t) /\ uimsgcnt = 0
  BY <1>1, Alone DEF CalmInv, ArrayInv, FrameInv
<1>3. CASE Moving(t)
  BY <1>2, <1>3, WildStep DEF ShrinkBegins
<1>4. CASE ~Moving(t)
  <2>1. Goto(t, "shrunk") /\ UNCHANGED <<array, messages, freed, keys, rest, fresh>>
    BY <1>4 DEF ShrinkBegins
  <2>2. UNCHANGED <<uimsgs, uimsgcnt, past, messages, freed, keys, selects, wild, fresh>>
    BY <2>1 DEF array, rest
  <2>3. Top(t) \in Frame /\ uimsgcnt \in Nat
    BY <1>1, TypeStack DEF TypeOK
  <2>4. f \in Frame /\ f.pc = "shrunk" /\ f.todo = Top(t).todo
    BY <2>3 DEF Frame
  <2>5. StackType' /\ Turned(t, f)
    BY <1>1, <2>1, Goes DEF Pcs
  <2> HIDE DEF f
  <2>6. TypeOK'
    BY <1>1, <2>2, <2>5, SharedType DEF TypeOK, StackType
  <2>7. StackInv'
    BY <1>1, <2>2, <2>3, <2>4, <2>5, TurnKeepsStack DEF Busy
  <2>8. Depth(t)' > 0 /\ Top(t)' = f /\ OthersStay(t)
    BY <2>5 DEF Turned
  <2>9. ~shared => Knows(Top(t))'
    BY <1>2, <2>2, <2>4, <2>8 DEF Knows
  <2>10. ~shared => \A j \in 1..uimsgcnt : FALSE
    BY <1>2
  <2> QED
    BY <1>1, <2>2, <2>4, <2>6, <2>7, <2>8, <2>9, <2>10, ArrayStep
<1> QED
  BY <1>3, <1>4

LEMMA ShrinkEndsKeepsInv ==
  ASSUME Inv, Rule, ShrinkEnds
  PROVE  Inv'
<1> DEFINE t == Window
           f == [Top(t) EXCEPT !.pc = IF Top(t).fetched THEN "next" ELSE "fetch"]
<1>1. /\ At(t, "shrunk") /\ Depth(t) > 0 /\ Top(t).pc = "shrunk" /\ Using(t)
      /\ TypeOK /\ StackInv /\ (~shared => CalmInv) /\ t \in Threads
      /\ uimsgs' = Resized(1) /\ Goto(t, IF Top(t).fetched THEN "next" ELSE "fetch")
      /\ UNCHANGED <<uimsgcnt, past, messages, freed, keys, rest, fresh>>
  BY DEF ShrinkEnds, At, Using, Inv, Threads
<1>2. UNCHANGED <<uimsgcnt, past, messages, freed, keys, selects, wild, fresh>>
  BY <1>1 DEF rest
<1>3. Top(t) \in Frame /\ uimsgcnt \in Nat
  BY <1>1, TypeStack DEF TypeOK
<1>4. f \in Frame /\ f.pc \in {"next", "fetch"} /\ f.todo = Top(t).todo
  BY <1>3 DEF Frame
<1>5. StackType' /\ Turned(t, f)
  BY <1>1, Goes DEF Pcs
<1> HIDE DEF f
<1>6. uimsgs' \in Seq(0..MaxMessages)
  BY <1>1, ResizedIs
<1>7. TypeOK'
  BY <1>1, <1>2, <1>5, <1>6, SharedType DEF TypeOK, StackType
<1>8. StackInv'
  BY <1>1, <1>2, <1>3, <1>4, <1>5, TurnKeepsStack DEF Busy
<1>9. Depth(t)' > 0 /\ Top(t)' = f /\ OthersStay(t)
  BY <1>5 DEF Turned
<1>10. Knows(Top(t))'
  BY <1>4, <1>9 DEF Knows
<1>11. ~shared => \A j \in 1..uimsgcnt : FALSE
  BY <1>1 DEF CalmInv, FrameInv
<1> QED
  BY <1>1, <1>2, <1>4, <1>7, <1>8, <1>9, <1>10, <1>11, ArrayStep

LEMMA PaintBeginsKeepsInv ==
  ASSUME Inv, Rule, PaintBegins
  PROVE  Inv'
<1> DEFINE t == Window
<1>1. /\ UNCHANGED <<array, messages, freed, keys, rest, fresh>>
      /\ TypeOK /\ StackInv /\ (~shared => CalmInv) /\ t \in Threads
  BY DEF PaintBegins, Inv, Threads
<1>2. UNCHANGED <<uimsgs, uimsgcnt, past, messages, freed, keys, selects, wild, fresh>>
  BY <1>1 DEF array, rest
<1>3. StackType /\ uimsgcnt \in Nat /\ Len(messages) \in Nat
  BY <1>1, TypeStack DEF TypeOK
<1>4. ASSUME NEW f \in Frame, f.pc = "painting", f.n = uimsgcnt, StackType', StackInv',
             Depth(t)' > 0, Top(t)' = f, OthersStay(t), ~At(t, "free")
      PROVE  Inv'
  <2>1. TypeOK'
    BY <1>1, <1>2, <1>4, SharedType DEF TypeOK, StackType
  <2>2. Using(t)' /\ Knows(Top(t))'
    BY <1>2, <1>4 DEF Using, Knows
  <2>3. CASE shared'
    BY <1>1, <1>4, <1>2, <2>1, <2>3 DEF Inv, WildHasCause, LoopInv, At, Rule
  <2>4. CASE ~shared'
    <3>1. ~At(Window, "free") /\ ~shared /\ CalmInv
      BY <1>1, <1>4, <2>4, Sharing
    <3>2. \A j \in 1..uimsgcnt : j \in Live /\ j \in 1..Len(uimsgs)
      BY <3>1 DEF CalmInv, ArrayInv, Live
    <3> QED
      BY <1>1, <1>2, <1>4, <2>1, <2>2, <3>2, ArrayStep
  <2> QED
    BY <2>3, <2>4
<1>5. CASE /\ At(t, "paint")
           /\ stack' = [stack EXCEPT ![t][Depth(t)].n = uimsgcnt,
                                     ![t][Depth(t)].pc = "painting"]
  <2> DEFINE f == [[Top(t) EXCEPT !.n = uimsgcnt] EXCEPT !.pc = "painting"]
  <2>1. Depth(t) > 0 /\ Top(t).pc = "paint" /\ ~At(t, "free") /\ Top(t) \in Frame
    BY <1>1, <1>5, TypeStack DEF At
  <2>2. stack' = [stack EXCEPT ![t][Depth(t)] = f]
    BY <1>1, <1>3, <1>5, <2>1, TypeStack DEF Top, StackType
  <2>3. f \in Frame /\ f.pc = "painting" /\ f.n = uimsgcnt /\ f.todo = Top(t).todo
    <3> DEFINE g == [Top(t) EXCEPT !.n = uimsgcnt]
    <3>1. g \in Frame /\ g.n = uimsgcnt /\ g.todo = Top(t).todo
      BY <1>3, <2>1 DEF Frame
    <3> HIDE DEF g
    <3>2. f = [g EXCEPT !.pc = "painting"]
      BY DEF g
    <3> HIDE DEF f
    <3> QED
      BY <3>1, <3>2 DEF Frame
  <2> HIDE DEF f
  <2>4. StackType' /\ Turned(t, f)
    BY <1>1, <1>3, <2>1, <2>2, <2>3, Turns
  <2>5. StackInv'
    BY <1>1, <1>2, <1>3, <2>1, <2>3, <2>4, TurnKeepsStack DEF Busy
  <2> QED
    BY <1>4, <2>1, <2>3, <2>4, <2>5 DEF Turned
<1>6. CASE InLoop /\ Push(t, [Handler("painting", <<>>) EXCEPT !.n = uimsgcnt])
  <2> DEFINE h == Handler("painting", <<>>)
             f == [h EXCEPT !.n = uimsgcnt]
  <2>1. h \in Frame /\ h.pc = "painting" /\ h.todo = <<>>
    <3>1. "painting" \in Pcs /\ <<>> \in Seq(Nat)
      BY DEF Pcs
    <3> QED
      BY <3>1, NewHandler DEF Handler
  <2> HIDE DEF h
  <2>2. f \in Frame /\ f.pc = "painting" /\ f.n = uimsgcnt /\ f.todo = <<>>
    BY <1>3, <2>1 DEF Frame
  <2>3. Push(t, f)
    BY <1>6 DEF h
  <2> HIDE DEF f
  <2>4. StackType' /\ Begun(t, f)
    BY <1>1, <1>3, <2>2, <2>3, Begins
  <2>5. PcsFit' /\ TodosStay
    BY <1>1, <1>6, <2>2, <2>4, BegunFits DEF InLoop, Busy
  <2>6. StackInv'
    BY <1>1, <1>2, <1>3, <2>5, StackKept
  <2>7. ~At(t, "free") /\ Depth(t)' > 0
    BY <1>1, <1>6, <2>4, TypeStack DEF InLoop, At, Begun
  <2> QED
    BY <1>4, <2>2, <2>4, <2>6, <2>7 DEF Begun
<1> QED
  BY <1>5, <1>6 DEF PaintBegins

-----------------------------------------------------------------------------
(* The invariant holds.                                                     *)

LEMMA InitInv == Init => Inv
<1> SUFFICES ASSUME Init PROVE Inv
  OBVIOUS
<1>1. /\ uimsgs = <<0>> /\ uimsgcnt = 0 /\ messages = <<>> /\ freed = {} /\ selects = 0
      /\ wild = FALSE /\ shared = FALSE /\ past = {} /\ fresh = {}
      /\ stack = [t \in Threads |-> <<>>] /\ keys = [u \in Users |-> {}]
  BY DEF Init
<1>2. \A t \in Threads : Depth(t) = 0
  BY <1>1 DEF Depth
<1>3. TypeOK
  <2>1. uimsgs \in Seq(0..MaxMessages) /\ uimsgcnt \in 0..MaxMessages /\ selects \in 0..MaxSelects
    <3>1. 0 \in 0..MaxMessages /\ 0 \in 0..MaxSelects
      BY BoundsAssumption
    <3> DEFINE S == 0..MaxMessages
    <3> HIDE DEF S
    <3>2. 0 \in S => <<0>> \in Seq(S)
      OBVIOUS
    <3> QED
      BY <1>1, <3>1, <3>2 DEF S
  <2>2. messages \in Seq([user : Users, live : BOOLEAN]) /\ Len(messages) <= MaxMessages
    <3> DEFINE S == [user : Users, live : BOOLEAN]
    <3> HIDE DEF S
    <3>1. <<>> \in Seq(S) /\ Len(<<>>) = 0
      BY EmptySeq
    <3> QED
      BY <1>1, <3>1, BoundsAssumption DEF S
  <2>3. stack \in [Threads -> Seq(Frame)]
    BY <1>1
  <2>4. wild \in BOOLEAN /\ shared \in BOOLEAN
    BY <1>1, Zenon
  <2> QED
    BY <1>1, <2>1, <2>2, <2>3, <2>4 DEF TypeOK
<1>4. StackInv
  <2>1. Cardinality({}) = 0
    BY FS_EmptySet
  <2> QED
    BY <1>1, <1>2, <2>1 DEF StackInv
<1>5. \A t \in Threads : ~Using(t) /\ ~Keying(t) /\ \A pc : ~At(t, pc)
  BY <1>2 DEF At, Using, Keying
<1>6. CalmInv
  <2>1. Window \in Threads /\ Gateway \in Threads
    BY DEF Threads
  <2>2. ArrayInv
    BY <1>1, <1>5, <2>1 DEF ArrayInv, Apart, Live
  <2>3. FrameInv
    BY <1>5, <2>1 DEF FrameInv
  <2>4. KeyInv
    BY <1>1, <1>5, <2>1 DEF KeyInv
  <2> QED
    BY <2>2, <2>3, <2>4 DEF CalmInv
<1>7. LoopInv
  BY <1>5 DEF LoopInv, Threads
<1> QED
  BY <1>1, <1>3, <1>4, <1>6, <1>7 DEF Inv, WildHasCause

LEMMA StepInv == Inv /\ [Next]_vars => Inv'
<1> SUFFICES ASSUME Inv, [Next]_vars PROVE Inv'
  OBVIOUS
<1>1. CASE Next
  <2>1. Rule /\ Steps
    BY <1>1, Zenon DEF Next, Rule
  <2>2. CASE Select
    BY <2>1, <2>2, SelectKeepsInv
  <2>3. CASE GetHistory
    BY <2>1, <2>3, GetHistoryKeepsInv
  <2>4. CASE Receive
    BY <2>1, <2>4, ReceiveKeepsInv
  <2>5. CASE Clear
    BY <2>1, <2>5, ClearBeginsKeepsInv, FreeEntryKeepsInv, ShrinkBeginsKeepsInv,
       ShrinkEndsKeepsInv DEF Clear
  <2>6. CASE PaintBegins
    BY <2>1, <2>6, PaintBeginsKeepsInv
  <2>7. CASE PaintEnds \/ PaintLive
    BY <2>1, <2>7, PaintedKeepsInv
  <2>8. ASSUME NEW t \in Threads, NextMessage(t) PROVE Inv'
    BY <2>1, <2>8, NextMessageKeepsInv
  <2>9. ASSUME NEW t \in Threads, SetPfp(t) \/ CloseBox(t) PROVE Inv'
    BY <2>1, <2>9, PfpKeepsInv
  <2>11. ASSUME NEW t \in Threads, SetKey(t) PROVE Inv'
    BY <2>1, <2>11, SetKeyKeepsInv
  <2>10. ASSUME NEW t \in Threads, Insert(t) PROVE Inv'
    BY <2>1, <2>10, GrowBeginsKeepsInv, GrowEndsKeepsInv, WriteEntryKeepsInv,
       CountEntryKeepsInv DEF Insert
  <2> QED
    BY <2>1, <2>2, <2>3, <2>4, <2>5, <2>6, <2>7, <2>8, <2>9, <2>10, <2>11, Zenon DEF Steps
<1>2. CASE UNCHANGED vars
  <2>1. UNCHANGED <<uimsgs, uimsgcnt, past, stack, messages, freed, keys, selects, wild, shared,
                    fresh>>
    BY <1>2 DEF vars, array
  <2> QED
    BY <2>1 DEF Inv, TypeOK, StackInv, LoopInv, CalmInv, ArrayInv, FrameInv, KeyInv, WildHasCause,
       FreesLive, Live, Apart, Using, Keying, There, Moving, Todo, At, Top, Depth
<1> QED
  BY <1>1, <1>2

LEMMA InvHolds == Spec => []Inv
BY InitInv, StepInv, PTL DEF Spec

-----------------------------------------------------------------------------
(* Theorems.                                                                *)

\* The variables keep their types, for any number of messages, channels
\* selected and nested handlers.
THEOREM TypeCorrect == Spec => []TypeOK
<1>1. Inv => TypeOK
  BY DEF Inv
<1> QED BY <1>1, InvHolds, PTL

\* ClearChatControl and InsertChatMessage use no entry of uimsgs that is not
\* there and free no string twice, unless two threads were inside at once or a
\* message came live, whose strings are not all its own.
THEOREM WildExplained == Spec => []WildHasCause
<1>1. Inv => WildHasCause
  BY DEF Inv
<1> QED BY <1>1, InvHolds, PTL

\* ClearChatControl frees the strings of no message that the list shows or that
\* a suspended insertion will still show.
THEOREM AliveShown == Spec => []ShownAreAlive
<1>1. ASSUME Inv PROVE ShownAreAlive
  <2> SUFFICES ASSUME ~shared
               PROVE  /\ \A i \in 1..uimsgcnt : uimsgs[i] \notin freed
                      /\ \A m \in freed : \A t \in Threads : \A k \in 1..Depth(t) :
                           \A i \in 1..Len(stack[t][k].todo) : stack[t][k].todo[i] # m
    BY DEF ShownAreAlive
  <2>1. StackInv /\ ArrayInv /\ FrameInv
    BY <1>1 DEF Inv, CalmInv
  <2>2. \A i \in 1..uimsgcnt : uimsgs[i] \notin freed
    <3>1. At(Window, "free") => uimsgcnt = 0
      BY <2>1 DEF FrameInv
    <3>2. 1..0 = {} /\ (~At(Window, "free") => Live = 1..uimsgcnt)
      BY DEF Live
    <3> QED
      BY <2>1, <3>1, <3>2 DEF ArrayInv
  <2>3. ASSUME NEW t \in Threads, NEW k \in 1..Depth(t), NEW i \in 1..Len(stack[t][k].todo)
        PROVE  stack[t][k].todo[i] \notin freed
    <3>1. i \in 1..Len(Todo(t, k)) /\ Todo(t, k)[i] = stack[t][k].todo[i]
      BY DEF Todo
    <3>2. Todo(t, k)[i] \notin past
      BY <2>1, <3>1 DEF StackInv
    <3> QED
      BY <2>1, <3>1, <3>2 DEF ArrayInv
  <2> QED
    BY <2>2, <2>3
<1> QED BY <1>1, InvHolds, PTL

\* Although ClearChatControl frees strings that are keys of pfp_map, WM_PAINT
\* finds the picture of each message that set one, until both threads have
\* been in pfp_map, or in the list, at once.
THEOREM PicturesFound == Spec => []PictureFound
<1>1. ASSUME Inv PROVE PictureFound
  <2> SUFFICES ASSUME ~shared, NEW i \in 1..uimsgcnt, uimsgs[i] \in fresh
               PROVE  \E m \in keys[messages[uimsgs[i]].user] : m \notin freed
    BY DEF PictureFound
  <2>1. KeyInv
    BY <1>1 DEF Inv, CalmInv
  <2> QED
    BY <2>1 DEF KeyInv
<1> QED BY <1>1, InvHolds, PTL

-----------------------------------------------------------------------------
(* The list that callers rely on.                                           *)

\* The array with its count, as MessageStore maps it.
Listed == IF shared THEN <<>> ELSE Shown
Counted == IF shared THEN {} ELSE past

ShownIsList ==
  /\ Shown \in Seq(0..MaxMessages) /\ Len(Shown) = uimsgcnt
  /\ \A i \in 1..uimsgcnt : i <= Len(uimsgs) => Shown[i] = uimsgs[i]

LEMMA ShownIs == TypeOK => ShownIsList
<1> SUFFICES ASSUME TypeOK PROVE ShownIsList
  OBVIOUS
<1>1. uimsgcnt \in Nat
  BY DEF TypeOK
<1>2. Shown = Resized(uimsgcnt)
  BY DEF Shown, Resized
<1> QED
  BY <1>1, <1>2, ResizedIs DEF ShownIsList

\* Entries beyond the count may change.
LEMMA ShownKept ==
  ASSUME TypeOK, TypeOK', uimsgcnt' = uimsgcnt,
         \A i \in 1..uimsgcnt : /\ i <= Len(uimsgs) /\ i <= Len(uimsgs')
                                /\ uimsgs'[i] = uimsgs[i]
  PROVE  Shown' = Shown
BY Zenon DEF Shown

LEMMA ListedInit == Init => List!Init
<1> SUFFICES ASSUME Init PROVE List!Init
  OBVIOUS
<1>1. shared = FALSE /\ past = {} /\ uimsgcnt = 0
  BY DEF Init
<1>2. Shown = <<>>
  <2>1. TypeOK
    BY InitInv DEF Inv
  <2>2. Shown \in Seq(0..MaxMessages) /\ Len(Shown) = 0
    BY <1>1, <2>1, ShownIs DEF ShownIsList
  <2> QED
    BY <2>2, EmptySeq
<1> QED
  BY <1>1, <1>2 DEF List!Init

\* A step of a thread that is inside keeps the list, when the other is not.
LEMMA InsideKeepsShown ==
  ASSUME Inv, Inv', ~shared, NEW t \in Threads,
         GrowEnds(t) \/ (WriteEntry(t) /\ ~wild') \/ ShrinkEnds
  PROVE  Shown' = Shown /\ past' = past
<1>1. TypeOK /\ TypeOK' /\ CalmInv /\ uimsgcnt \in Nat /\ Len(uimsgs) \in Nat
  BY DEF Inv, TypeOK
<1>2. CASE GrowEnds(t)
  <2>1. /\ Using(t) /\ ~At(t, "free") /\ At(t, "grown")
        /\ uimsgs' = Resized(Top(t).n) /\ uimsgcnt' = uimsgcnt /\ past' = past
    BY <1>2 DEF GrowEnds, Using, At
  <2>2. \A j \in 1..uimsgcnt : j \in 1..Len(uimsgs)
    BY <1>1, <2>1, LiveIs
  <2>3. Top(t).n = uimsgcnt + 1
    BY <1>1, <2>1 DEF CalmInv, FrameInv
  <2>4. /\ Len(uimsgs') = uimsgcnt + 1
        /\ \A i \in 1..uimsgcnt + 1 : i <= Len(uimsgs) => uimsgs'[i] = uimsgs[i]
    BY <1>1, <2>1, <2>3, ResizedIs
  <2>5. \A i \in 1..uimsgcnt : /\ i <= Len(uimsgs) /\ i <= Len(uimsgs')
                               /\ uimsgs'[i] = uimsgs[i]
    BY <1>1, <2>2, <2>4
  <2> QED
    BY <1>1, <2>1, <2>5, ShownKept
<1>3. CASE WriteEntry(t) /\ ~wild'
  <2>1. ~(Moving(t) \/ uimsgcnt + 1 > Len(uimsgs))
    BY <1>3, Zenon DEF WriteEntry, Wild
  <2>2. /\ Using(t) /\ ~At(t, "free")
        /\ uimsgs' = [uimsgs EXCEPT ![uimsgcnt + 1] = Head(Top(t).todo)]
        /\ uimsgcnt' = uimsgcnt /\ past' = past
    BY <1>3, <2>1 DEF WriteEntry, Using, At
  <2>3. \A j \in 1..uimsgcnt : j \in 1..Len(uimsgs)
    BY <1>1, <2>2, LiveIs
  <2>4. Len(uimsgs') = Len(uimsgs) /\ \A i \in 1..uimsgcnt : uimsgs'[i] = uimsgs[i]
    BY <1>1, <2>2, <2>3 DEF TypeOK
  <2> QED
    BY <1>1, <2>2, <2>3, <2>4, ShownKept
<1>4. CASE ShrinkEnds
  <2>1. At(Window, "shrunk") /\ uimsgcnt' = uimsgcnt /\ past' = past
    BY <1>4 DEF ShrinkEnds
  <2>2. uimsgcnt = 0
    BY <1>1, <2>1 DEF CalmInv, FrameInv
  <2> QED
    BY <1>1, <2>1, <2>2, ShownKept
<1> QED
  BY <1>2, <1>3, <1>4

\* CountEntry adds the message at hand.
LEMMA CountAdds ==
  ASSUME Inv, Inv', ~shared, NEW t \in Threads, CountEntry(t)
  PROVE  \E m \in 1..MaxMessages : /\ m \notin past /\ Shown' = Append(Shown, m)
                                   /\ past' = past \cup {m}
<1> DEFINE m == Head(Top(t).todo)
           S == 0..MaxMessages
<1>1. /\ TypeOK /\ TypeOK' /\ StackInv /\ CalmInv /\ Using(t) /\ ~At(t, "free")
      /\ At(t, "count") /\ Depth(t) > 0 /\ Top(t).pc = "count"
      /\ uimsgcnt' = uimsgcnt + 1 /\ past' = past \cup {m} /\ uimsgs' = uimsgs
  BY DEF CountEntry, Using, At, Inv
<1>2. uimsgcnt \in Nat /\ Len(uimsgs) \in Nat /\ Len(messages) \in Nat
      /\ Len(messages) <= MaxMessages
  BY <1>1 DEF TypeOK
<1>3. m \in 1..MaxMessages /\ m \notin past
  BY <1>1, <1>2, TopBusy, BoundsAssumption DEF Busy
<1>4. Len(uimsgs) >= uimsgcnt + 1 /\ uimsgs[uimsgcnt + 1] = m
  BY <1>1 DEF CalmInv, FrameInv
<1> HIDE DEF m
<1>5. m \in S
  BY <1>3, BoundsAssumption
<1>6. /\ Shown \in Seq(S) /\ Len(Shown) = uimsgcnt
      /\ \A i \in 1..uimsgcnt : i <= Len(uimsgs) => Shown[i] = uimsgs[i]
  BY <1>1, ShownIs DEF ShownIsList
<1>7. /\ Shown' \in Seq(S) /\ Len(Shown') = uimsgcnt + 1
      /\ \A i \in 1..uimsgcnt + 1 : i <= Len(uimsgs) => Shown'[i] = uimsgs[i]
  <2>1. TypeOK' => ShownIsList'
    BY ShownIs, PTL
  <2> QED
    BY <1>1, <2>1 DEF ShownIsList
<1> HIDE DEF S
<1>8. /\ Append(Shown, m) \in Seq(S) /\ Len(Append(Shown, m)) = uimsgcnt + 1
      /\ Append(Shown, m)[uimsgcnt + 1] = m
      /\ \A i \in 1..uimsgcnt : Append(Shown, m)[i] = Shown[i]
  BY <1>5, <1>6, AppendProperties
<1>9. \A i \in 1..uimsgcnt + 1 : Shown'[i] = Append(Shown, m)[i]
  <2> SUFFICES ASSUME NEW i \in 1..uimsgcnt + 1 PROVE Shown'[i] = Append(Shown, m)[i]
    OBVIOUS
  <2>1. i <= Len(uimsgs) /\ Shown'[i] = uimsgs[i]
    BY <1>2, <1>4, <1>7
  <2>2. i \in 1..uimsgcnt \/ i = uimsgcnt + 1
    BY <1>2
  <2> QED
    BY <1>4, <1>6, <1>8, <2>1, <2>2
<1>10. Shown' = Append(Shown, m)
  BY <1>7, <1>8, <1>9, SeqEqual
<1> QED
  BY <1>1, <1>3, <1>10

\* ClearChatControl empties the list when it resets the count.
LEMMA ClearEmpties ==
  ASSUME Inv', ClearBegins
  PROVE  Shown' = <<>> /\ past' = past
<1>1. TypeOK' /\ uimsgcnt' = 0 /\ past' = past
  BY DEF Inv, ClearBegins
<1>2. Shown' \in Seq(0..MaxMessages) /\ Len(Shown') = 0
  <2>1. TypeOK' => ShownIsList'
    BY ShownIs, PTL
  <2> QED
    BY <1>1, <2>1 DEF ShownIsList
<1> QED
  BY <1>1, <1>2, EmptySeq

\* All other steps leave the array and its count alone.
LEMMA OthersKeepShown ==
  ASSUME Steps, ~wild, ~ClearBegins, ~ShrinkEnds,
         \A t \in Threads : ~GrowEnds(t) /\ ~CountEntry(t) /\ ~(WriteEntry(t) /\ ~wild')
  PROVE  Shown' = Shown /\ past' = past
<1>1. UNCHANGED array
  <2>1. Wild => UNCHANGED array
    BY DEF Wild
  <2>2. CASE Select \/ GetHistory \/ Receive \/ PaintBegins \/ PaintEnds \/ PaintLive
    BY <2>1, <2>2 DEF Select, GetHistory, Receive, PaintBegins, PaintEnds, PaintLive
  <2>3. CASE Clear
    <3>1. FreeEntry \/ ShrinkBegins
      BY <2>3 DEF Clear
    <3> QED
      BY <2>1, <3>1 DEF FreeEntry, ShrinkBegins
  <2>4. ASSUME NEW t \in Threads, NextMessage(t) \/ SetPfp(t) \/ CloseBox(t) \/ SetKey(t)
        PROVE  UNCHANGED array
    BY <2>1, <2>4 DEF NextMessage, SetPfp, CloseBox, SetKey
  <2>5. ASSUME NEW t \in Threads, Insert(t) PROVE UNCHANGED array
    <3>1. GrowBegins(t) \/ (WriteEntry(t) /\ wild')
      BY <2>5 DEF Insert
    <3>2. CASE GrowBegins(t)
      BY <2>1, <3>2 DEF GrowBegins
    <3>3. CASE WriteEntry(t) /\ wild'
      BY <2>1, <3>3 DEF WriteEntry, rest
    <3> QED
      BY <3>1, <3>2, <3>3
  <2> QED
    BY <2>2, <2>3, <2>4, <2>5, Zenon DEF Steps
<1> QED
  BY <1>1 DEF array, Shown

LEMMA ListedStep == Inv /\ Inv' /\ [Next]_vars => [List!Next]_<<Listed, Counted, shared>>
<1> SUFFICES ASSUME Inv, Inv', [Next]_vars
             PROVE  List!Next \/ UNCHANGED <<Listed, Counted, shared>>
  OBVIOUS
<1>1. shared \in BOOLEAN /\ shared' \in BOOLEAN
  BY Zenon DEF Inv, TypeOK
<1>2. CASE UNCHANGED vars
  <2>1. shared' = shared /\ Shown' = Shown /\ past' = past
    BY <1>2 DEF vars, array, Shown
  <2> QED
    BY <2>1 DEF Listed, Counted
<1>3. CASE Next
  <2>1. Rule /\ Steps /\ ~wild
    BY <1>3, Zenon DEF Next, Rule
  <2>2. CASE shared
    <3>1. shared' = shared
      BY <1>1, <2>1, <2>2, Zenon DEF Rule
    <3> QED
      BY <2>2, <3>1 DEF Listed, Counted
  <2>3. CASE ~shared /\ shared'
    <3>1. shared' = TRUE
      BY <1>1, <2>3
    <3>2. List!Lose
      BY <3>1 DEF List!Lose
    <3> QED
      BY <3>2 DEF List!Next
  <2>4. CASE ~shared /\ ~shared'
    <3>1. shared' = shared
      BY <1>1, <2>4
    <3>2. /\ Listed = Shown /\ Listed' = Shown' /\ Counted = past /\ Counted' = past'
      BY <2>4 DEF Listed, Counted
    <3>3. Shown' = Shown /\ past' = past => UNCHANGED <<Listed, Counted, shared>>
      BY <3>1, <3>2
    <3>4. CASE ClearBegins
      <4>1. Shown' = <<>> /\ past' = past
        BY <3>4, ClearEmpties
      <4>2. List!Clear
        BY <2>4, <3>1, <4>1 DEF List!Clear
      <4> QED
        BY <4>2 DEF List!Next
    <3>5. ASSUME NEW t \in Threads, CountEntry(t) PROVE List!Next
      <4>1. PICK m \in 1..MaxMessages : m \notin past /\ Shown' = Append(Shown, m)
                                        /\ past' = past \cup {m}
        BY <2>4, <3>5, CountAdds
      <4>2. List!Add(m)
        BY <2>4, <3>1, <4>1 DEF List!Add
      <4> QED
        BY <4>2 DEF List!Next
    <3>6. ASSUME NEW t \in Threads, GrowEnds(t) \/ (WriteEntry(t) /\ ~wild') \/ ShrinkEnds
          PROVE  Shown' = Shown /\ past' = past
      BY <2>4, <3>6, InsideKeepsShown
    <3>7. CASE ShrinkEnds
      BY <3>3, <3>6, <3>7 DEF Threads
    <3>8. CASE /\ ~ClearBegins /\ ~ShrinkEnds
               /\ \A t \in Threads : ~GrowEnds(t) /\ ~CountEntry(t) /\ ~(WriteEntry(t) /\ ~wild')
      BY <2>1, <3>3, <3>8, OthersKeepShown
    <3> QED
      BY <3>3, <3>4, <3>5, <3>6, <3>7, <3>8
  <2> QED
    BY <2>2, <2>3, <2>4
<1> QED
  BY <1>2, <1>3

\* As long as no two threads are inside at once, the array with its count is a
\* list to which InsertChatMessage adds one message at a time, none twice, and
\* which ClearChatControl empties at once.
THEOREM StoresList == Spec => ImplementsList
<1>1. Inv /\ Inv' /\ [Next]_vars => [List!Next]_<<Listed, Counted, shared>>
  BY ListedStep
<1> QED
  BY <1>1, ListedInit, InvHolds, PTL DEF Spec, ImplementsList, List!Spec, List!vars, Listed, Counted

-----------------------------------------------------------------------------
(* Where WM_PAINT puts the pictures.                                        *)

\* A set of numbers that is not empty has a least one.
LEMMA Least ==
  ASSUME NEW T, T \subseteq Nat, T # {}
  PROVE  \E x \in T : \A y \in T : x <= y
<1> DEFINE R == OpToRel(<, Nat)
<1>1. IsWellFoundedOn(R, Nat)
  BY NatLessThanWellFounded
<1>2. \A x, y \in Nat : y < x => <<y, x>> \in R
  BY DEF OpToRel
<1> HIDE DEF R
<1>3. PICK x \in T : \A y \in T : <<y, x>> \notin R
  BY <1>1, WFMin
<1>4. ASSUME NEW y \in T PROVE x <= y
  <2>1. <<y, x>> \notin R /\ x \in Nat /\ y \in Nat
    BY <1>3
  <2>2. ~(y < x)
    BY <1>2, <2>1, Zenon
  <2> QED
    BY <2>1, <2>2
<1> QED
  BY <1>4

\* Induction, for a set.
LEMMA Inductive ==
  ASSUME NEW S, 0 \in S, \A n \in Nat : n \in S => n + 1 \in S
  PROVE  \A n \in Nat : n \in S
<1> DEFINE T == {n \in Nat : n \notin S}
<1>1. SUFFICES ASSUME T # {} PROVE FALSE
  OBVIOUS
<1>2. PICK x \in T : \A y \in T : x <= y
  BY <1>1, Least
<1>3. x \in Nat \ {0} /\ x - 1 \in Nat /\ x - 1 \notin T
  BY <1>2
<1>4. x - 1 \in S /\ (x - 1) + 1 = x
  BY <1>3
<1> QED
  BY <1>2, <1>3, <1>4

\* The height of message i.
Height(list, i) == Layout!TotalMessageHeight(list, i)
Start(list, i)  == Layout!IsStartMsg(list, i) = TRUE

\* A list of messages whose text has one line, two or none.
Lined(list) == /\ Len(list) \in Nat
               /\ \A i \in 1..Len(list) : list[i].text \in Layout!Lines

\* f gives each of n messages its top, and the place after them.
Tops(list, n, f) ==
  f = [k \in 1..(n + 1) |-> IF k = 1 THEN 0 ELSE f[k - 1] + Height(list, k - 1)]

LEMMA TopsExist ==
  ASSUME NEW list
  PROVE  \A n \in Nat : \E f : Tops(list, n, f)
<1> DEFINE S == {n \in Nat : \E f : Tops(list, n, f)}
<1>1. 0 \in S
  <2> DEFINE f == [k \in 1..(0 + 1) |-> 0]
  <2>1. f = [k \in 1..(0 + 1) |-> IF k = 1 THEN 0 ELSE f[k - 1] + Height(list, k - 1)]
    OBVIOUS
  <2> HIDE DEF f
  <2>2. Tops(list, 0, f)
    BY <2>1 DEF Tops
  <2> QED
    BY <2>2
<1>2. ASSUME NEW n \in Nat, n \in S PROVE n + 1 \in S
  <2>1. PICK f : Tops(list, n, f)
    BY <1>2
  <2>2. \A k \in 1..(n + 1) : f[k] = IF k = 1 THEN 0 ELSE f[k - 1] + Height(list, k - 1)
    BY <2>1 DEF Tops
  <2> DEFINE last == f[n + 1] + Height(list, n + 1)
             g == [k \in 1..((n + 1) + 1) |-> IF k <= n + 1 THEN f[k] ELSE last]
  <2>3. \A k \in 1..((n + 1) + 1) : g[k] = IF k <= n + 1 THEN f[k] ELSE last
    OBVIOUS
  <2>4. g = [k \in 1..((n + 1) + 1) |-> g[k]]
    OBVIOUS
  <2> HIDE DEF g
  <2>5. ASSUME NEW k \in 1..((n + 1) + 1)
        PROVE  g[k] = IF k = 1 THEN 0 ELSE g[k - 1] + Height(list, k - 1)
    <3>1. CASE k <= n + 1
      <4>1. k \in 1..(n + 1) /\ (k # 1 => g[k - 1] = f[k - 1]) /\ g[k] = f[k]
        BY <2>3, <3>1
      <4> QED
        BY <2>2, <4>1
    <3>2. CASE k = (n + 1) + 1
      <4>1. k # 1 /\ k - 1 = n + 1 /\ g[k - 1] = f[n + 1] /\ g[k] = last
        BY <2>3, <3>2
      <4> QED
        BY <4>1
    <3> QED
      BY <3>1, <3>2
  <2>6. Tops(list, n + 1, g)
    BY <2>4, <2>5 DEF Tops
  <2> QED
    BY <2>6
<1> HIDE DEF S
<1>3. \A n \in Nat : n \in S
  BY <1>1, <1>2, Inductive
<1> QED
  BY <1>3 DEF S

\* Each message begins where the one before it ends.
LEMMA TopIs ==
  ASSUME NEW list, Len(list) \in Nat
  PROVE  /\ Layout!Top(list, 1) = 0
         /\ \A k \in 1..Len(list) : Layout!Top(list, k + 1) = Layout!Top(list, k) + Height(list, k)
<1>1. \A i : Layout!Top(list, i) = (CHOOSE f : Tops(list, Len(list), f))[i]
  BY DEF Layout!Top, Tops, Height
<1>2. PICK f : Tops(list, Len(list), f) /\ \A i : Layout!Top(list, i) = f[i]
  BY <1>1, TopsExist
<1>3. PICK n \in Nat : n = Len(list)
  OBVIOUS
<1>4. \A k \in 1..(n + 1) : f[k] = IF k = 1 THEN 0 ELSE f[k - 1] + Height(list, k - 1)
  BY <1>2, <1>3 DEF Tops
<1>5. f[1] = 0
  BY <1>4
<1>6. ASSUME NEW k \in 1..n PROVE f[k + 1] = f[k] + Height(list, k)
  <2>1. k + 1 \in 1..(n + 1) /\ k + 1 # 1 /\ (k + 1) - 1 = k
    OBVIOUS
  <2> QED
    BY <1>4, <2>1
<1> QED
  BY <1>2, <1>3, <1>5, <1>6

\* A row of one message has room for the picture.
LEMMA HeightIs ==
  ASSUME NEW list, Lined(list), NEW i \in 1..Len(list)
  PROVE  /\ Height(list, i) \in Nat
         /\ ~Start(list, i) => Height(list, i) = list[i].text
         /\ Start(list, i) => Height(list, i) >= 15 + list[i].text
         /\ Start(list, i) /\ (i = Len(list) \/ Start(list, i + 1)) => Height(list, i) >= 46
<1>1. list[i].text \in {0, 13, 26} /\ Len(list) \in Nat /\ i \in Nat
  BY DEF Lined, Layout!Lines
<1> DEFINE t == list[i].text
           p == Layout!PushBack(list, i)
<1>2. t \in Nat
  BY <1>1
<1>3. Height(list, i) =
        IF ~Start(list, i) THEN t
        ELSE IF p THEN 15 + t ELSE (IF 15 + t > 40 THEN 15 + t ELSE 40) + 6
  BY DEF Height, Start, Layout!TotalMessageHeight, Layout!UsernameFieldHeight, Layout!PfpSize,
         Layout!IsStartMsg
<1>4. i = Len(list) \/ Start(list, i + 1) => ~p
  BY <1>1 DEF Start, Layout!PushBack
<1> HIDE DEF t, p
<1>5. /\ Height(list, i) \in Nat
      /\ ~Start(list, i) => Height(list, i) = t
      /\ Start(list, i) => Height(list, i) >= 15 + t
      /\ Start(list, i) /\ ~p => Height(list, i) >= 46
  BY <1>2, <1>3
<1> QED
  BY <1>4, <1>5 DEF t

LEMMA TopsRise ==
  ASSUME NEW list, Lined(list), NEW a \in 1..(Len(list) + 1), NEW b \in a..(Len(list) + 1)
  PROVE  /\ Layout!Top(list, a) \in Nat /\ Layout!Top(list, b) \in Nat
         /\ Layout!Top(list, a) <= Layout!Top(list, b)
<1>1. PICK n \in Nat : n = Len(list)
  BY DEF Lined
<1> DEFINE top(k) == Layout!Top(list, k)
           h(k) == Height(list, k)
<1>2. top(1) = 0 /\ \A k \in 1..n : top(k + 1) = top(k) + h(k) /\ h(k) \in Nat
  BY <1>1, TopIs, HeightIs
<1> HIDE DEF top, h
<1>3. \A k \in 1..(n + 1) : top(k) \in Nat
  <2> DEFINE T == {k \in 1..(n + 1) : top(k) \notin Nat}
  <2>1. SUFFICES ASSUME T # {} PROVE FALSE
    OBVIOUS
  <2>2. T \subseteq Nat
    OBVIOUS
  <2>3. PICK x \in T : \A y \in T : x <= y
    BY <2>1, <2>2, Least
  <2>4. x \in 1..(n + 1) /\ top(x) \notin Nat /\ x # 1
    BY <1>2, <2>3
  <2>5. x - 1 \in 1..n /\ x - 1 \in 1..(n + 1) /\ ~(x <= x - 1) /\ (x - 1) + 1 = x
    BY <2>4
  <2>6. top(x - 1) \in Nat
    BY <2>3, <2>5
  <2>7. top((x - 1) + 1) = top(x - 1) + h(x - 1) /\ h(x - 1) \in Nat
    BY <1>2, <2>5
  <2> QED
    BY <2>4, <2>5, <2>6, <2>7
<1>4. ASSUME NEW c \in 1..(n + 1) PROVE \A k \in c..(n + 1) : top(c) <= top(k)
  <2> DEFINE T == {k \in c..(n + 1) : ~(top(c) <= top(k))}
  <2>1. SUFFICES ASSUME T # {} PROVE FALSE
    OBVIOUS
  <2>2. T \subseteq Nat
    OBVIOUS
  <2>3. PICK x \in T : \A y \in T : x <= y
    BY <2>1, <2>2, Least
  <2>4. x \in c..(n + 1) /\ ~(top(c) <= top(x)) /\ top(c) \in Nat
    BY <1>3, <2>3
  <2>5. x # c
    BY <2>4
  <2>6. x - 1 \in 1..n /\ x - 1 \in c..(n + 1) /\ ~(x <= x - 1) /\ (x - 1) + 1 = x
    BY <2>4, <2>5
  <2>7. top(c) <= top(x - 1)
    BY <2>3, <2>6
  <2>8. top((x - 1) + 1) = top(x - 1) + h(x - 1) /\ h(x - 1) \in Nat /\ top(x - 1) \in Nat
    BY <1>2, <1>3, <2>6
  <2> QED
    BY <2>4, <2>6, <2>7, <2>8
<1>5. a \in 1..(n + 1) /\ b \in a..(n + 1) /\ b \in 1..(n + 1)
  BY <1>1
<1> QED
  BY <1>3, <1>4, <1>5 DEF top

\* A row ends before the next one starts.
LEMMA RowEnds ==
  ASSUME NEW list, Len(list) \in Nat, NEW i \in 1..Len(list)
  PROVE  LET j == Layout!RowEnd(list, i)
         IN  /\ j \in i..Len(list)
             /\ \A k \in (i + 1)..j : ~Start(list, k)
             /\ j = Len(list) \/ Start(list, j + 1)
<1> DEFINE P(j) == /\ \A k \in (i + 1)..j : ~Layout!IsStartMsg(list, k)
                   /\ j = Len(list) \/ Layout!IsStartMsg(list, j + 1)
           T == {j \in i..Len(list) : j = Len(list) \/ Layout!IsStartMsg(list, j + 1)}
<1>1. T \subseteq Nat /\ T # {}
  BY Len(list) \in i..Len(list)
<1>2. PICK x \in T : \A y \in T : x <= y
  BY <1>1, Least
<1>3. ASSUME NEW k \in (i + 1)..x PROVE ~Layout!IsStartMsg(list, k)
  <2>1. k - 1 \in i..Len(list) /\ ~(x <= k - 1) /\ (k - 1) + 1 = k
    BY <1>2
  <2>2. k - 1 \notin T
    BY <1>2, <2>1
  <2> QED
    BY <2>1, <2>2
<1>4. P(x) /\ x \in i..Len(list)
  BY <1>2, <1>3
<1>5. Layout!RowEnd(list, i) = CHOOSE j \in i..Len(list) : P(j)
  BY DEF Layout!RowEnd
<1> HIDE DEF P
<1>6. P(Layout!RowEnd(list, i)) /\ Layout!RowEnd(list, i) \in i..Len(list)
  BY <1>4, <1>5
<1> QED
  BY <1>6 DEF P, Start, Layout!IsStartMsg

\* A row of several messages has the name and two lines of text.
LEMMA LaidApart ==
  ASSUME NEW list, Lined(list)
  PROVE  Layout!PicturesApart(list)
<1> SUFFICES ASSUME NEW i \in 1..Len(list), Start(list, i)
             PROVE  \/ Layout!Top(list, Layout!RowEnd(list, i) + 1) >= Layout!Top(list, i) + 40
                    \/ /\ Layout!RowEnd(list, i) > i
                       /\ \E k \in i..Layout!RowEnd(list, i) : list[k].text = 0
  BY DEF Layout!PicturesApart, Layout!Starts, Layout!PfpSize, Start, Layout!IsStartMsg
<1>1. PICK n \in Nat : n = Len(list)
  BY DEF Lined
<1>2. PICK j \in i..n : /\ j = Layout!RowEnd(list, i) /\ \A k \in (i + 1)..j : ~Start(list, k)
                        /\ j = n \/ Start(list, j + 1)
  BY <1>1, RowEnds
<1> DEFINE top(k) == Layout!Top(list, k)
           h(k) == Height(list, k)
<1>3. \A k \in 1..n : top(k + 1) = top(k) + h(k)
  BY <1>1, TopIs
<1>4. \A k \in 1..(n + 1) : top(k) \in Nat
  BY <1>1, TopsRise
<1>5. CASE j = i
  <2>1. h(i) >= 46 /\ h(i) \in Nat
    BY <1>1, <1>2, <1>5, HeightIs
  <2>2. top(i + 1) = top(i) + h(i) /\ top(i) \in Nat
    BY <1>1, <1>3, <1>4
  <2> HIDE DEF top, h
  <2>3. top(i + 1) >= top(i) + 40
    BY <2>1, <2>2
  <2> QED
    BY <1>2, <1>5, <2>3 DEF top
<1>6. CASE j # i
  <2>1. SUFFICES ASSUME \A k \in i..j : list[k].text # 0 PROVE top(j + 1) >= top(i) + 40
    BY <1>2, <1>6
  <2>2. i \in 1..n /\ i + 1 \in 1..n /\ i + 1 \in (i + 1)..j /\ i + 1 \in i..j /\ i \in i..j
    BY <1>1, <1>2, <1>6
  <2>3. \A k \in i..j : k \in 1..n /\ list[k].text \in {13, 26}
    BY <1>1, <1>2, <2>1 DEF Lined, Layout!Lines
  <2>4. h(i) >= 15 + list[i].text /\ h(i) \in Nat
    BY <1>1, HeightIs
  <2>5. h(i + 1) = list[i + 1].text
    BY <1>1, <1>2, <2>2, HeightIs
  <2>6. h(i) >= 28 /\ h(i + 1) >= 13 /\ h(i + 1) \in Nat
    BY <2>2, <2>3, <2>4, <2>5
  <2>7. top(i + 1) = top(i) + h(i) /\ top((i + 1) + 1) = top(i + 1) + h(i + 1) /\ top(i) \in Nat
    BY <1>3, <1>4, <2>2
  <2>8. top((i + 1) + 1) <= top(j + 1) /\ top(j + 1) \in Nat
    <3>1. (i + 1) + 1 \in 1..(n + 1) /\ j + 1 \in ((i + 1) + 1)..(n + 1)
      BY <1>1, <1>2, <1>6
    <3> QED
      BY <1>1, <3>1, TopsRise
  <2>9. \A a, b, c, d, x, y \in Nat :
          b = a + x /\ c = b + y /\ x >= 28 /\ y >= 13 /\ c <= d => d >= a + 40
    OBVIOUS
  <2>10. top(i + 1) \in Nat /\ top((i + 1) + 1) \in Nat /\ h(i) \in Nat
    BY <1>1, <1>2, <1>4, <2>2, <2>4
  <2> HIDE DEF top, h
  <2> QED
    BY <2>6, <2>7, <2>8, <2>9, <2>10, Zenon
<1> QED
  BY <1>5, <1>6

\* However the lists of the two threads' messages come about, no picture is
\* drawn over the next one, except above a message without text in a row of
\* several.
THEOREM PicturesKeptApart == Spec => []PicturesApart
<1>1. TypeOK => PicturesApart
  <2> SUFFICES ASSUME TypeOK, NEW h \in [1..uimsgcnt -> Layout!Lines]
               PROVE  Layout!PicturesApart(Painted(h))
    BY DEF PicturesApart
  <2>1. uimsgcnt \in Nat
    BY BoundsAssumption DEF TypeOK
  <2> DEFINE E(i) == [author |-> messages[uimsgs[i]].user, text |-> h[i]]
             S == {E(i) : i \in 1..uimsgcnt}
             list == Painted(h)
  <2>2. list \in [1..uimsgcnt -> S] /\ \A i \in 1..uimsgcnt : list[i].text = h[i]
    BY DEF Painted
  <2> HIDE DEF S, list
  <2>3. Len(list) = uimsgcnt
    BY <2>1, <2>2
  <2>4. Lined(list)
    BY <2>1, <2>2, <2>3 DEF Lined
  <2> QED
    BY <2>4, LaidApart DEF list
<1> QED
  BY <1>1, TypeCorrect, PTL
=============================================================================
