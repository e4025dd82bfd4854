----------------------------- MODULE IconProofs -----------------------------
(***************************************************************************)
(* Proofs about IconFiles, for any number of runs and of failing fetches;  *)
(* and, from "The images of the DM list" on, about DmList, for any number  *)
(* of channels, of clicks and of fillings inside each other.               *)
(***************************************************************************)
EXTENDS IconFiles, DmsShown, FiniteSetTheorems, TLAPS

\* A closed file that is no picture was spoilt.
SettledFiles ==
  \A h \in Icons : writer[h] = Nobody /\ file[h] \notin {"none", "good"} => h \in spoilt

\* So is one that is about to get something else than a picture.
FetchedData ==
  \A a \in Activities :
    job[a].pc \in {"create", "write"} /\ job[a].data # "good" => job[a].icon \in spoilt

\* A file that somebody has or had open, or is going to read, is there.
Present ==
  /\ \A h \in Icons : writer[h] # Nobody \/ readers[h] # {} => file[h] # "none"
  /\ \A a \in Activities :
       job[a].pc \in {"oof", "open", "decode", "zzz"} => file[job[a].icon] # "none"

\* Who is about to write has the file for itself.
Writing == \A a \in Activities : job[a].pc = "write" => writer[job[a].icon] = a

Causes == SettledFiles /\ FetchedData /\ Present /\ Writing /\ BadReadHasCause
Inv    == TypeOK /\ Causes

LEMMA IdleIsJob == Idle \in Job
BY DEF Idle, Job, Icons, Kinds, Contents

\* What Fetch and Open do to the job keeps it a job.
LEMMA StepOfJob ==
  ASSUME NEW j \in [Activities -> Job], NEW a \in Activities, NEW d \in Contents,
         NEW pc \in {"create", "decode"}
  PROVE  [j EXCEPT ![a].pc = pc, ![a].data = d] \in [Activities -> Job]
BY DEF Job

LEMMA InitInv == Init => Inv
<1> SUFFICES ASSUME Init PROVE Inv
  OBVIOUS
<1> USE BoundsAssumption DEF Init, ForAll
<1>1. job \in [Activities -> Job]
  BY IdleIsJob
<1>2. /\ file \in [Icons -> Contents \cup {"none"}]
      /\ writer \in [Icons -> Activities \cup {Nobody}]
      /\ readers \in [Icons -> SUBSET (Activities \cup {Nobody})]
  OBVIOUS
<1>3. ready \in BOOLEAN /\ spoilt \subseteq Icons
  OBVIOUS
<1>4. run \in 1..MaxRuns /\ faults \in 0..MaxFaults
  OBVIOUS
<1>5. SettledFiles /\ FetchedData /\ Present /\ Writing /\ BadReadHasCause
  BY DEF SettledFiles, FetchedData, Present, Writing, BadReadHasCause, At, Idle
<1> QED
  BY <1>1, <1>2, <1>3, <1>5, <1>4 DEF Inv, TypeOK, Causes

\* A new run keeps the files, and nothing else that Inv speaks of.
LEMMA RestartInv == Inv /\ Restart => Inv'
<1> SUFFICES ASSUME Inv, Restart PROVE Inv'
  OBVIOUS
<1> USE BoundsAssumption DEF Inv, Restart, ForAll
<1>1. (job \in [Activities -> Job])'
  BY IdleIsJob
<1>2. (/\ file \in [Icons -> Contents \cup {"none"}]
       /\ writer \in [Icons -> Activities \cup {Nobody}]
       /\ readers \in [Icons -> SUBSET (Activities \cup {Nobody})])'
  BY DEF TypeOK
<1>3. (ready \in BOOLEAN /\ spoilt \subseteq Icons)'
  BY DEF TypeOK
<1>4. (run \in 1..MaxRuns /\ faults \in 0..MaxFaults)'
  BY DEF TypeOK
<1>5. SettledFiles'
  BY DEF SettledFiles, TypeOK, Causes
<1>6. (FetchedData /\ Present /\ Writing /\ BadReadHasCause)'
  BY DEF FetchedData, Present, Writing, BadReadHasCause, At, Idle
<1> QED
  BY <1>1, <1>2, <1>3, <1>5, <1>6, <1>4 DEF TypeOK, Causes

\* Each step of a handler.
LEMMA StepInv == ASSUME Inv, NEW a \in Activities, Steps(a) PROVE Inv'
<1> USE ActivitiesAssumption, IconsAssumption, BoundsAssumption
    DEF Inv, Causes, TypeOK, Job, SettledFiles, FetchedData, Present, Writing, BadReadHasCause,
        At, Goto, disk, open
<1>1. CASE Show(a)
  BY <1>1 DEF Show, Contents
<1>2. CASE Fetch(a)
  <2>1. TypeOK'
    <3>1. PICK data \in Contents :
            /\ job' = [job EXCEPT ![a].pc = "create", ![a].data = data]
            /\ faults' = IF data = "good" THEN faults ELSE faults + 1
            /\ spoilt' = IF data = "good" THEN spoilt ELSE spoilt \cup {job[a].icon}
      BY <1>2 DEF Fetch
    <3>2. job' \in [Activities -> Job]
      BY <3>1, StepOfJob
    <3>3. spoilt' \subseteq Icons
      BY <3>1
    <3>4. faults' \in 0..MaxFaults
      BY <1>2, <3>1 DEF Fetch
    <3> QED
      BY <1>2, <3>2, <3>3, <3>4 DEF Fetch
  <2>2. SettledFiles'
    BY <1>2 DEF Fetch
  <2>3. FetchedData'
    BY <1>2 DEF Fetch
  <2>4. Present'
    BY <1>2 DEF Fetch
  <2>5. BadReadHasCause'
    BY <1>2 DEF Fetch
  <2>6. Writing'
    BY <1>2 DEF Fetch
  <2> QED
    BY <2>1, <2>2, <2>3, <2>4, <2>5, <2>6
<1>3. CASE Create(a)
  <2>1. TypeOK'
    BY <1>3 DEF Create, Unused, Boxes, Contents
  <2>2. SettledFiles'
    BY <1>3 DEF Create, Unused, Activities
  <2>3. FetchedData'
    BY <1>3 DEF Create, Unused, Boxes, Contents
  <2>4. Present'
    BY <1>3 DEF Create, Unused, Boxes, Contents
  <2>5. BadReadHasCause'
    BY <1>3 DEF Create, Unused, Boxes, Contents
  <2>6. Writing'
    BY <1>3 DEF Create, Unused, Activities
  <2> QED
    BY <2>1, <2>2, <2>3, <2>4, <2>5, <2>6
<1>4. CASE CreateFailed(a)
  BY <1>4 DEF CreateFailed, Boxes
<1>5. CASE Write(a)
  <2>1. TypeOK'
    BY <1>5 DEF Write, Boxes
  <2>2. SettledFiles'
    BY <1>5 DEF Write, Boxes
  <2>3. FetchedData'
    BY <1>5 DEF Write, Boxes
  <2>4. Present'
    BY <1>5 DEF Write, Contents
  <2>5. BadReadHasCause'
    BY <1>5 DEF Write, Boxes
  <2>6. Writing'
    BY <1>5 DEF Write
  <2> QED
    BY <2>1, <2>2, <2>3, <2>4, <2>5, <2>6
<1>6. CASE Open(a)
  <2>1. TypeOK'
    <3>1. file[job[a].icon] \in Contents
      BY <1>6 DEF Open
    <3>2. job' \in [Activities -> Job]
      <4>1. job' \in {[job EXCEPT ![a].pc = "decode", ![a].data = file[job[a].icon]],
                      [job EXCEPT ![a].pc = "noAccess"]}
        BY <1>6 DEF Open
      <4>2. [job EXCEPT ![a].pc = "decode", ![a].data = file[job[a].icon]]
              \in [Activities -> Job]
        BY <3>1, StepOfJob
      <4>3. [job EXCEPT ![a].pc = "noAccess"] \in [Activities -> Job]
        BY DEF Boxes
      <4> QED
        BY <4>1, <4>2, <4>3
    <3>3. readers' \in [Icons -> SUBSET (Activities \cup {Nobody})]
      BY <1>6 DEF Open
    <3> QED
      BY <1>6, <3>2, <3>3 DEF Open
  <2>2. SettledFiles'
    BY <1>6 DEF Open, Boxes, Contents
  <2>3. FetchedData'
    BY <1>6 DEF Open, Boxes, Contents
  <2>4. Present'
    BY <1>6 DEF Open, Boxes, Contents
  <2>5. BadReadHasCause'
    BY <1>6 DEF Open, Boxes, Contents
  <2>6. Writing'
    BY <1>6 DEF Open, Boxes
  <2> QED
    BY <2>1, <2>2, <2>3, <2>4, <2>5, <2>6
<1>7. CASE NoAccess(a)
  BY <1>7, IdleIsJob DEF NoAccess, Closed, Idle
<1>8. CASE Decode(a)
  BY <1>8, IdleIsJob DEF Decode, Closed, Release, Idle
<1>9. CASE DecodeFails(a)
  BY <1>9 DEF DecodeFails, Boxes
<1>10. CASE DecodeFailed(a)
  BY <1>10, IdleIsJob DEF DecodeFailed, Closed, Release, Idle
<1>11. CASE Abort(a) \/ Overread(a)
  BY <1>11, RestartInv DEF Abort, Overread
<1> QED
  BY <1>1, <1>2, <1>3, <1>4, <1>5, <1>6, <1>7, <1>8, <1>9, <1>10, <1>11
     DEF Steps, DiscordFetchTmpGuildIcon, DiscordFetchTmpPfp, DiscordFetchTmpChannelIcon,
         LoadPNGImage, LoadPNGBitmap, ChatView_SetUserPfp, FetchSteps, LoadSteps

LEMMA NextInv == Inv /\ [Next]_vars => Inv'
<1> SUFFICES ASSUME Inv, [Next]_vars PROVE Inv'
  OBVIOUS
<1>1. CASE Quit
  BY <1>1, RestartInv DEF Quit
<1>2. ASSUME NEW a \in Activities, Steps(a) PROVE Inv'
  BY <1>2, StepInv
<1>3. CASE UNCHANGED vars
  BY <1>3 DEF Inv, Causes, TypeOK, SettledFiles, FetchedData, Present, Writing,
             BadReadHasCause, At, vars, disk, open
<1> QED
  BY <1>1, <1>2, <1>3 DEF Next

\* All types: an activity that reads or writes a file is in one of the
\* places of the code, whatever boxes and ends of runs came before.
THEOREM TypeCorrect == Spec => []TypeOK
<1>1. Inv => TypeOK
  BY DEF Inv
<1> QED
  BY InitInv, NextInv, <1>1, PTL DEF Spec

\* Whatever is read is a whole picture, unless a fetch of it failed or a run
\* ended in the middle of writing it.
THEOREM BadReadsExplained == Spec => []BadReadHasCause
<1>1. Inv => BadReadHasCause
  BY DEF Inv, Causes
<1> QED
  BY InitInv, NextInv, <1>1, PTL DEF Spec

\* Only Create and Write change a file; the first needs a fetch under way,
\* the second a file that is open.
LEMMA StepKeeps ==
  ASSUME Inv, [Next]_vars,
         NEW h \in Icons, file[h] # "none", writer[h] = Nobody, ~Fetching(h)
  PROVE  file'[h] = file[h]
<1> USE DEF disk, open
<1>1. CASE UNCHANGED vars
  BY <1>1 DEF vars
<1>2. CASE Quit
  BY <1>2 DEF Quit, Restart
<1>3. ASSUME NEW a \in Activities, Steps(a) PROVE file'[h] = file[h]
  <2>1. CASE Create(a)
    BY <2>1 DEF Create, Fetching, At, Inv, TypeOK
  <2>2. CASE Write(a)
    <3>1. writer[job[a].icon] = a /\ a # Nobody
      BY <2>2, ActivitiesAssumption DEF Write, At, Inv, Causes, Writing, Activities
    <3> QED
      BY <2>2, <3>1 DEF Write, Inv, TypeOK
  <2>3. CASE Show(a) \/ Fetch(a) \/ CreateFailed(a) \/ Open(a) \/ NoAccess(a) \/ Decode(a)
               \/ DecodeFails(a) \/ DecodeFailed(a) \/ Abort(a) \/ Overread(a)
    BY <2>3 DEF Show, Fetch, CreateFailed, Open, NoAccess, Decode, DecodeFails,
                DecodeFailed, Abort, Overread, Restart
  <2> QED
    BY <1>3, <2>1, <2>2, <2>3
       DEF Steps, DiscordFetchTmpGuildIcon, DiscordFetchTmpPfp, DiscordFetchTmpChannelIcon,
           LoadPNGImage, LoadPNGBitmap, ChatView_SetUserPfp, FetchSteps, LoadSteps
<1> QED
  BY <1>1, <1>2, <1>3 DEF Next

\* A file that is there is kept as it is, over restarts too; only a second
\* fetch of the same picture, already under way, may still replace it.
THEOREM FilesKept == Spec => KeptForGood
<1>1. Inv /\ [Next]_vars =>
        [\A h \in Icons :
           file[h] # "none" /\ writer[h] = Nobody /\ ~Fetching(h) => file'[h] = file[h]]_vars
  BY StepKeeps
<1> QED
  BY InitInv, NextInv, <1>1, PTL DEF Spec, KeptForGood

-----------------------------------------------------------------------------
(* The icon of the guild.                                                   *)

\* Until a run is past the guild icon, the gateway thread is alone with it: what
\* it fetches was not there, what it decodes is the file.
GuildIconInv ==
  ~ready =>
    /\ \A a \in Activities \ {Gateway} : At(a, "idle")
    /\ At(Gateway, "idle") \/ (job[Gateway].icon = GuildIcon /\ job[Gateway].kind = "guild")
    /\ job[Gateway].pc \in {"fetch", "create"} => file[GuildIcon] = "none"
    /\ writer[GuildIcon] # Nobody => At(Gateway, "write")
    /\ ~At(Gateway, "oof") /\ ~At(Gateway, "noAccess")
    /\ job[Gateway].pc \in {"decode", "zzz"} => job[Gateway].data = file[GuildIcon]
    /\ At(Gateway, "zzz") => job[Gateway].data = "cut"

LEMMA InitGuildIcon == Init => GuildIconInv
BY DEF Init, GuildIconInv, ForAll, Idle, At, Activities, Icons

LEMMA RestartGuildIcon == Restart => GuildIconInv'
BY DEF Restart, GuildIconInv, ForAll, Idle, At, Activities, Icons

\* Only the gateway thread takes a step before then.
LEMMA GatewaySteps ==
  ASSUME TypeOK, GuildIconInv, ~ready, NEW a \in Activities, Steps(a)
  PROVE  /\ a = Gateway
         /\ Show(a) \/ (/\ job[a].icon = GuildIcon /\ job[a].kind = "guild"
                        /\ FetchSteps(a) \/ LoadSteps(a) \/ Abort(a))
<1>1. Show(a) => a = Gateway
  BY DEF Show, Uses
<1>2. FetchSteps(a) \/ LoadSteps(a) \/ Abort(a) => ~At(a, "idle")
  BY DEF FetchSteps, LoadSteps, Fetch, Create, CreateFailed, Write, Open, NoAccess, Decode,
         DecodeFails, DecodeFailed, Overread, Abort, At
<1>3. Show(a) \/ FetchSteps(a) \/ LoadSteps(a) \/ Abort(a)
  BY DEF Steps, DiscordFetchTmpGuildIcon, DiscordFetchTmpPfp, DiscordFetchTmpChannelIcon,
         LoadPNGImage, LoadPNGBitmap, ChatView_SetUserPfp
<1> QED
  BY <1>1, <1>2, <1>3 DEF GuildIconInv

LEMMA StepGuildIcon ==
  ASSUME Inv, GuildIconInv, NEW a \in Activities, Steps(a)
  PROVE  GuildIconInv' /\ (Doomed => Doomed')
<1> USE ActivitiesAssumption, IconsAssumption DEF At, Goto, disk, open
<1>1. TypeOK /\ Present /\ Writing
  BY DEF Inv, Causes
<1>2. CASE Restart
  BY <1>2, <1>1, RestartGuildIcon DEF Restart, ForAll, Doomed, TypeOK, Icons
<1>3. CASE ready /\ ~Restart
  <2>1. ready'
    BY <1>3 DEF Steps, Show, DiscordFetchTmpGuildIcon, DiscordFetchTmpPfp,
           DiscordFetchTmpChannelIcon, LoadPNGImage, LoadPNGBitmap, ChatView_SetUserPfp,
           FetchSteps, LoadSteps, Fetch, Create, CreateFailed, Write, Open, NoAccess, Decode,
           DecodeFails, DecodeFailed, Overread, Abort, Closed
  <2> QED
    BY <1>3, <2>1 DEF GuildIconInv, Doomed
<1>4. CASE ~ready /\ ~Restart
  <2>1. /\ a = Gateway /\ Gateway \in Activities /\ Gateway # Nobody /\ GuildIcon \in Icons
        /\ Show(a) \/ (/\ job[a].icon = GuildIcon /\ job[a].kind = "guild"
                       /\ FetchSteps(a) \/ LoadSteps(a) \/ Abort(a))
    BY <1>1, <1>4, GatewaySteps DEF Activities, Icons
  <2>2. job \in [Activities -> Job] /\ file \in [Icons -> Contents \cup {"none"}]
        /\ writer \in [Icons -> Activities \cup {Nobody}]
    BY <1>1 DEF TypeOK
  <2>3. /\ \A b \in Activities \ {Gateway} : job[b].pc = "idle"
        /\ job[Gateway].pc = "idle" \/ (job[Gateway].icon = GuildIcon /\ job[Gateway].kind = "guild")
        /\ job[Gateway].pc \in {"fetch", "create"} => file[GuildIcon] = "none"
        /\ writer[GuildIcon] # Nobody => job[Gateway].pc = "write"
        /\ job[Gateway].pc \notin {"oof", "noAccess"}
        /\ job[Gateway].pc \in {"decode", "zzz"} => job[Gateway].data = file[GuildIcon]
        /\ job[Gateway].pc = "zzz" => job[Gateway].data = "cut"
    BY <1>4 DEF GuildIconInv
  <2>4. CASE Show(a)
    BY <1>4, <2>1, <2>2, <2>3, <2>4 DEF Show, Uses, GuildIconInv, Doomed, Job
  <2>5. CASE Fetch(a) /\ job[a].icon = GuildIcon /\ job[a].kind = "guild"
    BY <1>4, <2>1, <2>2, <2>3, <2>5 DEF Fetch, GuildIconInv, Doomed, Job
  <2>6. CASE Create(a) /\ job[a].icon = GuildIcon /\ job[a].kind = "guild"
    <3>1. Unused(GuildIcon)
      BY <1>1, <2>1, <2>2, <2>3, <2>6 DEF Create, Present, Unused
    <3> QED
      BY <1>4, <2>1, <2>2, <2>3, <2>6, <3>1 DEF Create, GuildIconInv, Doomed, Job
  <2>7. CASE Write(a) /\ job[a].icon = GuildIcon /\ job[a].kind = "guild"
    <3>1. writer[GuildIcon] = Gateway
      BY <1>1, <2>1, <2>7 DEF Write, Writing
    <3> QED
      BY <1>4, <2>1, <2>2, <2>3, <2>7, <3>1 DEF Write, GuildIconInv, Doomed, Job
  <2>8. CASE Open(a) /\ job[a].icon = GuildIcon /\ job[a].kind = "guild"
    BY <1>4, <2>1, <2>2, <2>3, <2>8 DEF Open, GuildIconInv, Doomed, Job
  <2>9. CASE Decode(a) /\ job[a].icon = GuildIcon /\ job[a].kind = "guild"
    <3>1. ready' /\ job[Gateway].data = "good" /\ job[Gateway].pc = "decode"
      BY <2>1, <2>9 DEF Decode, Closed
    <3> QED
      BY <2>3, <3>1 DEF GuildIconInv, Doomed
  <2>10. CASE DecodeFails(a) /\ job[a].icon = GuildIcon /\ job[a].kind = "guild"
    BY <1>4, <2>1, <2>2, <2>3, <2>10 DEF DecodeFails, Caught, GuildIconInv, Doomed, Job
  <2>11. CASE DecodeFailed(a) /\ job[a].icon = GuildIcon /\ job[a].kind = "guild"
    <3>1. ready' /\ job[Gateway].pc = "zzz"
      BY <2>1, <2>11 DEF DecodeFailed, Closed
    <3> QED
      BY <2>3, <3>1 DEF GuildIconInv, Doomed
  <2>12. ~CreateFailed(a) /\ ~NoAccess(a) /\ ~Overread(a) /\ ~Abort(a)
    BY <1>4, <2>1, <2>3 DEF CreateFailed, NoAccess, Overread, Abort
  <2> QED
    BY <2>1, <2>4, <2>5, <2>6, <2>7, <2>8, <2>9, <2>10, <2>11, <2>12 DEF FetchSteps, LoadSteps
<1> QED
  BY <1>2, <1>3, <1>4

\* One reply without a picture for a guild's icon, and neither this run nor any
\* later one gets past it: what is decoded is that file, and libpng's error comes
\* before setjmp.
THEOREM DoomIsForGood == Spec => DoomedForGood
<1>1. Init => GuildIconInv
  BY InitGuildIcon
<1>2. Inv /\ GuildIconInv /\ [Next]_vars => GuildIconInv' /\ (Doomed => Doomed')
  <2> SUFFICES ASSUME Inv, GuildIconInv, [Next]_vars
               PROVE  GuildIconInv' /\ (Doomed => Doomed')
    OBVIOUS
  <2>1. CASE Quit
    BY <2>1, RestartGuildIcon DEF Quit, Restart, ForAll, Doomed, Icons
  <2>2. CASE UNCHANGED vars
    BY <2>2 DEF vars, disk, open, GuildIconInv, Doomed, At
  <2> QED
    BY <2>1, <2>2, StepGuildIcon DEF Next
<1>3. Doomed => ~ready
  BY DEF Doomed
<1>4. Spec => []Inv
  <2>1. Init => Inv
    BY InitInv
  <2>2. Inv /\ [Next]_vars => Inv'
    BY NextInv
  <2> QED
    BY <2>1, <2>2, PTL DEF Spec
<1> QED
  BY <1>1, <1>2, <1>3, <1>4, PTL DEF Spec, DoomedForGood

-----------------------------------------------------------------------------
(* The images of the DM list.                                               *)

CONSTANTS MaxChannels, MaxOpens, MaxNest
VARIABLES fills, nopens, done, wild

Dms == INSTANCE DmList

Fill   == [i : Nat \ {0}, pfpidx : Nat, box : BOOLEAN]
DmItem == [ch : Nat, iImage : Nat]

DmTypes ==
  /\ channels \in Seq(Dms!Channel)
  /\ images \in Seq(Nat) /\ items \in Seq(DmItem) /\ fills \in Seq(Fill)
  /\ early \in BOOLEAN /\ done \in BOOLEAN

\* The members of a set of channels before the c-th one.
Rank(P, c) == Cardinality({d \in 1..(c - 1) : d \in P})

\* Channels that get an image, and those that have got it in the first filling.
Pictured == {c \in 1..Len(channels) : Dms!Shown(c) /\ channels[c].picture}
Known    == IF done = TRUE THEN Len(channels) + 1 ELSE IF Len(fills) = 0 THEN 1 ELSE fills[1].i

\* Only a picture has a box.
Boxed == \A f \in 1..Len(fills) : fills[f].box = TRUE => fills[f].i \in Pictured

\* The first filling is alone, and adds the images one after the other.
FirstAlone == done = FALSE => Len(fills) <= 1 /\ Len(images) = Rank(Pictured, Known)
\* Its images stay where they are.
Imaged     == \A c \in Pictured : c < Known =>
                Rank(Pictured, c) < Len(images) /\ images[Rank(Pictured, c) + 1] = c
\* Every filling counts as the first one did.
Counting   == \A f \in 1..Len(fills) :
                /\ fills[f].i <= Len(channels) + 1
                /\ fills[f].pfpidx = Rank(Pictured, fills[f].i)
Numbered   == \A k \in 1..Len(items) :
                /\ items[k].ch < Known /\ items[k].ch \in 1..Len(channels)
                /\ channels[items[k].ch].picture =>
                     items[k].ch \in Pictured /\ items[k].iImage = Rank(Pictured, items[k].ch)

DmCore == FirstAlone /\ Imaged /\ Counting /\ Numbered
DmInv  == DmTypes /\ Boxed /\ (early = FALSE => DmCore)

\* Ranks go up by one at every member.
LEMMA RankStep ==
  ASSUME NEW P, NEW c \in Nat \ {0}
  PROVE  /\ Rank(P, c) \in Nat
         /\ c \in P => Rank(P, c + 1) = Rank(P, c) + 1
         /\ c \notin P => Rank(P, c + 1) = Rank(P, c)
         /\ Rank(P, 1) = 0
<1> DEFINE B(n) == {d \in 1..(n - 1) : d \in P}
<1>1. IsFiniteSet(B(c))
  <2>1. IsFiniteSet(0..c)
    BY FS_Interval
  <2>2. B(c) \subseteq 0..c
    OBVIOUS
  <2> QED
    BY <2>1, <2>2, FS_Subset
<1>2. c \in P => B(c + 1) = B(c) \cup {c}
  OBVIOUS
<1>3. c \notin P => B(c + 1) = B(c)
  OBVIOUS
<1>4. B(1) = {} /\ c \notin B(c)
  OBVIOUS
<1>5. \A n : Rank(P, n) = Cardinality(B(n))
  BY DEF Rank
<1> HIDE DEF B
<1>6. Cardinality(B(c)) \in Nat /\ Cardinality(B(c) \cup {c}) = Cardinality(B(c)) + 1
  BY <1>1, <1>4, FS_CardinalityType, FS_AddElement
<1> QED
  BY <1>2, <1>3, <1>4, <1>5, <1>6, FS_EmptySet

LEMMA DmInit == Dms!Init => DmInv
<1> SUFFICES ASSUME Dms!Init PROVE DmInv
  OBVIOUS
<1>1. channels \in Seq(Dms!Channel)
  <2> DEFINE C == Dms!Channel
  <2>1. PICK n \in 0..MaxChannels : channels \in [1..n -> C]
    BY DEF Dms!Init
  <2> HIDE DEF C
  <2>2. channels \in Seq(C)
    BY <2>1
  <2> QED
    BY <2>2 DEF C
<1>2. images = <<>> /\ items = <<>> /\ fills = <<>> /\ early = FALSE /\ done = FALSE
  BY DEF Dms!Init
<1>3. DmTypes
  <2>1. images \in Seq(Nat) /\ items \in Seq(DmItem) /\ fills \in Seq(Fill)
    BY <1>2
  <2>2. early \in BOOLEAN /\ done \in BOOLEAN
    BY <1>2
  <2> QED
    BY <1>1, <2>1, <2>2 DEF DmTypes
<1>4. Rank(Pictured, 1) = 0 /\ Known = 1
  BY <1>2, RankStep DEF Known
<1>5. Imaged
  BY <1>4 DEF Imaged, Pictured
<1> QED
  BY <1>2, <1>3, <1>4, <1>5 DEF DmInv, DmCore, Boxed, FirstAlone, Counting, Numbered

\* A click starts a filling that counts its images from 0.
LEMMA OpenInv == DmInv /\ Dms!Open => DmInv'
<1> SUFFICES ASSUME DmInv, Dms!Open PROVE DmInv'
  OBVIOUS
<1> DEFINE new == [i |-> 1, pfpidx |-> 0, box |-> FALSE]
<1>1. /\ items' = <<>> /\ fills' = Append(fills, new) /\ channels' = channels
      /\ images' = images /\ done' = done
      /\ early' = (early \/ (Len(fills) > 0 /\ ~done))
  BY DEF Dms!Open, Dms!Depth
<1>2. DmTypes
  BY DEF DmInv
<1>3. new \in Fill
  BY DEF Fill
<1> HIDE DEF new
<1>4. /\ fills' \in Seq(Fill) /\ Len(fills') = Len(fills) + 1 /\ Len(fills) \in Nat
      /\ \A f \in 1..Len(fills) : fills'[f] = fills[f]
      /\ fills'[Len(fills) + 1] = new
  <2> DEFINE F == Fill
  <2>1. fills \in Seq(F) /\ new \in F
    BY <1>2, <1>3 DEF DmTypes
  <2> HIDE DEF F
  <2>2. /\ fills' \in Seq(F) /\ Len(fills') = Len(fills) + 1 /\ Len(fills) \in Nat
        /\ \A f \in 1..Len(fills) : fills'[f] = fills[f]
        /\ fills'[Len(fills) + 1] = new
    BY <1>1, <2>1
  <2> QED
    BY <2>2 DEF F
<1>5. DmTypes'
  BY <1>1, <1>2, <1>4 DEF DmTypes
<1>6. Boxed'
  <2>1. Pictured' = Pictured
    BY <1>1 DEF Pictured, Dms!Shown
  <2>2. new.box = FALSE
    BY DEF new
  <2> QED
    BY <1>4, <2>1, <2>2 DEF DmInv, Boxed
<1>7. ASSUME early' = FALSE PROVE DmCore'
  <2>1. early = FALSE /\ (done = TRUE \/ Len(fills) = 0)
    <3> DEFINE some == Len(fills) > 0
    <3>1. early \in BOOLEAN /\ done \in BOOLEAN
      BY <1>2 DEF DmTypes
    <3>2. early' = (early \/ (some /\ ~done))
      BY <1>1
    <3> HIDE DEF some
    <3>3. early = FALSE /\ (done = TRUE \/ ~some)
      BY <1>7, <3>1, <3>2, Zenon
    <3> QED
      BY <3>3, <1>4 DEF some
  <2>2. FirstAlone /\ Imaged /\ Counting
    BY <2>1 DEF DmInv, DmCore
  <2>3. Pictured' = Pictured
    BY <1>1 DEF Pictured, Dms!Shown
  <2>4. Known' = Known
    BY <1>1, <1>4, <2>1 DEF Known, new
  <2>5. FirstAlone' /\ Imaged'
    BY <1>1, <1>4, <2>1, <2>2, <2>3, <2>4 DEF FirstAlone, Imaged
  <2>6. Rank(Pictured, 1) = 0
    BY RankStep
  <2>7. Len(channels) \in Nat
    BY <1>2 DEF DmTypes
  <2>8. ASSUME NEW f \in 1..(Len(fills) + 1)
        PROVE  /\ fills'[f].i <= Len(channels) + 1
               /\ fills'[f].pfpidx = Rank(Pictured, fills'[f].i)
    <3>1. CASE f = Len(fills) + 1
      BY <3>1, <1>4, <2>6, <2>7 DEF new
    <3>2. CASE f # Len(fills) + 1
      <4>1. f \in 1..Len(fills)
        BY <3>2, <1>4
      <4> QED
        BY <4>1, <1>4, <2>2 DEF Counting
    <3> QED
      BY <3>1, <3>2
  <2>9. Counting'
    BY <1>1, <1>4, <2>3, <2>8 DEF Counting
  <2>10. Numbered'
    BY <1>1 DEF Numbered
  <2> QED
    BY <2>5, <2>9, <2>10 DEF DmCore
<1> QED
  BY <1>5, <1>6, <1>7 DEF DmInv

\* The running filling goes on to its next channel.
Pass(f, counted) == [i |-> f.i + 1, pfpidx |-> f.pfpidx + counted, box |-> FALSE]
Passes(counted) ==
  /\ Len(fills) > 0
  /\ fills' = [fills EXCEPT ![Len(fills)] = Pass(fills[Len(fills)], counted)]
  /\ UNCHANGED <<channels, early, done>>
Current == fills[Len(fills)].i

\* The running filling passes a channel, with an image for a pictured one.
LEMMA Passed ==
  ASSUME DmInv, NEW counted \in {0, 1}, Passes(counted),
         Current <= Len(channels), (Current \in Pictured) <=> (counted = 1)
  PROVE  /\ fills' \in Seq(Fill) /\ Len(fills') = Len(fills)
         /\ Current \in 1..Len(channels) /\ Pictured' = Pictured /\ Boxed'
         /\ early = FALSE =>
              /\ Counting'
              /\ fills[Len(fills)].pfpidx = Rank(Pictured, Current)
              /\ Rank(Pictured, Current + 1) = Rank(Pictured, Current) + counted
              /\ Current < Known' /\ Known <= Known' /\ Known \in Nat /\ Known' \in Nat
              /\ done = FALSE => Known = Current /\ Known' = Current + 1
<1> DEFINE n == Len(fills)
           new == Pass(fills[n], counted)
<1>1. fills[n] \in Fill /\ n \in 1..Len(fills) /\ fills \in Seq(Fill) /\ n \in Nat \ {0}
  <2> DEFINE F == Fill
  <2>1. fills \in Seq(F) /\ Len(fills) > 0
    BY DEF DmInv, DmTypes, Passes
  <2> HIDE DEF F
  <2>2. fills[n] \in F /\ n \in 1..Len(fills) /\ n \in Nat \ {0}
    BY <2>1
  <2> QED
    BY <2>1, <2>2 DEF F
<1>2. new \in Fill /\ Current \in Nat \ {0} /\ new.i = Current + 1 /\ new.box = FALSE
      /\ new.pfpidx = fills[n].pfpidx + counted
  BY <1>1 DEF Fill, Pass, Current
<1> HIDE DEF new
<1>3. /\ fills' \in Seq(Fill) /\ Len(fills') = Len(fills)
      /\ \A f \in 1..Len(fills) : f # n => fills'[f] = fills[f]
      /\ fills'[n] = new
  <2> DEFINE F == Fill
  <2>1. fills \in Seq(F) /\ new \in F /\ fills' = [fills EXCEPT ![n] = new]
    BY <1>1, <1>2 DEF Passes, new
  <2> HIDE DEF F
  <2>2. /\ fills' \in Seq(F) /\ Len(fills') = Len(fills)
        /\ \A f \in 1..Len(fills) : f # n => fills'[f] = fills[f]
        /\ fills'[n] = new
    BY <1>1, <2>1
  <2> QED
    BY <2>2 DEF F
<1>4. Len(channels) \in Nat /\ Current \in 1..Len(channels)
  BY <1>2 DEF DmInv, DmTypes
<1>5. Pictured' = Pictured /\ channels' = channels /\ done' = done
  BY DEF Passes, Pictured, Dms!Shown
<1>6. /\ Rank(Pictured, Current) \in Nat
      /\ Rank(Pictured, Current + 1) = Rank(Pictured, Current) + counted
  <2>1. Current \in Nat \ {0}
    BY <1>4
  <2>2. CASE counted = 1
    BY <2>1, <2>2, RankStep
  <2>3. CASE counted = 0
    BY <2>1, <2>3, RankStep
  <2> QED
    BY <2>2, <2>3
<1>7. ASSUME early = FALSE
      PROVE  /\ Counting'
             /\ fills[n].pfpidx = Rank(Pictured, Current)
             /\ Current < Known' /\ Known <= Known' /\ Known \in Nat /\ Known' \in Nat
             /\ done = FALSE => Known = Current /\ Known' = Current + 1
  <2>1. Counting /\ FirstAlone
    BY <1>7 DEF DmInv, DmCore
  <2>2. fills[n].pfpidx = Rank(Pictured, Current)
    BY <1>1, <2>1 DEF Counting, Current
  <2>3. ASSUME NEW f \in 1..Len(fills)
        PROVE  /\ fills'[f].i <= Len(channels) + 1
               /\ fills'[f].pfpidx = Rank(Pictured, fills'[f].i)
    <3>1. CASE f = n
      BY <3>1, <1>2, <1>3, <1>4, <1>6, <2>2
    <3>2. CASE f # n
      BY <3>2, <1>3, <2>1 DEF Counting
    <3> QED
      BY <3>1, <3>2
  <2>4. Counting'
    BY <1>3, <1>5, <2>3 DEF Counting
  <2>5. ASSUME done = FALSE PROVE Known = Current /\ Known' = Current + 1
    <3>1. Len(fills) <= 1
      BY <2>1, <2>5, Zenon DEF FirstAlone
    <3>2. Len(fills) \in Nat /\ Len(fills) >= 1
      BY <1>1
    <3>3. n = 1
      <4>1. \A m \in Nat : m >= 1 /\ m <= 1 => m = 1
        OBVIOUS
      <4> QED
        BY <3>1, <3>2, <4>1, Zenon
    <3>4. done # TRUE /\ done' # TRUE
      BY <1>5, <2>5
    <3>5. Known = fills[1].i /\ Known' = fills'[1].i
      BY <1>1, <1>3, <3>3, <3>4 DEF Known
    <3> QED
      BY <1>2, <1>3, <3>3, <3>5 DEF Current
  <2>6. done = TRUE => Known' = Len(channels) + 1 /\ Known = Len(channels) + 1
    BY DEF Known, Passes
  <2>7. Current < Known' /\ Known <= Known' /\ Known \in Nat /\ Known' \in Nat
    <3>1. CASE done = TRUE
      BY <3>1, <2>6, <1>4
    <3>2. CASE done = FALSE
      <4>1. Known = Current /\ Known' = Current + 1
        BY <3>2, <2>5, Zenon
      <4>2. Current \in Nat
        BY <1>4
      <4> QED
        BY <4>1, <4>2, SMT
    <3>3. done \in BOOLEAN
      BY DEF DmInv, DmTypes
    <3> QED
      BY <3>1, <3>2, <3>3, Zenon
  <2> QED
    BY <2>2, <2>4, <2>5, <2>7
<1>8. Boxed'
  <2>1. Boxed
    BY DEF DmInv
  <2> QED
    BY <1>2, <1>3, <1>5, <2>1 DEF Boxed
<1> QED
  BY <1>3, <1>4, <1>5, <1>6, <1>7, <1>8

\* An item inserted at the top.
LEMMA Inserted ==
  ASSUME NEW n \in Nat, NEW x \in Nat, items \in Seq(DmItem),
         items' = <<[ch |-> n, iImage |-> x]>> \o items
  PROVE  /\ items' \in Seq(DmItem) /\ Len(items') = Len(items) + 1 /\ Len(items) \in Nat
         /\ items'[1].ch = n /\ items'[1].iImage = x
         /\ \A k \in 2..Len(items') : k - 1 \in 1..Len(items) /\ items'[k] = items[k - 1]
<1> DEFINE I == DmItem
           new == [ch |-> n, iImage |-> x]
<1>1. new \in I /\ items \in Seq(I) /\ items' = <<new>> \o items
  BY DEF DmItem
<1>2. new.ch = n /\ new.iImage = x
  OBVIOUS
<1> HIDE DEF I, new
<1>3. <<new>> \in Seq(I) /\ Len(<<new>>) = 1 /\ <<new>>[1] = new
  BY <1>1
<1>4. /\ items' \in Seq(I) /\ Len(items') = Len(items) + 1 /\ Len(items) \in Nat
      /\ items'[1] = new
      /\ \A k \in 2..Len(items') : k - 1 \in 1..Len(items) /\ items'[k] = items[k - 1]
  BY <1>1, <1>3
<1> QED
  BY <1>2, <1>4 DEF I

\* Items stay good while more channels get known.
LEMMA NumberedStays ==
  ASSUME DmInv, early = FALSE, UNCHANGED <<channels, items>>, Pictured' = Pictured,
         Known <= Known', Known \in Nat, Known' \in Nat
  PROVE  Numbered'
<1>1. Numbered
  BY DEF DmInv, DmCore
<1>2. \A k \in 1..Len(items) : items[k].ch \in 1..Len(channels) => items[k].ch \in Nat
  OBVIOUS
<1> QED
  BY <1>1, <1>2 DEF Numbered

\* A channel without a picture leaves the images as they are.
LEMMA PassedBlank ==
  ASSUME DmInv, Passes(0), Current <= Len(channels), Current \notin Pictured, images' = images
  PROVE  /\ fills' \in Seq(Fill) /\ Boxed' /\ Pictured' = Pictured /\ Current \in 1..Len(channels)
         /\ early = FALSE =>
              /\ Counting' /\ Imaged' /\ FirstAlone'
              /\ Current < Known' /\ Known <= Known' /\ Known \in Nat /\ Known' \in Nat
<1>1. 0 \in {0, 1} /\ (Current \in Pictured <=> 0 = 1)
  OBVIOUS
<1>2. /\ fills' \in Seq(Fill) /\ Len(fills') = Len(fills)
      /\ Current \in 1..Len(channels) /\ Pictured' = Pictured /\ Boxed'
  BY <1>1, Passed
<1>3. ASSUME early = FALSE
      PROVE  /\ Counting' /\ Imaged' /\ FirstAlone'
             /\ Current < Known' /\ Known <= Known' /\ Known \in Nat /\ Known' \in Nat
  <2>1. /\ Counting' /\ Known <= Known' /\ Known \in Nat /\ Known' \in Nat /\ Current < Known'
        /\ done = FALSE => Known = Current /\ Known' = Current + 1
    BY <1>1, <1>3, Passed
  <2>2. Rank(Pictured, Current + 1) = Rank(Pictured, Current)
    BY <1>2, RankStep
  <2>3. FirstAlone /\ Imaged
    BY <1>3 DEF DmInv, DmCore
  <2>4. done' = done
    BY DEF Passes
  <2>5. \A c \in Pictured : c < Known' => c < Known
    <3>1. \A c \in Pictured : c \in 1..Len(channels)
      BY DEF Pictured
    <3>2. CASE done = FALSE
      <4>1. Known = Current /\ Known' = Current + 1
        BY <2>1, <3>2, Zenon
      <4> QED
        BY <2>1, <3>1, <4>1
    <3>3. CASE done # FALSE
      <4>1. Known' = Known
        <5>1. done \in BOOLEAN
          BY DEF DmInv, DmTypes
        <5>2. done = TRUE
          BY <5>1, <3>3, Zenon
        <5> QED
          BY <5>2 DEF Known, Passes
      <4> QED
        BY <4>1
    <3> QED
      BY <3>2, <3>3
  <2>6. Imaged'
    BY <1>2, <2>3, <2>5 DEF Imaged
  <2>7. FirstAlone'
    <3>1. ASSUME done' = FALSE PROVE Len(fills') <= 1 /\ Len(images') = Rank(Pictured, Known')
      <4>1. done = FALSE
        BY <2>4, <3>1
      <4>2. Len(fills) <= 1 /\ Len(images) = Rank(Pictured, Known)
        BY <2>3, <4>1, Zenon DEF FirstAlone
      <4>3. Known = Current /\ Known' = Current + 1
        BY <2>1, <4>1, Zenon
      <4> QED
        BY <1>2, <2>2, <4>2, <4>3
    <3> QED
      BY <1>2, <3>1 DEF FirstAlone
  <2> QED
    BY <2>1, <2>6, <2>7
<1> QED
  BY <1>2, <1>3

\* A record with its first field set.
LEMMA PlaceSet ==
  ASSUME NEW I, NEW P, NEW B, NEW r \in [i : I, pfpidx : P, box : B], NEW j
  PROVE  [r EXCEPT !.i = j] = [i |-> j, pfpidx |-> r.pfpidx, box |-> r.box]
OBVIOUS

LEMMA SkipInv == DmInv /\ Dms!Skip => DmInv'
<1> SUFFICES ASSUME DmInv, Dms!Skip PROVE DmInv'
  OBVIOUS
<1>1. DmTypes
  BY DEF DmInv
<1>2. /\ UNCHANGED <<channels, images, items, early, done>>
      /\ Len(fills) > 0 /\ Current <= Len(channels) /\ ~Dms!Shown(Current)
      /\ ~fills[Len(fills)].box
      /\ fills' = [fills EXCEPT ![Len(fills)].i = @ + 1]
  BY DEF Dms!Skip, Dms!Running, Dms!Top, Dms!Depth, Current
<1>3. Passes(0)
  <2> DEFINE F == Fill
             n == Len(fills)
  <2>1. fills \in Seq(F)
    BY <1>1 DEF DmTypes
  <2> HIDE DEF F
  <2>2. fills[n] \in F /\ n \in DOMAIN fills
    BY <1>2, <2>1
  <2>3. [fills[n] EXCEPT !.i = @ + 1] = Pass(fills[n], 0)
    <3>1. fills[n].box \in BOOLEAN /\ ~fills[n].box
      BY <1>2, <2>2 DEF F, Fill
    <3>2. fills[n].box = FALSE
      BY <3>1, Zenon
    <3>3. Pass(fills[n], 0) = [i |-> fills[n].i + 1, pfpidx |-> fills[n].pfpidx, box |-> FALSE]
      <4>1. fills[n].pfpidx \in Nat
        BY <2>2 DEF F, Fill
      <4>2. fills[n].pfpidx + 0 = fills[n].pfpidx
        BY <4>1
      <4> QED
        BY <4>2 DEF Pass
    <3>4. [fills[n] EXCEPT !.i = @ + 1]
            = [i |-> fills[n].i + 1, pfpidx |-> fills[n].pfpidx, box |-> fills[n].box]
      BY <2>2, PlaceSet DEF F, Fill
    <3> QED
      BY <3>2, <3>3, <3>4
  <2>4. fills' = [fills EXCEPT ![n] = [fills[n] EXCEPT !.i = @ + 1]]
    BY <1>2
  <2> QED
    BY <1>2, <2>3, <2>4 DEF Passes
<1>4. Current \notin Pictured
  BY <1>2 DEF Pictured
<1>5. /\ fills' \in Seq(Fill) /\ Boxed' /\ Pictured' = Pictured
      /\ early = FALSE =>
           /\ Counting' /\ Imaged' /\ FirstAlone'
           /\ Known <= Known' /\ Known \in Nat /\ Known' \in Nat
  BY <1>2, <1>3, <1>4, PassedBlank
<1>6. DmTypes'
  BY <1>1, <1>2, <1>5 DEF DmTypes
<1>7. ASSUME early' = FALSE PROVE DmCore'
  <2>1. early = FALSE
    BY <1>2, <1>7
  <2>2. Numbered'
    BY <1>2, <1>5, <2>1, NumberedStays
  <2> QED
    BY <1>5, <2>1, <2>2 DEF DmCore
<1> QED
  BY <1>5, <1>6, <1>7 DEF DmInv

\* The item goes to the top, with its channel's place among the pictured ones.
LEMMA NumberedMore ==
  ASSUME DmInv, early = FALSE, UNCHANGED channels, Pictured' = Pictured,
         NEW x \in Nat, items' = <<[ch |-> Current, iImage |-> x]>> \o items,
         Current \in 1..Len(channels), Current < Known',
         Known <= Known', Known \in Nat, Known' \in Nat,
         channels[Current].picture => Current \in Pictured /\ x = Rank(Pictured, Current)
  PROVE  Numbered'
<1>1. Numbered /\ items \in Seq(DmItem)
  BY DEF DmInv, DmCore, DmTypes
<1>2. /\ Len(items') = Len(items) + 1 /\ Len(items) \in Nat
      /\ items'[1].ch = Current /\ items'[1].iImage = x
      /\ \A k \in 2..Len(items') : k - 1 \in 1..Len(items) /\ items'[k] = items[k - 1]
  BY <1>1, Inserted
<1>3. ASSUME NEW k \in 1..Len(items')
      PROVE  /\ items'[k].ch < Known' /\ items'[k].ch \in 1..Len(channels)
             /\ channels[items'[k].ch].picture =>
                  /\ items'[k].ch \in Pictured
                  /\ items'[k].iImage = Rank(Pictured, items'[k].ch)
  <2>1. CASE k = 1
    BY <1>2, <2>1
  <2>2. CASE k # 1
    <3>1. k - 1 \in 1..Len(items) /\ items'[k] = items[k - 1]
      BY <1>2, <2>2
    <3>2. /\ items'[k].ch < Known /\ items'[k].ch \in 1..Len(channels)
          /\ channels[items'[k].ch].picture =>
               /\ items'[k].ch \in Pictured
               /\ items'[k].iImage = Rank(Pictured, items'[k].ch)
      BY <1>1, <3>1 DEF Numbered
    <3>3. items'[k].ch \in Nat
      BY <3>2
    <3> QED
      BY <3>2, <3>3
  <2> QED
    BY <2>1, <2>2
<1> QED
  BY <1>3 DEF Numbered

LEMMA WithoutPictureInv == DmInv /\ Dms!WithoutPicture => DmInv'
<1> SUFFICES ASSUME DmInv, Dms!WithoutPicture PROVE DmInv'
  OBVIOUS
<1>1. DmTypes
  BY DEF DmInv
<1>2. /\ UNCHANGED <<channels, images, early, done>>
      /\ Len(fills) > 0 /\ Current <= Len(channels) /\ ~channels[Current].picture
      /\ items' = <<[ch |-> Current, iImage |-> 0]>> \o items
      /\ fills' = [fills EXCEPT ![Len(fills)] =
                      [i |-> @.i + 1, pfpidx |-> @.pfpidx + 0, box |-> FALSE]]
  <2>1. channels[Current].picture = FALSE
    BY DEF Dms!WithoutPicture, Dms!At, Dms!Here, Dms!Top, Dms!Depth, Current
  <2> QED
    BY <2>1 DEF Dms!WithoutPicture, Dms!At, Dms!Insert, Dms!Running, Dms!Top, Dms!Depth, Current
<1>3. Passes(0)
  BY <1>2 DEF Passes, Pass
<1>4. Current \notin Pictured
  BY <1>2 DEF Pictured
<1>5. /\ fills' \in Seq(Fill) /\ Boxed' /\ Pictured' = Pictured /\ Current \in 1..Len(channels)
      /\ early = FALSE =>
           /\ Counting' /\ Imaged' /\ FirstAlone'
           /\ Current < Known' /\ Known <= Known' /\ Known \in Nat /\ Known' \in Nat
  BY <1>2, <1>3, <1>4, PassedBlank
<1>6. DmTypes'
  <2>1. Current \in Nat
    BY <1>5
  <2>2. items' \in Seq(DmItem)
    BY <1>1, <1>2, <2>1, Inserted DEF DmTypes
  <2> QED
    BY <1>1, <1>2, <1>5, <2>2 DEF DmTypes
<1>7. ASSUME early' = FALSE PROVE DmCore'
  <2>1. early = FALSE
    BY <1>2, <1>7
  <2>2. Numbered'
    BY <1>2, <1>5, <2>1, NumberedMore
  <2> QED
    BY <1>5, <2>1, <2>2 DEF DmCore
<1> QED
  BY <1>5, <1>6, <1>7 DEF DmInv

\* An image is added for the channel with a picture, after its box or without.
LEMMA WithPictureInv == DmInv /\ Dms!WithPicture => DmInv'
<1> SUFFICES ASSUME DmInv, Dms!WithPicture PROVE DmInv'
  OBVIOUS
<1> DEFINE x == fills[Len(fills)].pfpidx
<1>1. DmTypes
  BY DEF DmInv
<1>2. /\ UNCHANGED <<channels, early, done>> /\ images' = Append(images, Current)
      /\ Len(fills) > 0 /\ Current <= Len(channels)
      /\ items' = <<[ch |-> Current, iImage |-> x]>> \o items
      /\ fills' = [fills EXCEPT ![Len(fills)] =
                      [i |-> @.i + 1, pfpidx |-> @.pfpidx + 1, box |-> FALSE]]
  BY DEF Dms!WithPicture, Dms!Insert, Dms!Top, Dms!Depth, Current
<1>3. Passes(1)
  BY <1>2 DEF Passes, Pass
<1>4. fills[Len(fills)] \in Fill /\ Len(fills) \in 1..Len(fills)
  <2> DEFINE F == Fill
  <2>1. fills \in Seq(F) /\ Len(fills) > 0
    BY <1>1, <1>2 DEF DmTypes
  <2> HIDE DEF F
  <2>2. fills[Len(fills)] \in F /\ Len(fills) \in 1..Len(fills)
    BY <2>1
  <2> QED
    BY <2>2 DEF F
<1>5. Current \in Nat \ {0} /\ x \in Nat
  BY <1>4 DEF Fill, Current
<1>6. Current \in Pictured
  <2>1. CASE fills[Len(fills)].box = TRUE
    BY <1>4, <2>1 DEF DmInv, Boxed, Current
  <2>2. CASE fills[Len(fills)].box # TRUE
    <3>1. fills[Len(fills)].box \in BOOLEAN
      BY <1>4 DEF Fill
    <3>2. ~fills[Len(fills)].box
      BY <2>2, <3>1, Zenon
    <3>3. Dms!At(TRUE)
      BY <3>2 DEF Dms!WithPicture, Dms!Top, Dms!Depth
    <3>4. channels[Current].picture = TRUE /\ Dms!Shown(Current)
      BY <3>3 DEF Dms!At, Dms!Here, Dms!Top, Dms!Depth, Current
    <3>5. Current \in 1..Len(channels)
      BY <1>1, <1>2, <1>5 DEF DmTypes
    <3> QED
      BY <3>4, <3>5 DEF Pictured
  <2> QED
    BY <2>1, <2>2
<1>7. /\ fills' \in Seq(Fill) /\ Len(fills') = Len(fills)
      /\ Current \in 1..Len(channels) /\ Pictured' = Pictured /\ Boxed'
      /\ early = FALSE =>
           /\ Counting' /\ x = Rank(Pictured, Current)
           /\ Current < Known' /\ Known <= Known' /\ Known \in Nat /\ Known' \in Nat
           /\ done = FALSE => Known = Current /\ Known' = Current + 1
  <2>1. 1 \in {0, 1} /\ (Current \in Pictured <=> 1 = 1)
    BY <1>6
  <2> QED
    BY <1>2, <1>3, <2>1, Passed
<1>8. /\ images' \in Seq(Nat) /\ Len(images') = Len(images) + 1 /\ Len(images) \in Nat
      /\ images'[Len(images) + 1] = Current
      /\ \A k \in 1..Len(images) : images'[k] = images[k]
  <2>1. images \in Seq(Nat) /\ Current \in Nat
    BY <1>1, <1>5 DEF DmTypes
  <2> QED
    BY <1>2, <2>1
<1> HIDE DEF x
<1>9. DmTypes'
  <2>1. items' \in Seq(DmItem)
    BY <1>1, <1>2, <1>5, Inserted DEF DmTypes
  <2> QED
    BY <1>1, <1>2, <1>7, <1>8, <2>1 DEF DmTypes
<1>10. ASSUME early' = FALSE PROVE DmCore'
  <2>1. early = FALSE
    BY <1>2, <1>10
  <2>2. /\ Counting' /\ x = Rank(Pictured, Current)
        /\ Current < Known' /\ Known <= Known' /\ Known \in Nat /\ Known' \in Nat
    BY <1>7, <2>1, Zenon
  <2>3. Numbered'
    BY <1>2, <1>5, <1>6, <1>7, <2>1, <2>2, NumberedMore
  <2>4. FirstAlone /\ Imaged
    BY <2>1 DEF DmInv, DmCore
  <2>5. done \in BOOLEAN /\ done' = done
    BY <1>1, <1>2 DEF DmTypes
  <2>6. Rank(Pictured, Current + 1) = Rank(Pictured, Current) + 1
    BY <1>5, <1>6, RankStep
  <2>7. ASSUME done = FALSE
        PROVE  /\ Known = Current /\ Known' = Current + 1 /\ Len(fills) <= 1
               /\ Len(images) = Rank(Pictured, Current)
    <3>1. Known = Current /\ Known' = Current + 1
      BY <1>7, <2>1, <2>7, Zenon
    <3>2. Len(fills) <= 1 /\ Len(images) = Rank(Pictured, Known)
      BY <2>4, <2>7, Zenon DEF FirstAlone
    <3> QED
      BY <3>1, <3>2
  <2>8. FirstAlone'
    BY <1>7, <1>8, <2>5, <2>6, <2>7 DEF FirstAlone
  <2>9. \A c \in Pictured : c < Known' => c < Known \/ (c = Current /\ done = FALSE)
    <3>1. \A c \in Pictured : c \in Nat
      BY DEF Pictured
    <3>2. CASE done = FALSE
      <4>1. Known = Current /\ Known' = Current + 1
        BY <2>7, <3>2, Zenon
      <4> QED
        BY <1>5, <3>1, <3>2, <4>1
    <3>3. CASE done # FALSE
      <4>1. done = TRUE
        BY <2>5, <3>3, Zenon
      <4>2. Known' = Known
        BY <1>2, <4>1 DEF Known
      <4> QED
        BY <4>2
    <3> QED
      BY <3>2, <3>3
  <2>10. ASSUME NEW c \in Pictured, c < Known'
         PROVE  Rank(Pictured, c) < Len(images') /\ images'[Rank(Pictured, c) + 1] = c
    <3>1. Rank(Pictured, c) \in Nat
      <4>1. c \in Nat \ {0}
        BY DEF Pictured
      <4> QED
        BY <4>1, RankStep
    <3>2. CASE c < Known
      <4>1. Rank(Pictured, c) < Len(images) /\ images[Rank(Pictured, c) + 1] = c
        BY <2>4, <3>2 DEF Imaged
      <4> QED
        BY <1>8, <3>1, <4>1
    <3>3. CASE c = Current /\ done = FALSE
      <4>1. Len(images) = Rank(Pictured, c)
        BY <2>7, <3>3
      <4> QED
        BY <1>8, <3>1, <3>3, <4>1
    <3> QED
      BY <2>9, <2>10, <3>2, <3>3
  <2>11. Imaged'
    BY <1>7, <2>10 DEF Imaged
  <2> QED
    BY <2>2, <2>3, <2>8, <2>11 DEF DmCore
<1> QED
  BY <1>7, <1>9, <1>10 DEF DmInv

\* A box that opens is a pictured channel's.
LEMMA PictureFailsInv == DmInv /\ Dms!PictureFails => DmInv'
<1> SUFFICES ASSUME DmInv, Dms!PictureFails PROVE DmInv'
  OBVIOUS
<1>1. DmTypes /\ Boxed
  BY DEF DmInv
<1>2. /\ UNCHANGED <<channels, images, items, early, done>>
      /\ Len(fills) > 0 /\ Current <= Len(channels) 
      /\ Dms!Shown(Current) /\ channels[Current].picture = TRUE
      /\ fills' = [fills EXCEPT ![Len(fills)].box = TRUE]
  BY DEF Dms!PictureFails, Dms!At, Dms!Running, Dms!Here, Dms!Top, Dms!Depth, Current
<1>3. /\ fills' \in Seq(Fill) /\ Len(fills') = Len(fills) /\ Len(fills) \in Nat
      /\ Current \in Nat \ {0}
      /\ \A f \in 1..Len(fills) :
           /\ fills'[f].i = fills[f].i /\ fills'[f].pfpidx = fills[f].pfpidx
           /\ f = Len(fills) \/ fills'[f].box = fills[f].box
  <2> DEFINE F == Fill
             n == Len(fills)
             new == [fills[n] EXCEPT !.box = TRUE]
  <2>1. fills \in Seq(F)
    BY <1>1 DEF DmTypes
  <2>2. \A r \in Fill : /\ [r EXCEPT !.box = TRUE] \in Fill
                       /\ [r EXCEPT !.box = TRUE].i = r.i
                       /\ [r EXCEPT !.box = TRUE].pfpidx = r.pfpidx
                       /\ r.i \in Nat \ {0}
    BY DEF Fill
  <2> HIDE DEF F
  <2>3. fills[n] \in F /\ n \in 1..Len(fills) /\ n \in Nat
    BY <1>2, <2>1
  <2>4. new \in F /\ new.i = fills[n].i /\ new.pfpidx = fills[n].pfpidx /\ fills[n].i \in Nat \ {0}
    BY <2>2, <2>3 DEF F
  <2>5. fills' = [fills EXCEPT ![n] = new]
    BY <1>2
  <2> HIDE DEF new
  <2>6. /\ fills' \in Seq(F) /\ Len(fills') = Len(fills)
        /\ \A f \in 1..Len(fills) : f # n => fills'[f] = fills[f]
        /\ fills'[n] = new
    BY <2>1, <2>3, <2>4, <2>5
  <2> QED
    BY <2>3, <2>4, <2>6 DEF F, Current
<1>4. Pictured' = Pictured
  BY <1>2 DEF Pictured, Dms!Shown
<1>5. Current \in Pictured
  BY <1>1, <1>2, <1>3 DEF Pictured, DmTypes
<1>6. DmTypes'
  BY <1>1, <1>2, <1>3 DEF DmTypes
<1>7. Boxed'
  BY <1>1, <1>3, <1>4, <1>5 DEF Boxed, Current
<1>8. Known' = Known
  BY <1>2, <1>3 DEF Known
<1>9. ASSUME early' = FALSE PROVE DmCore'
  <2>1. FirstAlone /\ Imaged /\ Counting /\ Numbered
    BY <1>2, <1>9 DEF DmInv, DmCore
  <2>2. FirstAlone' /\ Imaged'
    BY <1>2, <1>3, <1>4, <1>8, <2>1 DEF FirstAlone, Imaged
  <2>3. Counting'
    BY <1>2, <1>3, <1>4, <2>1 DEF Counting
  <2>4. Numbered'
    BY <1>2, <1>4, <1>8, <2>1 DEF Numbered
  <2> QED
    BY <2>2, <2>3, <2>4 DEF DmCore
<1> QED
  BY <1>6, <1>7, <1>9 DEF DmInv

\* The filling that ends has gone through all the channels.
LEMMA FillEndsInv == DmInv /\ Dms!FillEnds => DmInv'
<1> SUFFICES ASSUME DmInv, Dms!FillEnds PROVE DmInv'
  OBVIOUS
<1>1. DmTypes /\ Boxed
  BY DEF DmInv
<1>2. /\ UNCHANGED <<channels, images, items, early>> /\ done' = TRUE
      /\ Len(fills) > 0 /\ Current > Len(channels)
      /\ fills' = SubSeq(fills, 1, Len(fills) - 1)
  BY DEF Dms!FillEnds, Dms!Running, Dms!Top, Dms!Depth, Current
<1>3. /\ fills' \in Seq(Fill) /\ Len(fills') = Len(fills) - 1 /\ Len(fills) \in Nat
      /\ \A f \in 1..Len(fills') : f \in 1..Len(fills) /\ fills'[f] = fills[f]
      /\ Current \in Nat /\ Len(channels) \in Nat
  <2> DEFINE F == Fill
  <2>1. fills \in Seq(F)
    BY <1>1 DEF DmTypes
  <2> HIDE DEF F
  <2>2. /\ fills' \in Seq(F) /\ Len(fills') = Len(fills) - 1 /\ Len(fills) \in Nat
        /\ \A f \in 1..Len(fills') : f \in 1..Len(fills) /\ fills'[f] = fills[f]
        /\ fills[Len(fills)] \in F
    <3>1. Len(fills) \in Nat /\ Len(fills) - 1 \in Nat /\ Len(fills) \in 1..Len(fills)
      BY <1>2, <2>1
    <3>2. /\ fills' \in Seq(F) /\ Len(fills') = Len(fills) - 1
          /\ \A f \in 1..Len(fills') : fills'[f] = fills[f]
      <4> DEFINE m == Len(fills) - 1
      <4>1. fills' = SubSeq(fills, 1, m) /\ m \in Nat /\ m <= Len(fills)
        BY <1>2, <3>1
      <4> HIDE DEF m
      <4>2. fills' \in Seq(F) /\ Len(fills') = m /\ \A f \in 1..m : fills'[f] = fills[f]
        BY <2>1, <4>1
      <4> QED
        BY <4>2 DEF m
    <3>3. fills[Len(fills)] \in F
      BY <2>1, <3>1
    <3> QED
      BY <3>1, <3>2, <3>3
  <2>3. Current \in Nat
    BY <2>2 DEF F, Fill, Current
  <2> QED
    BY <1>1, <2>2, <2>3 DEF F, DmTypes
<1>4. Pictured' = Pictured
  BY <1>2 DEF Pictured, Dms!Shown
<1>5. DmTypes' /\ Boxed'
  BY <1>1, <1>2, <1>3, <1>4 DEF DmTypes, Boxed
<1>6. ASSUME early' = FALSE PROVE DmCore'
  <2>1. FirstAlone /\ Imaged /\ Counting /\ Numbered
    BY <1>2, <1>6 DEF DmInv, DmCore
  <2>2. Known' = Len(channels) + 1
    BY <1>2 DEF Known
  <2>3. Known = Len(channels) + 1
    <3>1. done \in BOOLEAN
      BY <1>1 DEF DmTypes
    <3>2. CASE done = TRUE
      BY <3>2 DEF Known
    <3>3. CASE done = FALSE
      <4>1. Len(fills) <= 1
        BY <2>1, <3>3, Zenon DEF FirstAlone
      <4>2. Len(fills) = 1
        BY <1>2, <1>3, <4>1, SMT
      <4>3. Known = Current
        <5>1. done # TRUE
          BY <3>3
        <5>2. Len(fills) # 0
          BY <4>2
        <5>3. Known = fills[1].i
          BY <5>1, <5>2, Zenon DEF Known
        <5> QED
          BY <4>2, <5>3 DEF Current
      <4>4. Current <= Len(channels) + 1
        BY <2>1, <4>2 DEF Counting, Current
      <4> QED
        BY <1>2, <1>3, <4>3, <4>4, SMT
    <3> QED
      BY <3>1, <3>2, <3>3, Zenon
  <2>4. FirstAlone'
    BY <1>2 DEF FirstAlone
  <2>5. Imaged'
    BY <1>2, <1>4, <2>1, <2>2, <2>3 DEF Imaged
  <2>6. Counting'
    BY <1>2, <1>3, <1>4, <2>1 DEF Counting
  <2>7. Numbered'
    BY <1>2, <1>4, <2>1, <2>2, <2>3 DEF Numbered
  <2> QED
    BY <2>4, <2>5, <2>6, <2>7 DEF DmCore
<1> QED
  BY <1>5, <1>6 DEF DmInv

\* What leaves the list, its images and the fillings alone.
LEMMA DmKeeps == DmInv /\ UNCHANGED <<channels, images, items, fills, early, done>> => DmInv'
BY DEF DmInv, DmTypes, Boxed, DmCore, FirstAlone, Imaged, Counting, Numbered, Known, Pictured,
       Dms!Shown

LEMMA DmNext == DmInv /\ [Dms!Next]_(Dms!vars) => DmInv'
<1>1. DmInv /\ UNCHANGED Dms!vars => DmInv'
  BY DmKeeps DEF Dms!vars
<1>2. DmInv /\ Dms!UseUnset => DmInv'
  BY DmKeeps DEF Dms!UseUnset
<1> QED
  BY <1>1, <1>2, OpenInv, PictureFailsInv, WithPictureInv, WithoutPictureInv, SkipInv, FillEndsInv
     DEF Dms!Next

\* The image of an item is the one at its channel's rank.
LEMMA OwnIs == DmInv => OwnPicture
<1> SUFFICES ASSUME DmInv, ~early, NEW k \in 1..Len(items),
                    channels[items[k].ch].picture
             PROVE  /\ items[k].iImage < Len(images)
                    /\ images[items[k].iImage + 1] = items[k].ch
  BY DEF OwnPicture
<1>1. early = FALSE
  <2>1. early \in BOOLEAN
    BY DEF DmInv, DmTypes
  <2> QED
    BY <2>1, Zenon
<1>2. Imaged /\ Numbered
  BY <1>1 DEF DmInv, DmCore
<1>3. /\ items[k].ch < Known /\ items[k].ch \in Pictured
      /\ items[k].iImage = Rank(Pictured, items[k].ch)
  BY <1>2 DEF Numbered
<1> QED
  BY <1>2, <1>3 DEF Imaged

\* Every pictured channel in the DM list shows its own image, however often
\* the list is filled again and whatever fillings nest, unless one was begun
\* from a box of the very first filling.
THEOREM PicturesOwn == Dms!Spec => []OwnPicture
BY DmInit, DmNext, OwnIs, PTL DEF Dms!Spec
=============================================================================
