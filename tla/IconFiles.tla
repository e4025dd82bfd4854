----------------------------- MODULE IconFiles -----------------------------
(***************************************************************************)
(* The icon files in the temporary directory: one per hash, fetched when a *)
(* picture is first needed, kept for ever, read at every later use and by  *)
(* every later run.  The three DiscordFetchTmp functions differ in their   *)
(* endpoint only.  The three ways to show a file differ in what a bad one  *)
(* does:                                                                   *)
(*   "guild"  : LoadPNGImage, in READY;                                    *)
(*   "bitmap" : LoadPNGBitmap, for the DM list and the own avatar;         *)
(*   "pfp"    : ChatView_SetUserPfp, for the authors of messages.          *)
(*                                                                         *)
(* A file keeps only what libpng would say of it.  A run of the program    *)
(* may end at any step, and the next one finds the files as they are.      *)
(***************************************************************************)
EXTENDS Naturals, FiniteSets

CONSTANTS Gateway, Window,  \* the two threads
          Nested,           \* a handler dispatched by a box of the window thread
          Nobody,
          GuildIcon,        \* shown by READY, before anything else
          Avatar,           \* shown by all of them
          GroupIcon,        \* of a group conversation, in the DM list
          MaxRuns,          \* bound: runs of the program
          MaxFaults         \* bound: fetches that fail

ASSUME ActivitiesAssumption == Nobody \notin {Gateway, Window, Nested}
ASSUME IconsAssumption      == /\ GuildIcon \notin {Avatar, GroupIcon}
                               /\ Avatar # GroupIcon
ASSUME BoundsAssumption     == MaxRuns \in Nat \ {0} /\ MaxFaults \in Nat

Activities == {Gateway, Window, Nested}
Icons      == {GuildIcon, Avatar, GroupIcon}
Kinds      == {"guild", "bitmap", "pfp"}
\* "junk": no PNG header (an error page, the unset buffer of a failed
\* request); "cut": the connection ended inside the body.
Contents   == {"good", "junk", "cut", "empty"}

VARIABLES
  file,    \* per icon: its file, on disk
  writer,  \* per icon: who has it open for writing, share mode 0
  readers, \* per icon: open read handles; Nobody for one that is never closed
  job,     \* per activity: what it is showing, and where it is
  ready,   \* this run is past the guild icon of READY
  run,     \* runs of the program so far
  faults,  \* fetches that failed so far
  spoilt   \* history: icons with a failed fetch, or a run that ended in a write

disk == <<file, spoilt>>
open == <<writer, readers>>
vars == <<disk, open, job, ready, run, faults>>

Boxes == {"oof", "noAccess", "zzz"}
Idle  == [icon |-> GuildIcon, kind |-> "guild", pc |-> "idle", data |-> "empty"]
Job   == [icon : Icons, kind : Kinds, data : Contents,
          pc : {"idle", "fetch", "create", "write", "open", "decode"} \cup Boxes]

TypeOK ==
  /\ file \in [Icons -> Contents \cup {"none"}]
  /\ writer \in [Icons -> Activities \cup {Nobody}]
  /\ readers \in [Icons -> SUBSET (Activities \cup {Nobody})]
  /\ job \in [Activities -> Job]
  /\ ready \in BOOLEAN
  /\ run \in 1..MaxRuns /\ faults \in 0..MaxFaults
  /\ spoilt \subseteq Icons

\* What a run starts with: no handles, no handlers, no pictures.
ForAll(S, value) == [x \in S |-> value]

Init ==
  /\ file = ForAll(Icons, "none") /\ spoilt = {}
  /\ writer = ForAll(Icons, Nobody) /\ readers = ForAll(Icons, {})
  /\ job = ForAll(Activities, Idle)
  /\ ready = FALSE
  /\ run = 1 /\ faults = 0

-----------------------------------------------------------------------------
At(a, pc) == job[a].pc = pc

Goto(a, pc) == job' = [job EXCEPT ![a].pc = pc]

\* The window thread is in its handler unless a box dispatches another one.
Runs(a) == a = Window => At(Nested, "idle")

\* READY shows the guild's icon, then the user's own avatar; messages show
\* those of their authors, and the DM list those of people and groups.
Uses(a, h, k) ==
  \/ ~ready /\ a = Gateway /\ h = GuildIcon /\ k = "guild"
  \/ ready /\ k = "bitmap" /\ (h = Avatar \/ (h = GroupIcon /\ a # Gateway))
  \/ ready /\ k = "pfp" /\ h = Avatar

Closed(a) ==
  /\ job' = [job EXCEPT ![a] = Idle]
  /\ ready' = (ready \/ job[a].kind = "guild")

\* GetFileAttributesA decides between the file and a fetch.
Show(a) ==
  /\ At(a, "idle") /\ (a = Nested => job[Window].pc \in Boxes)
  /\ \E h \in Icons, k \in Kinds :
       /\ Uses(a, h, k)
       /\ job' = [job EXCEPT ![a] = [icon |-> h, kind |-> k, data |-> "empty",
                                     pc |-> IF file[h] = "none" THEN "fetch" ELSE "open"]]
  /\ UNCHANGED <<disk, open, ready, run, faults>>

\* SendHTTPRequest, whose result nobody looks at.
Fetch(a) ==
  /\ At(a, "fetch")
  /\ \E data \in Contents :
       /\ job' = [job EXCEPT ![a].pc = "create", ![a].data = data]
       /\ faults' = IF data = "good" THEN faults ELSE faults + 1
       /\ spoilt' = IF data = "good" THEN spoilt ELSE spoilt \cup {job[a].icon}
  /\ faults' <= MaxFaults
  /\ UNCHANGED <<file, open, ready, run>>

Unused(h) == writer[h] = Nobody /\ readers[h] = {}

\* Variant: opens the file whoever has it open.
Create_Shared(a) ==
  /\ At(a, "create")
  /\ file' = [file EXCEPT ![job[a].icon] = "empty"]
  /\ Goto(a, "write")
  /\ UNCHANGED <<spoilt, open, ready, run, faults>>

\* CreateFileA, CREATE_ALWAYS: an old file is emptied at once.
Create(a) ==
  LET h == job[a].icon
  IN  /\ At(a, "create")
      /\ IF Unused(h)
         THEN /\ file' = [file EXCEPT ![h] = "empty"]
              /\ writer' = [writer EXCEPT ![h] = a]
              /\ Goto(a, "write")
         ELSE Goto(a, "oof") /\ UNCHANGED <<file, writer>>
      /\ UNCHANGED <<spoilt, readers, ready, run, faults>>

\* The box about the file.  Only the callers that use the path the function
\* returns have lost it; the handlers of messages keep one of their own.
CreateFailed(a) ==
  /\ At(a, "oof") /\ Runs(a)
  /\ Goto(a, IF job[a].kind = "pfp" THEN "open" ELSE "noAccess")
  /\ UNCHANGED <<disk, open, ready, run, faults>>

\* WriteFile, CloseHandle.
Write(a) ==
  LET h == job[a].icon
  IN  /\ At(a, "write")
      /\ file' = [file EXCEPT ![h] = job[a].data]
      /\ writer' = [writer EXCEPT ![h] = Nobody]
      /\ Goto(a, "open")
      /\ UNCHANGED <<spoilt, readers, ready, run, faults>>

\* Variant: opens the file although it is being written.
Open_Shared(a) ==
  LET h == job[a].icon
  IN  /\ At(a, "open")
      /\ readers' = [readers EXCEPT ![h] = @ \cup {a}]
      /\ job' = [job EXCEPT ![a].pc = "decode", ![a].data = file[h]]
      /\ UNCHANGED <<disk, writer, ready, run, faults>>

\* CreateFileA, OPEN_EXISTING, FILE_SHARE_READ, and ReadFile of all of it.
Open(a) ==
  LET h == job[a].icon
  IN  /\ At(a, "open")
      /\ IF writer[h] = Nobody
         THEN /\ readers' = [readers EXCEPT ![h] = @ \cup {a}]
              /\ job' = [job EXCEPT ![a].pc = "decode", ![a].data = file[h]]
         ELSE Goto(a, "noAccess") /\ UNCHANGED readers
      /\ UNCHANGED <<disk, writer, ready, run, faults>>

NoAccess(a) ==
  /\ At(a, "noAccess") /\ Runs(a)
  /\ Closed(a)
  /\ UNCHANGED <<disk, open, run, faults>>

\* A handle is closed at the end of a function that closes it; otherwise it
\* stays until the program ends.
Release(a, closes) ==
  readers' = [readers EXCEPT ![job[a].icon] =
                (@ \ {a}) \cup (IF closes THEN {} ELSE {Nobody})]

\* A whole picture.  LoadPNGBitmap has no CloseHandle.
Decode(a) ==
  /\ At(a, "decode") /\ job[a].data = "good"
  /\ Release(a, job[a].kind # "bitmap")
  /\ Closed(a)
  /\ UNCHANGED <<disk, writer, run, faults>>

\* An error behind setjmp: a box.  ChatView_SetUserPfp calls setjmp first,
\* the other two only once the header is read.
Caught(a) == job[a].kind = "pfp" \/ job[a].data = "cut"

DecodeFails(a) ==
  /\ At(a, "decode") /\ job[a].data # "good" /\ Caught(a)
  /\ Goto(a, "zzz")
  /\ UNCHANGED <<disk, open, ready, run, faults>>

\* The box closed, ChatView_SetUserPfp goes on to its end with a picture of
\* no size; the other two return NULL.
DecodeFailed(a) ==
  /\ At(a, "zzz") /\ Runs(a)
  /\ Release(a, job[a].kind = "pfp")
  /\ Closed(a)
  /\ UNCHANGED <<disk, writer, run, faults>>

\* The program ends, and is started again.
Restart ==
  /\ run < MaxRuns
  /\ run' = run + 1
  /\ spoilt' = spoilt \cup {h \in Icons : writer[h] # Nobody}
  /\ writer' = ForAll(Icons, Nobody) /\ readers' = ForAll(Icons, {})
  /\ job' = ForAll(Activities, Idle)
  /\ ready' = FALSE
  /\ UNCHANGED <<file, faults>>

\* Variant: an error before setjmp is an error box like the others.
Abort_Caught(a) ==
  /\ At(a, "decode") /\ job[a].data # "good" /\ ~Caught(a)
  /\ Goto(a, "zzz")
  /\ UNCHANGED <<disk, open, ready, run, faults>>

\* png_error with nowhere to jump to: libpng calls abort().
Abort(a) ==
  /\ At(a, "decode") /\ job[a].data # "good"
  /\ ~Caught(a)
  /\ Restart

\* PngReadBufCB copies from behind the end of a cut file: an access fault
\* may end the program before libpng notices.
Overread(a) ==
  /\ At(a, "decode") /\ job[a].data \in {"cut", "empty"}
  /\ Restart

\* Somebody or something else ends the program.
Quit == Restart

-----------------------------------------------------------------------------
\* The three functions that fetch.
FetchSteps(a) == Fetch(a) \/ Create(a) \/ CreateFailed(a) \/ Write(a)

DiscordFetchTmpGuildIcon(a)   == job[a].icon = GuildIcon /\ FetchSteps(a)
DiscordFetchTmpPfp(a)         == job[a].icon = Avatar /\ FetchSteps(a)
DiscordFetchTmpChannelIcon(a) == job[a].icon = GroupIcon /\ FetchSteps(a)

\* The three functions that read.
LoadSteps(a) == \/ Open(a) \/ NoAccess(a) \/ Decode(a) \/ DecodeFails(a)
                \/ DecodeFailed(a) \/ Overread(a)

LoadPNGImage(a)        == job[a].kind = "guild" /\ (LoadSteps(a) \/ Abort(a))
LoadPNGBitmap(a)       == job[a].kind = "bitmap" /\ (LoadSteps(a) \/ Abort(a))
ChatView_SetUserPfp(a) == job[a].kind = "pfp" /\ LoadSteps(a)

Steps(a) == \/ Show(a)
            \/ DiscordFetchTmpGuildIcon(a) \/ DiscordFetchTmpPfp(a)
            \/ DiscordFetchTmpChannelIcon(a)
            \/ LoadPNGImage(a) \/ LoadPNGBitmap(a) \/ ChatView_SetUserPfp(a)

Next == Quit \/ \E a \in Activities : Steps(a)

Spec == Init /\ [][Next]_vars

-----------------------------------------------------------------------------
(* Properties.                                                              *)

\* The share modes keep a reader from a file that is being written: what it
\* reads is bad only if a fetch of that picture failed, or an earlier run
\* ended between CreateFileA and WriteFile.
BadReadHasCause ==
  \A a \in Activities :
    At(a, "decode") /\ job[a].data # "good" => job[a].icon \in spoilt

\* Some activity found no file and has yet to open its own.
Fetching(h) == \E a \in Activities : job[a].icon = h /\ job[a].pc \in {"fetch", "create"}

\* A file that is there and closed stays as it is, in this run and in later
\* ones: a bad one is never fetched again, and a good one can only be lost to
\* a second fetch that was already under way.
KeptForGood ==
  [][\A h \in Icons :
       file[h] # "none" /\ writer[h] = Nobody /\ ~Fetching(h) => file'[h] = file[h]]_vars

\* The guild icon's file has no header, and this run has still to show it.
Doomed == /\ file[GuildIcon] \in {"junk", "empty"} /\ writer[GuildIcon] = Nobody
          /\ ~ready

\* One reply without a picture for a guild's icon, and neither this run nor
\* any later one gets past READY again.
DoomedForGood == [](Doomed => []~ready)
=============================================================================
