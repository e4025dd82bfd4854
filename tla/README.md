# Backcord in TLA+

TLA+ models of Backcord, a Win32 Discord client in C, with TLC runs on small
instances and TLAPS proofs for instances of any size. All definitions are
translated from the sources; `PROJECT.json` gives the lines of each one.

## The system

Two threads do everything. The **window thread** runs `WinMain`'s message loop
and all window procedures. The **gateway thread** (`WSThreadProc`) reads the
gateway's WebSocket and runs its handlers, which also draw into windows of the
other thread. They share data without locks, except for one critical section
per keep-alive HTTP connection.

| component | state | operations | hard part |
|---|---|---|---|
| keep-alive HTTP client (`http.c`) | `HTTPConnection`: SSL, lock | `SendHTTPRequest`, connect, close | two threads on `cdncon`; seven returns, five of them with the lock held; two read loops that search for text |
| one-shot HTTP (`http.c`) | none | `SendShortHTTPReq` | none: nothing calls it |
| WebSocket transport (`ws.c`) | SSL, thread | open, read, send, loop | the thread starts before `GatewaySSL` is set; two writes per frame; fragments, control frames, short reads |
| gateway session (`discordapi.c`) | `GatewaySSL`, timer | hello, heartbeat, dispatch | timer of a thread without a message loop; handlers that wait for the window thread |
| READY (`discordapi.c`, `main.c`) | `GuildsTable`, `ChannelsTable`, `PrivateChannels` | `HandleREADY`, `onDiscordGuildLoad` | copies in hash tables; slots skipped; the window thread already paints and clicks |
| guild bar (`guildwnd.c`) | `uiglds`, `uigldcnt`, `selIndex`, scroll | insert, icon, mentions, paint, scroll, click | filled by one thread, used by the other |
| channel tree (`main.c`) | tree items, category table | rebuild | parents by id, items that die with the tree |
| chat view (`chatwnd.c`, `main.c`) | `uimsgs`, `contentHeight`, `scrollOffset`, `curChannel` | select, insert, clear, paint, scroll | check and use of `curChannel`; loads suspended in message boxes; height computed by another thread |
| DM list (`main.c`) | `hDMsList`, `hSidePfps` | fill | images added again at every opening; fillings inside message boxes |
| message list (`chatwnd.c`) | `uimsgs`, `uimsgcnt`, `pfp_map`, strings of messages | insert, clear, paint, set picture | both threads, no lock; `realloc`; strings shared with the JSON and with the picture table |
| icon files (`discordapi.c`, `pnghlp.c`) | files in the temporary directory | fetch, write, open, decode | kept for ever, whatever is in them; two threads fetch one picture; a run may end in the middle |
| sending (`main.c`, `discordapi.c`) | edit field, `curChannel` | Enter | which channel is open while a selection is under way |
| start-up, login, shutdown (`main.c`, `login.c`) | token in the registry, windows, connections | `WinMain`, `PromptToken`, `WM_CLOSE` | the token is saved untried; connections freed twice, without locks, under suspended handlers |
| PNG decoding, hash map (vendored), control set-up, stubs | | | see "Not modelled" |

Interactions: a selection in a window calls `SendHTTPRequest` on `maincon` or
`cdncon` and then fills the chat view; a frame from the gateway calls a handler
that fetches an avatar through `cdncon` (same lock) and then calls into windows
with `SendMessage` or `UpdateWindow`, which wait for the window thread's loop.
`MessageBoxA` runs a message loop of its own on whichever thread calls it; that
is why handlers nest and why the lock is entered recursively.

What makes each part correct is listed with its module below; `PROJECT.json`
lists the hazards line by line, with the properties aimed at them.

## Modules

`MC*.tla` give the constants their values for TLC and hold nothing else. `TypeOK` of a
module says what its variables hold; each module with a proof module has a theorem
`TypeCorrect` for it, and `keepalive_faults` and `client` check theirs besides.
`XProofs` holds the theorems about `X`; "What is proved" says how they go.
`GuildProofs` also has the one about `ChannelTree`, and `IconProofs` the one about
`DmList`. These two models share names with the modules of the other theorems, so
they are instantiated there (`Tree`, `Dms`), and what their properties speak of is in
modules that both sides extend: `TreeShown` and `DmsShown`, a few variables and the
property.
Definitions called `X_Something` are variants of `X` with a plausible bug; they are
not part of any specification and are used to see that each property can fail.

### KeepAliveConn, ConnService, KeepAliveProofs (`http.c`)

`KeepAliveConn` is `SendHTTPRequest` on one connection with any number of
threads. `pc[t]` is the place in the function; `owner` and `depth` are
`conn->lock`, a recursive critical section; `wire` and `stream` are the two
directions of the TLS connection; `got[t]` is `buffer`. The server's bytes are
pieces of a few kinds, which keep only what `strstr` and the length test see:
header blocks with a length or chunked, data, the last chunk, data that contains
`0\r\n\r\n` ("mark"), data that contains a NUL ("nul"). Each return of the function
is an action: `Finish` (return 0), `WriteFails`, `HeadReset`, `HeadOutOfMemory`,
`BodyOutOfMemory`; `HeadEof` is the loop that never ends. A `MessageBoxA` on a
failure leaves an open box (`boxes[t]`), from which the window thread may start
another request.

`ConnService` is what callers rely on: one holder at a time, given back, or
abandoned for good. `ImplementsService` is the refinement; the abandoned state is
"owner holds it more often than its running request explains".

`keepalive_faults` checks all safety properties, the refinement and
`CallsReturnWhileUp` together, with all kinds of data and faults: 2 threads, 3
requests, 1 body piece. That is enough for a nested request inside a failed one
plus one more on the other thread, and for one response to leave a rest that the
next one finds.

`FreeMeansQuiet` and `PairedReply` are stated for a stream that nothing put out of
step (`taint = {}`): with a "mark" in a chunked body the code does return a short
body and leave the rest for the next request. `CallsReturnWhileUp` names in
`Excused` everything that keeps a request for ever: a connection that is not up
(the header loop does not test for it), a failed `realloc`, and a NUL inside a
chunked body. Fairness: a thread in the function is scheduled (WF of its steps),
the server answers (WF), and a waiter on the critical section gets it in the end
(SF of `Enter`), as on the Windows versions that hand sections over in order. No
fairness for closing boxes or for faults.

### Gateway, GatewaySession, GatewayProofs (`ws.c`, `discordapi.c`)

The window thread (`upc`) goes through the handshake, `CreateThread`, `*out_ssl = ssl`
and then alternates between its loop and a handler. The gateway thread reads a
frame and works through `todo`, the list of things its handler does that take
time: half a frame to send, a box, a picture requested over `cdncon`, a call into a
window. A `WM_TIMER` is dispatched only inside a box of that thread (`Heartbeat`), and
then its two writes go in front of the rest of the handler. Both threads make
requests over `cdncon` (`Request`, `WindowRequest`), enter its section, and leave it or
not: an early return keeps it (`kept`), and the read that never ends keeps the thread
as well ("stuck"). What goes on inside the section is `KeepAliveConn`'s.

A write fails when the connection is down (`SendFails`), or because `malloc` has no
memory for the payload when the header is out already (`NoMemory`, `ws.c:168`): `out`
then has a "lost" payload, and the server cannot tell the frames behind it apart
(`Heard`). `FramesWhole` says that nothing else tears a frame. `GatewaySession` is the
sequence of stages a session may go through; the refinement takes for the stage what
the server has been able to make out, so a torn frame may stop a session, but not
carry it past a stage.

| run | question | bounds |
|---|---|---|
| `gateway_safety` | whole frames on the socket, `GatewaySSL` set by the time READY is shown, stages in order, and `FramesHandled` | 3 frames, 2 timer intervals: hello, READY with its requests, boxes and calls, and a message, with one heartbeat inside a box and one after it |
| `gateway_heartbeat` | a due heartbeat is sent: **violated** | 2 frames |

Fairness: both threads get the processor; a request inside the section comes to one
of its ends (WF); a handler of the window thread makes finitely many requests, so a
thread that is busy again and again returns (SF of `Return`); a section that is left
again and again is entered by the thread that waits (SF of `Request` and
`WindowEnters`), and a call into a window is served if the window thread comes to its
loop again and again (SF); an open box dispatches a waiting timer message. The user
never has to close a box, so `FramesHandled` lets an open box keep the thread. It also
names, in `Hung`, what the code does not come back from: a request that never ends,
and waiting for a section the other thread has kept. `Client` follows these over both
connections.

### WsReader, MessagePipe, WsReaderProofs (`ws.c`)

`ReadWebSocket` unit by unit, with the loop of `WSThreadProc` around it. Three
hardships can be switched on: control frames between fragments, length fields
split over TLS records, connections that end inside a frame. An opcode keeps its
FIN bit as in the code, so only the first fragment of a text message counts as
text. After a split length the reader is out of step, and what it makes of the
bytes is not followed (`rpc = "lost"`).

| run | question | bounds |
|---|---|---|
| `wsreader_faults` | nothing skipped or repeated; whole messages except the last; until a hardship strikes it implements `MessagePipe`, and everything is handed over or the thread has one of two reasons to end (WF of the reader) | 3 frames of up to 2 units: a message of three fragments, or a control frame between two |

The refinement maps the abstract `taken` to the buffers handed over before the
first hardship (`nclean` of them): what follows is not promised.

### GuildList, GuildProofs (`guildwnd.c`, `HandleREADY`)

The steps of `GuildView_InsertGuild` (count, array, row) interleave with a
`WM_PAINT` that draws row by row, with scrolling in real pixels, and with clicks
at the edges of the picture grid. `wild` records the use of a row that is not there
(a click below the last row, a paint during an insertion or while the array moves); the
selection properties are stated for behaviours in which that has not happened.
The array is away while it is moved: `realloc` frees the
old one (`ReallocFrees`) before the pointer to the new one is assigned
(`ReallocAssigns`), and a row used in between is in freed memory. The scroll bar moves
by lines, by pages and with its thumb (`ScrollTargets`).

`guildlist_safety`: all READY messages with up to 2 guilds (one has an icon) and 2
read states; two rows already give an insertion behind a painted row, and a
150-pixel window makes them scroll. The thumb is dragged to 1, 17 and 40 (`TrackYs`):
positions that lines and pages do not reach, one of them past the end.

### ChannelTree, TreeShown (`HandleREADY`, `WindowProc`)

All lists of up to 2 channels for 2 guilds, with every parent, type and order, and
2 rebuilds (`channeltree_safety`). A channel that comes before its category in the
list hangs under the root: that is what `NestedIfCategoryCameFirst` says. A slot
skipped by `HandleREADY` ends the model ("wild").

### ChatView, ChatViewProofs (`chatwnd.c`, `main.c`)

The window thread's load of a channel, statement by statement, with up to two
loads at once (a second selection from a message box of the first); the gateway
thread's check and its `InsertChatMessage`, one step for each access the window thread
can come between: the entry, the count, `InvalidateRect`, `UpdateWindow` (which returns
at once if somebody has painted since), `GetClientRect`, the two reads of
`contentHeight` by the macro `max`, and the assignment; sending, and the view being
resized. Once both threads are inside `uimsgs` at the same time (`shared`), messages may
be lost and memory go wrong; here the behaviour ends, and `MessageStore` goes on.
Entries remember under which value of `curChannel` they were chosen. A request
that fails shows a box with the section held, from which a selection or a message
may follow ("refused"). A listing is the last few messages of the channel at some
moment of the request, in ascending order. `picked` is what the user selected last; `SentToPicked`
compares it with the channel the text goes to.

| run | question | bounds |
|---|---|---|
| `chatview_safety` | strays, order, gaps, the channel of what is sent, the scroll position | 2 channels (symmetric), history of 2, views of 1 and 2 units, 3 posts, 2 selections, nesting 2: a post can be older than, inside, or newer than a history, a load can overtake the one it interrupts, and the view can be resized and repainted between any two steps of an insertion |
| `chatview_height` | "contentHeight is fresh" (comment in the code): **violated** | 2 selections |

`ScrollNotPastEnd` speaks of one selection in a view that has not grown since its
height was measured: `WM_SIZE` does not clamp the position, and clearing the list leaves
it as it was. A paint that begins between the two reads of `contentHeight` can leave the
position short of the end, or even negative, but not past it.

### MessageStore, MessageList, ChatLayout, MessageStoreProofs (`chatwnd.c`, `discordapi.c`)

`MessageStore` is the memory under that list: the array and its count, the strings
of each message, and the keys of `pfp_map`, which are strings of messages. A
`realloc` is two steps, and until the second one the array belongs to whoever
called it. `hashmap_set` (`SetKey`) is a step of its own on either thread: if the other one
is in the map too, an entry may be lost or freed buckets be used. Handlers are frames on a stack per thread (`todo` is what a history has
still to show). `wild` is the use of an entry that is not there; `shared` says that
both threads have been in the list, or in `pfp_map`, at once. `WildHasCause` says that the second is
the only way to the first, with one exception: clearing frees pointers of a live
message that are not its own strings (the avatar is not copied, `discordapi.c:415`,
and two fields are never set), which the heap may or may not survive. Until then the
list is `MessageList`, the plain list a reader of `main.c` has in mind
(`ImplementsList`: append at the end, clear all).

`ChatLayout` has the heights of `WM_PAINT` as functions of a list of authors and
heights of text. `PicturesApart` checks them on every list that `MessageStore`
reaches, with texts of no, one and two lines.

`messagestore_races`: 3 messages, 2 users (symmetric), 3 selections, nesting 2: an
array that grows under a paint or a clear, a load interrupted by another, and a
clear after live and loaded messages.

### DmList, DmsShown (`main.c`, `HandleREADY`)

`PrivateChannels` as READY left it, then clicks on the DM button. Each click empties
the list but not the image list, and counts images from 0. A picture that cannot
be loaded opens a box, from which the list may be opened again. `OwnPicture` is
stated for behaviours in which that has not happened during the very first filling;
then the images stand in another order and pictures are mixed up. `dmlist_safety`:
up to 3 channels of every kind, with and without pictures, 3 clicks, nesting 2, so
that a filling can follow, or run inside, a finished and an unfinished one.

### IconFiles, IconProofs (`discordapi.c`, `main.c`, `pnghlp.c`)

One file per picture, which is absent, good, empty, "junk" (no PNG signature) or
"cut". An activity (the gateway thread, the window thread, a handler inside one of
its boxes) finds the file or fetches it, writes it with share mode 0, and opens and
decodes it in one of three ways that differ in what a bad picture does: nothing
(`LoadPNGBitmap`), a box (`ChatView_SetUserPfp`), or the end of the process, because
`png_read_info` comes before `setjmp` (`LoadPNGImage`, `pnghlp.c:34`). A run may end
at any step and the files stay.

`iconfiles_faults`: 3 pictures, one for each way of showing it, 3 runs, 2 failing
fetches: one run that spoils a file, one that meets it, and one more to see that
nothing was repaired. A failed fetch and a run that ends in a write are the only
causes of a bad picture (`BadReadHasCause`); a file that is there is kept
(`KeptForGood`); and one bad reply for a guild's icon ends this run and every later
one before READY is done (`DoomedForGood`).

### Client, ClientProofs (`main.c`, `login.c`, with `http.c` as `ConnService`)

The composition. A handler is the list of what it has still to do: requests on
`maincon` or `cdncon`, boxes, calls into windows, the switch of `curChannel`. Each
thread has a stack of them; the window thread starts another one in its loop or in
a box, the gateway thread after a frame. A connection is used as `ConnService`
promises it, and `ConnsAreServices` checks that the way handlers nest stays within
that. Around the handlers are start-up, the login window, `WM_CLOSE` with its fall
through into `WM_DESTROY`, and runs that follow each other with only the registry
between them.

| property | says |
|---|---|
| `WaitsHaveCause` | the threads wait for each other only over an abandoned connection |
| `MisuseHasCause` | the window thread uses freed connections only in a handler that `WM_CLOSE` found in a box |
| `WindowResponds` | the window thread gets back to its loop unless a request has gone wrong |
| `CloseEnds` | closing the window ends the program, unless such a suspended handler goes on |
| `BadTokenForGood` | a token that is refused is used at every later start, and READY never comes |

`client`: 2 runs, 3 handlers and 2 faults in a run: two handlers nested on the
window thread while the gateway thread has one, and both connections gone wrong.
Fairness: both threads are scheduled (WF), a section that is free again and again is
entered and a call is served by a loop that comes again and again (SF), and
`WM_QUIT` closes the boxes of the window thread. Nobody has to close a box
otherwise, and no fault has to happen. What `UseClosed` may do covers every outcome
of a request on freed memory: the end of the process, waiting for ever, returning.

## What is proved

Every invariant, action property and refinement that a run checks, for any values of
the constants. The proofs use no assumption beyond the named ones in the modules
(threads differ from each other and from "nobody", bounds are natural numbers). In
each module an inductive invariant, `Inv`, is shown to hold at first and after every
action, with one lemma for each action or group of actions; the theorems follow from
it. A few have an invariant of their own on top of it (the token in `ClientProofs`, the
stream in `KeepAliveProofs`, the count of units in `WsReaderProofs`, the guild's icon in
`IconProofs`). Where a theorem states a property of a run, the run shows it on the
small instance and the theorem for every size.

`KeepAliveProofs`, for any set of threads, any number of requests and pieces and
any combination of faults:

* `TypeCorrect`: all types; in particular the lock count never goes below zero.
* `Exclusive`: only one thread is inside `SendHTTPRequest`, boxes and nested
  requests included (`OneThreadOnWire`).
* `LeakHasCause`: the lock is kept by a returned thread only after a broken
  connection or a failed `realloc` (`LeakOnlyAfterFault`).
* `LeakPersists`: such a lock is never released (`LeakIsForever`, which no run checks
  by itself: it is part of `ImplementsService`).
* `FreeIsQuiet`, `RepliesPaired`: between requests nothing is on the connection, and
  each request that returns 0 has exactly its own response (`FreeMeansQuiet`,
  `PairedReply`), unless the stream was put out of step.
* `ImplementsConnService`: the refinement (`ImplementsService`).

The first ones rest on `Inv`: types, "free exactly when the count is
zero", "inside means owner", and `LeakOnlyAfterFault`. Exclusion alone is not
inductive: without the first two, a step of `Enter` or `Finish` could start from a
state in which the lock is free although a thread is inside. `LeakStep` and
`ServiceStep` are the step lemmas behind the action property and the refinement.
The pairing of replies rests on `StreamInv`: for each place in the function
(`Place`) it says what the two directions carry (`Waiting` for an answer, or a part
of one `Exchange`: pieces of one request that begin with a header and end where
the header or the last chunk says). What a thread has read and what is still to come
are one exchange together, so a thread that stops reading has read it all.

`GatewayProofs`, for any number of frames and timer intervals: `TypeCorrect`,
`WholeFrames` (`FramesWhole`), `PublishedFirst` (`PublishedByReady`) and
`RunsAsSession` (the refinement of `GatewaySession`). The invariant speaks of
`todo`, what the handler has still to do: half frames stand in it in pairs
(`Paired`), and while the connection is up the number of halves written, lost payloads
among them, is odd exactly when the payload of the last header comes next
(`WireInv`). A heartbeat that a box dispatches goes in front of the rest as a whole
pair, which is why it cannot split one. `StageInv` says that what is still to do comes in the order of the
stages: before an identify there is a heartbeat, and before READY both were sent.

`WsReaderProofs`, for any number of frames of any length, any splitting of them by
`SSL_read` and any end of the connection: `TypeCorrect`, `WholeUntilLast`
(`WholeButLast`, which leaves out behaviours with a control frame between two
fragments: there the code hands over the beginning of a message as a whole one),
`PipeImplemented` (the refinement of `MessagePipe`) and
`NoneSkipped` (`NothingSkipped`). The reader
knows nothing of the server's messages; the stream between them ties them together.
`Synced` says that each place in the stream can be labelled with the state of a
reader that has read as far: the message, how much of it is in the buffer, FIN of the
frame, how much of that is left. Each unit leads from one label to the next (`Track`),
the reader is at the first (`Here`), and labels and units agree with what the
server sent (`Faithful`). A frame extends the labels (`Extended`), a cut keeps the
first of them (`Cut`), a step of the reader drops some (`Shifted`). A cut inside
a header makes the one exception: the reader takes what it has for the length
(`Astray`), and hands over the beginning of a message.

`NoneSkipped` speaks of all buffers joined and holds under every hardship (after a
split length, up to where the reader is no longer followed), so it
cannot follow from `Synced`, which a control frame between fragments takes the messages
from. `CountInv` gives each place in the stream the number of payload units before
it (`Counts`), and says that the reader has read exactly those before the first place
(`Read`). What `FlattenSeq` computes for a buffer more (`FlattenAppend`) is an induction
over data: `Least` and `Inductive` get it, in terms of sets, from the library's fact
that the natural numbers are well-founded.

`ChatViewProofs`, for any channels, messages, heights and depth of loads inside
each other: `TypeCorrect`, `StraysExplained` (`StraysAreStale`), `OrderKept`
(`InOrder`), `OnlyGapIsMissing` (`MissingOnlyFromGap`), `NotPastEnd`
(`ScrollNotPastEnd`) and `SendsToPicked` (`SentToPicked`). Those about the list hold up
to the moment at which both threads are in `uimsgs`; `SentToPicked` speaks of a window
thread that loads nothing, and of a channel that was not selected during another load.
Each load that has set
`curChannel` has a value of `switches` of its own, and the one with the last value is
of the open channel (`LoadInv`); so an entry chosen under the last value belongs there.
`HistoryInOrder` and `LiveInOrder` say that what a load or the gateway thread
has still to show is newer than what it has shown; `Accounted`, that a message of the
open channel is shown, about to be, or was sent in the gap. While no two selections
overlap, the stack has at most one load (`Alone`). Until the second selection the
content only grows, so what was ever measured or computed on either thread is at most
what is there now (`Heights`, `Measured`).

`GuildProofs`, for any guilds, read states and heights: `TypeCorrect`,
`SelectionKept` (`SelectionAgrees`), `ClicksHit` (`ClickHitsPicture`) and
`MentionsKept` (`MentionsAgree`); for any lists of channels and any clicks
`ChannelsNested` (`NestedIfCategoryCameFirst`). `LoaderInv` gives, for each place in `HandleREADY`,
the rows (the guilds in reverse, the last of them perhaps not written yet), the
table, and the mentions of the read state at hand that one of them has not got
yet; while the array moves, the rows that will be there. `WindowInv` says that a row once drawn as a guild is still there, so what is on
the screen is what a click finds; that the row computed from the click is the one
drawn is arithmetic (`HitIndex` inverts the layout). For the tree, `InPlace` says that
its items are the first channels of the guild in their order, and `Tabled` that the
category table holds the categories among them, and no item of an earlier tree:
`Nested` then says where each one hangs.

`MessageStoreProofs`, for any number of messages, selections and nested handlers:
`TypeCorrect`, `WildExplained` (`WildHasCause`), `AliveShown` (`ShownAreAlive`),
`PicturesFound` (`PictureFound`), `StoresList` (the refinement of `MessageList`) and
`PicturesKeptApart` (`PicturesApart`).
A message belongs to one handler at most until it is counted in, and then to none
(`StackInv`). While the threads have kept apart, in the list and in the map (`Apart`), the entries in use are distinct,
within the array, and not freed (`ArrayInv`); during a clear those are the ones it has
not reached yet. `FrameInv` has what a handler knows of the array at each of its
steps, which is what a nested handler must not break: only a box suspends one, and
nothing is known in a box. `KeyInv`: every picture set since the last clear has a
key set since then. In the refinement the increment of the count adds a message, the
start of a clear empties the list, and everything else is a stutter.
`PicturesKeptApart` needs no more of the state than its types: `LaidApart` says it of
every list with such lines of text. A message is placed where the one before it ends
(`TopIs`, by the same induction as in `WsReaderProofs`), and a row of one message is
at least 46 pixels high, one of several 15 + 13 + 13 if all have text (`HeightIs`).

`IconProofs`, for any three pictures, any number of runs and failing fetches:
`TypeCorrect`, `BadReadsExplained` (`BadReadHasCause`), `FilesKept` (`KeptForGood`) and
`DoomIsForGood` (`DoomedForGood`); for any number of private channels, clicks and nested
fillings `PicturesOwn` (`OwnPicture`). The invariant adds to the property that a closed file which is no
picture was spoilt, that data about to be written which is no picture belongs to a
spoilt one, that what somebody has open or is going to open is there, and that a
writer has its file for itself (`Writing`, the share mode): without the last one two
writers could leave a file that neither of them is to blame for. `GuildIconInv` says
that before READY the gateway thread is alone with the guild's icon: it fetches only
what is not there, never finds the file in use, and decodes what the file holds; so
every way on from a file without a header is a restart. For the images, `Rank` counts
the channels with a picture before a place. The first filling adds their images in that
order (`FirstAlone`), they stay (`Imaged`), and every later filling counts the same
way (`Counting`), so what `Numbered` says of an item survives a filling inside another.

`ClientProofs`, for any number of runs, handlers and faults: `TypeCorrect`,
`WaitsExplained`, `MisuseExplained`, `UsedAsServices` and `BadTokenKept`. First
come lemmas on what going on, turning, beginning and ending do to a stack of handlers
of any depth. Then the invariant:

* `Stacks`: only the first step of a handler is inside a request, and all handlers
  but the running one show a box;
* `Counted`, `Owned`: a section is free exactly when its count is zero; who is inside
  or has a failed request further down its stack owns it, and has it at least twice if
  leaving once must not free it. This is what nesting needs: an inner request that
  returns must not free the section of the outer one;
* `GatewayOwns`: the gateway thread has one handler, so unless it abandoned a section
  it owns only the one of the request it is at. `WaitsHaveCause` follows;
* `Closing`: if nothing was suspended at `WM_CLOSE`, nothing but the rest of
  `WM_CLOSE` is left on the window thread. `MisuseHasCause` follows.

`BadTokenKept` has a small invariant of its own (`TokenInv`): the registry is only
written when there was nothing in it. Together, `UsedAsServices` and
`ImplementsConnService` say that the two levels fit: handlers use connections as
promised, and `SendHTTPRequest` keeps the promise.

Only model-checked: liveness under fairness (`CallsReturnWhileUp`, `FramesHandled`,
`AllTaken`, `WindowResponds`, `CloseEnds`), which is out of the prover's reach, and the
two runs that show a disagreement. `DoomedForGood` has the form of a temporal property
but promises nothing to happen, so it is proved.

## Where code and documents disagree

* `gateway_heartbeat`: TODO.md ticks the gateway off, but no heartbeat follows the
  first one while the thread waits for data (`discordapi.c:473`).
* `chatview_height`: the comment at `chatwnd.c:118`.

Seen while modelling and not run:

* `main.c:706` frees `msgs`, which `DiscordGetChannelHistory` has not set when it returns
  0 (`discordapi.c:198`, `discordapi.c:200`): a free of an uninitialised pointer.
* TODO.md ticks keep-alive off, but a connection closed by the server makes the next
  request spin in `http.c:187` with the lock held (`Excused` in `KeepAliveConn`).
* The comments at `ws.c:84` and `ws.c:96` speak of an upgraded connection; the test
  can be skipped or passed by a refusal (`Refused` in `Gateway`).
* `main.c:241` says "the backend provides strdup"; the avatar of a live message is
  not copied (the exception in `WildHasCause`).
* A text message in one frame is never followed by the `'\0'` that `ws.c:246` means
  to write: the opcode keeps its FIN bit.
* Closing the login window destroys it without ending its loop (`login.c:102`): the
  process stays without a window (`CloseLogin` in `Client`).
* `MentionCount` is kept up to date but `WM_PAINT` in `guildwnd.c` does not draw it,
  although TODO.md ticks mention counts off.
* `chatwnd.c` skips messages above the view by a comparison of an unsigned sum with
  0, which is never true: all of them are drawn, outside the window.
* Selecting a DM leaves the title of the channel that was open before.
* A message without text in a row of several of one author lets its picture reach
  into the next one (the exception in `PicturesApart`).

## Not modelled, and why

Resources and kernel stubs: not the program's logic. Of the vendored `hmap/hashmap.c`
only what `hashmap_set` does to an entry is modelled (`Replaced` in `MessageStore`).
`SendShortHTTPReq`: nothing calls it. Fonts, colours,
window placement, pixels of pictures, `LoadPNGImageFromResource`, control set-up: no
state the properties could be about. `GetHeaderValue` is taken by its result. Reads of
freed or unset memory: a model of their outcome would say nothing; the states in which
they happen are reached and named (`wild`, `lost`, `UseClosed`, `SendNowhere`).

In parts: READY's user block and the text of DM items; the icons of the channel tree.

## Plan

Order in which the modules were written: `KeepAliveConn`, `Gateway`, `ChatView`,
`WsReader`, `GuildList`, `ChannelTree`, `DmList`, `IconFiles`, `MessageStore`,
`Client`. The proofs followed, of `KeepAliveConn`, `IconFiles` and `Client` first, then of
the others, and of `ChannelTree` and `DmList` last. Every safety property is proved;
what is left are proofs of liveness, should a prover for it be at hand.
