# A verification of Universal Messenger Gateway

This directory holds TLA+ models of the gateway, TLC configurations that check
them on small instances, and proofs that TLAPS checks for every instance. Paths
are those of the repository. `map` in PROJECT.json names the lines each
definition models.

## 1. Inventory

A *consumer* (a program that uses the SDK, `umg chat`, or whoever writes JSON
lines to `umg gateway`) talks to a *ManagerGatewayClient*. That calls a
*TransportManager*, which holds one *provider* per enabled transport. The Matrix
provider runs a Python *sidecar* and exchanges JSON lines with it. The sidecar is
a Matrix client: it sends requests to a homeserver and handles the events of its
sync stream. Configuration and secrets live in a state directory.

| Component | State | Operations | Interacts by |
|---|---|---|---|
| Mautrix provider (`src/transports/matrix-mautrix.ts`, `src/io/json-lines.ts`) | `#process`, `#isConnected`, `#nextId`, `#pending`, `#readerDone` | connect, disconnect, shutdownForProcessExit, every command as one `request()` | pipes, timers, process events |
| Sidecar: process loop (`src/transports/matrix-mautrix-sidecar.py` 1405-1458) | a task for each command | read a line, run its handler, answer; stop at end of input | stdin and stdout |
| Sidecar: rooms, invites, chat types | `joined_rooms`, `pending_invites`, `pending_direct_invites`, `direct_room_ids`, `room_member_count`, `room_chat_type` | `handle_member`, `handle_direct`, `handle_room_metadata`, `handle_message`; list_chats, get_chat, accept_invite, reject_invite, leave_chat | sync events, homeserver requests |
| Sidecar: history search | none between calls: the cursor carries it | search_history | paged requests, a deadline |
| Sidecar: thread context, members, pins, relations | none | single reads; a walk with a deadline | homeserver requests |
| Sidecar: encryption, media | mautrix's stores | decryption, downloads | homeserver requests |
| TransportManager (`src/transports/manager.ts`) | the map of transports, handlers | add, connectAll, disconnectAll, replaceTransports, dispatch | provider calls and callbacks |
| ManagerGatewayClient (`src/gateway-client.ts`) | the event handlers | send of every command; reload after an admin command | manager, admin, registry |
| Administration, setup, configuration (`src/admin.ts`, `src/config.ts`, `src/setup.ts`, `src/state.ts`) | `config.json`, the access token, the recovery key | configure, connect, disconnect, status; setup | files |
| SDK, runtime, registry (`src/sdk.ts`, `src/runtime.ts`, `src/transports/registry.ts`, `src/transports/matrix.ts`) | none | create providers from a configuration | files, constructors |
| Stdio gateway (`src/gateway.ts`, `src/cli.ts`) | none | a command at a time; events out | stdin and stdout |
| Chat CLI (`src/chat.ts`) | target, known chats and invites; input line, cursor, suggestions | lines, slash commands, editing keys, completion | client calls, events, keys |
| Agent operations (`src/agent-operations.ts`) | none | validate, call, page | client calls |
| Protocol validation, Matrix formatting (`src/protocol.ts`, `src/transports/matrix-utils.ts`) | none | pure functions | |

What is hard, and what makes each part correct:

- **The bridge.** A request is settled by five parties (the reader, its timer,
  the child's exit, an error of stdin, a reset), and children outlive the
  provider's interest in them. A call must get its own answer or an error, none
  may be forgotten, `#isConnected` must not outlive the process, no child may be
  orphaned, every call must end.
- **Rooms and invites.** The same change reaches the sidecar twice: as the
  answer to a command and as a sync event, in either order, while other devices
  act, and a sidecar that starts knows nothing but the joined rooms and the token
  its sync goes on from. Once all is handled the sidecar's picture must be the
  homeserver's, and no message of a joined room may be dropped on the way.
- **Chat types.** The decision is cached, and taken from data read at different
  times around awaits. It must follow `m.direct`, title and member count, and
  `accept_invite`, which puts the whole of `m.direct` back, must keep the others.
- **History search.** A call may stop at any event and its answer may be lost,
  and timelines grow. Following the cursor must miss nothing that was there at
  the start, repeat nothing, and reach the end.
- **Reload.** `send()` of an admin command awaits files and providers, nothing
  makes a second one wait, the process can die anywhere and a sidecar can exit by
  itself. The manager must
  run what is saved, leave no sidecar behind, and not disturb running transports
  when a reload is refused.
- **State files.** Commands change up to three files in steps, and secrets are
  made private after they are written. A key that is moved must never be in
  neither place, and setup must repair what an interruption left.
- **The chat session.** On a terminal every key is a callback, so lines overlap
  at every await, and events change the target, the chats and the invites
  meanwhile. Text must go where the prompt says, the pending invites must
  be on offer and answered ones not, and Enter must do what the screen shows.
- **Paging.** Nothing is kept between two pages of a list that is read anew for
  each. What stayed must be returned, what did not move must not be repeated.

Every hazard of this code that is known to us is in PROJECT.json with the
properties that watch it, or the reason why none does.

## 2. Modules

| Module | Models | Extends or instantiates |
|---|---|---|
| `RequestPort` | what `request()` promises, without processes, ids or timers | |
| `SidecarBridge` | the provider and its children | instantiates `RequestPort` |
| `HistorySearch` | search_history and the client that follows its cursor | |
| `SidecarMembership` | joined rooms and invites | |
| `SidecarChatType` | `m.direct`, member counts, chat types | |
| `TransportReload` | admin commands, reload, crashes; providers as the manager sees them | |
| `StateFiles` | config.json and both secrets; setup and a session's commands | |
| `ChatSession` | `umg chat`: target, chats, invites, lines in progress, events | |
| `ChatPrompt` | `umg chat`: the input line, suggestions, Enter | |
| `AgentPaging` | an agent that reads the paged operations to their end | |
| `*_proofs` | theorems about `SidecarBridge`, `HistorySearch`, `SidecarMembership`, `SidecarChatType`, `TransportReload`, `StateFiles`, `AgentPaging` | the module in the name |
| `Chat_proofs` | theorems about `ChatSession` and `ChatPrompt` | extends both |
| `MC*` | constants and symmetry for TLC | the module in the name |

**SidecarBridge.** `process`, `isConnected`, `nextId`, `pending` are the private
fields; `readerDone` is the child whose reader `#readerDone` is the promise of.
Each call has a `state` (where its `async` function stands), the id and the child
of its request, and what settled it. Each child has its two pipes, its asyncio
tasks and its reader loop. One step is one turn of Node's event loop. `Quiet`
keeps I/O, timers and process events out while a settled request has not resumed,
because continuations run as microtasks; consumer code may still run there. A
child's exit is two steps, because between rejecting what is pending and dropping
the process its handler calls the consumer's error handler, which may call in:
`ExitEvent` rejects, `exitSeen` is then "handling" and only the consumer's calls
run, and `ExitHandled` drops the process. A sidecar answers its tasks in any
order, may write events and lines that are not JSON, and may exit at any time. A
handler that throws and a line that is not JSON end the reader (`ReaderFail`). A
line written while stdin is at its high-water mark blocks its writer until
"drain"; this may happen to a command, and to a disconnect whose line is queued
behind one.
What `connect` checks before it spawns, the content of commands and
`shutdownForProcessExit`'s handling of exit codes are left out.

**HistorySearch.** A timeline is a sequence of booleans, whether an event matches
the query and the dates (`matches` and the date filter are one bit). A pagination
token is the number of events before it. `st` is the decoded cursor the sidecar
works on, `cursor` the one the client holds. `CutOff` is the deadline or a failed
request at any await, `Lost` the provider's timeout or a sidecar that exits.
`FromTheEnd` is enabled without regard to the anchor because its lookup may fail.
A homeserver that purges events is left out. `CursorLength` computes the length
of the encoded cursor for rooms of a public homeserver.

**SidecarMembership.** `membership` and `sync` are the homeserver's truth and the
events it has sent and no handler has taken; handlers take them in order. `Init`
is a sidecar that has just started, for the first time or again:
`pending_invites` is in memory only and begins empty, while the sync goes on from
the stored token, so that `sync` holds only what came since (`Told`, at most
`MaxTold` events). `older` is a history variable: the rooms whose pending invite
that token is past. A command is three steps, request sent, request served,
answer handled, and any request may fail with or without effect; leaving a room
that was left already succeeds. `missed` is a history variable: rooms of which a
message was dropped while the account was in them. The end of `accept_invite`,
which marks the room direct, is in `SidecarChatType`. Encrypted messages reach
`handle_message` later than their place in the stream, and search_history
overwrites `joined_rooms` as list_chats does; both are left out.

**SidecarChatType.** A task is a handler or a command. It runs from await to
await; `at` says what it awaits. A name, alias and topic are one `title` that is
read at once, and the rooms of `m.direct` are not told apart by user. The content
of `m.direct` is replaced whole: by a client, which adds or removes a room, and by
the put of `accept_invite`, which is what its read answered and the room, or the
room alone when the read failed. `wanted` is what the account's clients made of
it and nobody unmade, `stale` that a put was made from what it was not. Rooms
outside `Active` are only in that content. Rooms stay joined, so the clearing of
the caches when a room is left is not modelled, but one room may just have been
joined and not be counted yet.

**TransportReload.** `step` is where `send()` stands, in the order of the source:
load, save (open with truncation, then write), write the token, then reload: load
again, create, disconnect all, replace, connect all. A provider's `connect` is
reduced to lookup, spawn and handshake, its `disconnect` to ending the child that
is `#process`. A child may exit by itself at any moment (`ChildExits`), also while
a connect waits for its handshake or a disconnect for its end; its provider stays
in the map without a process, and `exited` remembers that. A start of the gateway
does what a reload does. A command that the admin operation refuses saves
nothing and is not followed by a reload (`Refused`). `settings` stands
for a `configure` that sets the homeserver. Errors of writing files and the
recovery key are in `StateFiles`.

**StateFiles.** A command is the list `todo` of its file steps: a file is opened
(truncated), written, and a secret made private by chmod; the order is that of
the source (`Order`, `Save`). `WriteFails` and `Crash` cut it off before any
step. A configuration keeps of the matrix settings whether the homeserver is a
string, whether the implementation (or adapter) is one there is not, and which
secrets are in it, as older versions put them there. A token and a key file may be
there from the start, readable by others or not. Setup is its own process: its
questions read `config` first and write it last, with a session's commands in
between, and an answer may be blank or the input may end; whether there is a
token to keep is seen when the question is put. `secrets` is a history variable:
those the last command had to write. The account password is a setting that the
code leaves among the settings, and nothing is stated of it.
Two commands' writes do not mix here; `TransportReload` has that.

**ChatSession.** A line in progress is a task and `todo[k]` the stages it has
before it (`/status` is the command, the invites, the health checks). Piped input
handles a line after the other; on a terminal another may begin at any await.
`shown` is the target the prompt on the screen names. When piped input ends,
readline closes and the prompt is not drawn any more (`Draws`), though the line in
progress and the lines that are buffered are still handled (`input`). `joined` are
the chats the account is in, at the homeserver; `pending` are the invites that
the transports hold in memory, which is what list_invites answers: another process
of a transport begins without any, so that a reload empties it (`Applies`), and an
invite can go without the session being told (`Withdrawn`). History variables:
`answered`, the invites whose answer by the session came back, and `crossed`,
those announced before the handling of an answer that was computed earlier.
Of the slash commands, those that only write to the screen are `OtherLine`.

**ChatPrompt.** Text is a sequence of units: a command's name is one letter and a
transport's another, since only prefixes and the places of blanks matter to
`suggestionsFor`. Every editing key, a pasted chunk, the arrows, Escape and Enter
are actions; what the session knows changes by any event (`Event` redraws) and by
any list a line waited for (`ListReturns` does not). What is offered is computed
from the text, the chats and the invites (`SuggestionsFor`). `/accept` and
`/reject` complete alike and are one command; `/status` and the other commands
without arguments behave as `/quit` up to Enter. Its names differ from
`ChatSession`'s because `Chat_proofs` extends both.

**AgentPaging.** Items are numbers in the order of their list; `limit` is chosen
once and `cursor` is passed on. `Page` and `CollectedPage` are the two ways the
operations cut a page; get_relations passes the homeserver's token on. `odd` are
the entries the sidecar leaves out of an answer. `movedUp` and `movedDown` are
history: what shifts an offset.

## 3. Runs

Each `.cfg` is a run of PROJECT.json. All complete; none is a simulation.

| Run | Instance | Shows |
|---|---|---|
| BridgeSerial | 2 connects, 1 command, 1 disconnect, 2 children, lifecycle calls awaited, blocked writes, handlers that throw | types; no orphan; connected means handshaken and being read; a result is one's own; nobody forgotten; a lost process leaves pending only what its exit's handler requested; `RequestPort` is implemented |
| BridgeLive | connect, command, disconnect, one child; no write blocks | every call ends |
| BridgeBlockedWrite | connect, 2 commands, blocked writes, fair | **violation**: a command hangs (finding 1) |
| History | rooms of up to 3 events and 1 event, pages of 2, room and scan limit 2, limit 1, 1 fault, four kinds of search | nothing missed, nothing twice, in order; the search ends |
| Members | 1 room, 2 commands of every kind, 4 changes and 2 messages at any time, after any restart with at most 1 event since the stored token | types; no ghost invites; marks belong to the pending invite; invites since the token and joined rooms agree with the homeserver; no message dropped |
| ChatType | 2 rooms, one of them large and named, 2 tasks interleaved, 2 changes, 2 messages or commands, 1 failure | `direct_room_ids` and counts agree in the end; a put of m.direct from a good read keeps the other room; types decided in turn follow |
| Reload | 3 sends of 7 commands, 1 crash, any sidecar exiting, from a set-up and from an empty state directory | saved is applied; no stray sidecar; refusals disturb nothing; no setting is lost |
| ReloadOverlap | 2 configure commands interleaved, sidecars of the first provider and of one send exiting, fair | both end |
| StateFiles | a new, a set-up and a legacy configuration, token and key files of either mode or none, 2 keys, 10 requests, any number of interruptions | secrets end private and out of the settings; setup repairs; a migrated key is never lost |
| Chat | 1 transport, 2 chats, 2 lines in progress, piped and terminal, input that ends | a pending invite is offered and an answered one is not; the prompt does not lie; the target is configured; an echo names its chat |
| ChatPrompt | 3 keys, 1 pasted chunk, text of up to 3 typed units, 2 chats and an invite, 2 lines in flight | Enter takes what is shown; repeated Enter submits; what is completed is submitted |
| AgentPaging | 5 items in 2 transports, limits 1 to 3, bound 3, 2 changes, 1 failure, five operations | nothing skipped, nothing repeated, reading ends |

**Why the bounds are enough.** The hazards are races of two actors over one piece
of state: two lifecycle calls with a third that interferes, an old and a new
child, an answer and an event, two sends, two lines. Two of each kind, with one
more where a third acts, contain these races. In the history run every budget
(page, room, scan, limit) is smaller than the longer timeline and so bites at
each place, and the shorter room shows the passage from room to room. Four
changes of a room allow removal, a second invite and an action upon it around a
command. A room's state does not depend on another's except that list_chats and
m.direct replace all at once. What an older list does to a room it does to each by
itself, so one room shows it; what a put of m.direct does to the *other* rooms
takes a second one, which ChatType has, with nothing else going on in it. In the
paging run the
largest limit is the sidecar's bound, and five items make three pages of two, so
that an item can move across a page's edge in both directions. In the prompt, the
name of one chat is the id of the other, which makes a completion ambiguous, and
completed text may be longer than what may be typed. A second
fault in one search and a second transport of a chat session are not explored by
runs; the theorems of section 4 have any number of both.

**Restrictions that are needed.** Some properties hold only when calls do not
overlap, and the constants and properties say so:

- `OneFactory` in the reload: `connectAll` fails with the first provider that
  does, and does not wait for the others. With two transports that have a factory
  the next reload would find one that is still looking for its path, disconnect
  nothing and drop it, and its sidecar would then start as a stray. registry.ts
  has one factory; the run has it too.
- `SerialLifecycle` in the bridge: with overlapping connects a child may be
  orphaned (the second `connect` overwrites `#process`), and a disconnect may
  await the wrong reader. The gateway awaits lifecycle calls one at a time; a
  consumer of the SDK need not. The runs assume it; of the theorems, `NobodyOrphaned`
  and `ConnectedIsReady`.
- `SerialSends` in the reload: without it a setting may be lost and an older
  configuration may win (section 5).
- `crossed` in the rooms and the chat types is a history variable: what changed
  between the homeserver's answer and its handling. There `joined_rooms` can be
  overwritten by an older list, and an invite be dropped for an older one. The
  properties that need it say so; nothing is kept from happening.
- `older` in the rooms: a pending invite that the process before had seen. The
  sidecar does not list it until the homeserver sends it again (section 5).
- `mixed` in the chat types: something was handled while a task was under way;
  `stale`: a put of m.direct was made from a failed or outdated read. Such a put
  takes other rooms out of m.direct (section 5).
- `exited` in the reload: the sidecar of a connected transport ended by itself.
  Nothing starts it again before the next reload.
- `overlapped` in the chat session: two lines were in progress together;
  `crossed`: an invite was announced between an answer and its handling.
- `Draws` in the chat session: nothing is drawn after the end of piped input.
- `Ambiguous` in the prompt: the id that was completed begins another chat's, or
  its name.
- `Pageable` in the paging: limit 100, at which members and pins have no further
  page, and entries that are left out.

**Fairness.** BridgeLive: timers fire, a child that was killed or whose input
ended exits, its exit and stream events are delivered, the reader reads what is
there, the consumer's error handler returns, settled calls resume. Nothing makes
the sidecar answer or exit by itself, nor a consumer call. The run has no write
that blocks (`WritesMayBlock`): BridgeBlockedWrite shows what comes of one. History: the client repeats the call while there is more
(the operation's documented use), and a call that is under way goes on; faults
are bounded, so the client is not cut off for ever. ReloadOverlap: file operations
and provider calls complete, as BridgeLive shows for the latter where lifecycle
calls do not overlap. In the reload two sends do call one provider at once, but
it takes three for a disconnect to meet two connects of one provider.
AgentPaging: the agent goes on while `hasMore`, and every call is answered or
fails; failures and changes are bounded.

## 4. Proofs

`SidecarBridge_proofs`, for any numbers of calls and children, with overlapping
lifecycle calls, handlers that throw and writes that block:

- `TypeCorrect`: types are kept.
- `Inductive`: `IInv` is an invariant. The properties are not inductive alone: a
  result is one's own only because ids are unique (`IdInv`), every line, task and
  map entry carries the id of its call (`LineInv`, `PendingInv`), and an answer in
  a pipe was given by a sidecar. That connected implies a process needs to know
  that while a connect's answer waits to be resumed nothing was rejected in the
  same turn (`ConnectInv`), and for it that a connect's own line never blocks
  (`BlockedInv`). While an exit event calls the consumer its child is still
  `#process`, and what became pending since was written to it (`HandlingInv`).
- `ResultsAreOwn`, `RequestsStaySettleable`, `ConnectedImpliesProcess`: the runs'
  properties, from `IInv`.
- `LosingProcessRejects`: without a process nothing is pending but what was
  requested from inside the error handler that an exit event called. Such a
  request is written to a destroyed stdin and waits for its timer.
- `BridgeImplementsPort`: the bridge implements `RequestPort` under the mapping
  `portStatus`. Each step opens, serves or closes one request, or is invisible.

And where each connect and disconnect is awaited before the next:

- `NobodyOrphaned`: a `connect` overwrites `#process`, so what it replaces must be
  on its way out. That holds because a lifecycle call that is under way finds or
  makes the provider offline (`OfflineInv`), and an offline process that runs and
  was not signalled is the target of the one request under way
  (`OfflineProcessInv`); `AloneInv` says there is one.
- `ConnectedIsReady`: the process is the child that the connect under way asked
  (`TargetInv`), so its answer is that child's, and stays so while `#isConnected`
  (`HandshakeInv`). `ReaderInv` says that the reader of `#process` never ends
  before the child does, unless a handler's exception or a line that is not JSON
  ended it.

`HistorySearch_proofs`, for any rooms, timelines, page sizes, budgets and kinds of
search, and any number of faults:

- `Inductive`: `IInv` is an invariant. What the client has passed it was given
  (`NothingMissed`) because a running call keeps the same of its own state and its
  matches (`Covered`), which become the client's when it responds and vanish
  together when it is lost. That a step passes only what it collects needs the
  token and offset to be a place in the timeline (`StateInv`), the page to be
  what follows that token, and its end to be told rightly (`PageInv`), although
  the timeline may have grown since it was read.
- `NothingIsMissed`, `InOrder`: the run's properties. Order follows from
  `OrderInv`: everything given was passed, and what is found lies beyond all that
  was passed.
- `CursorDecodes`: what a client holds always passes the sidecar's validation.
- `SearchGoesOn`: a cursor never goes back, and one that was handed out because the
  limit or a budget was reached is further on (`CursorGoesOn`). `Further` orders
  cursors by room, then by how far into the room they are; a call's own state is
  as far as the client's cursor, and further once it has scanned (`GainInv`). This
  is the part of `SearchEnds` that needs no fairness.
- `TypeCorrect`.

`SidecarMembership_proofs`, for any rooms, any number of commands, failures at any
request and changes at any moment:

- `TypeCorrect`: types are kept, because a command that is under way names a room
  unless it is list_chats (`RoomInv`).
- `Inductive`: `IInv` is an invariant. What the sidecar lists can be behind the
  homeserver, so the properties, which speak of a stream that is handled, are not
  inductive. `LastInv` says that a room's last unhandled member event tells the
  homeserver's membership and mark; `HandledInv` that a room without such an event
  is listed only if it is an invite, with its own mark. Commands keep it because
  they only take invites out of the list, and a mark only with its invite.
- `NoGhostInvites`, `MarksAreOfInvites`: the run's properties, from `IInv`.
- `PictureHolds`: `PictureInv` is an invariant. It relates an answer under way and
  the events that wait to the homeserver. An answer that was served tells the
  membership that still is, or the room is `crossed` (`AnswerInv`). The waiting
  events of a room are in an order a homeserver can send: a message only after its
  join, and the last join, leave or invite as the membership is (`OrderAt`). With
  both, the sidecar's lists are right for a room that is not crossed (but for an
  older invite) or an event that will correct them waits, and so before each
  message that waits (`PictureAt`). It holds of a sidecar that has just started,
  whatever its stored token is past, and not only of one that has seen everything.
- `InvitesAreVisible`, `JoinedRoomsAgree`, `NoMessageDropped`: what `PictureInv`
  says when no event waits and no command is under way.

`SidecarChatType_proofs`, for any rooms, any number of handlers and commands
interleaved at their awaits, and failures of any request:

- `Inductive`: `IInv` is an invariant. A cache may be behind, so for each the
  invariant says who will bring it up: `direct_room_ids` is what `m.direct` lists
  or an event of it waits (`DirectInv`), the last of them with its present content
  (`LastInv`); a member count is right, or a member event waits or a task counts
  (`CountInv`). That a task stores what is true needs that an answer which waits to
  be handled says what still is, unless a change crossed it (`AnswerInv`), and
  which answers a task may wait for (`TaskInv`). For a stored type it needs also
  that one task is under way (`TurnInv`) and that its count is still right or the
  event that resets the type waits (`TypeInv`).
- `DirectIsKept`: from `WantedInv`, that `m.direct` is what the clients made of it
  as long as each put had read it as it was, and `DirectInv`.
- `CachesEndRight`, `TypesEndRight`: the run's other properties.
- `TypeCorrect`.

`TransportReload_proofs`, for any transports and numbers of sends and crashes:

- `SettingsAreKept`: with `SerialSends` no accepted setting is lost. It needs that
  at most one send is under way (`AloneInv`), and that what it loaded and will
  write contains every setting saved before (`WriterInv`).
- `TypeCorrect`.

And where each send is awaited before the next:

- `SavedIsApplied`: `AppliedInv` extends the property to all steps but those
  between a save and the replacement of the providers, and `ReloadedInv` carries
  it over these: what was reloaded is what the disk still holds. A reload that is
  refused is refused for a file from which no gateway could start.
- `NoneAstray`, `TransportsStay`, with one transport that has a factory: only the
  send that disconnects or connects calls providers, those in the map, each in the
  state its call says (`CallInv`), and outside the map no provider has a child
  (`ProcessInv`). A child that exits by itself takes its provider's process and,
  as far as it was connected, makes it one of `exited`.

`StateFiles_proofs`, for any keys, configurations and requests, and interruptions
anywhere:

- `SecretsAreStored`, `SetupDoesRepair`, `MigrationIsSafe`: the run's properties.
  They speak of a command that ended, so `IInv` says what holds on the way: which
  steps it may have before it, given the secrets it had to write (`PlanInv`), what
  the steps before those have left in the files (`WrittenInv`), and that a key
  which is migrated is in the settings until it is whole in its file (`KeyInv`).
- `TypeCorrect`.

`AgentPaging_proofs`, for any finite list, any transports that cover it, any limit
up to any bound, and any number of changes and failures:

- Lemmas on positions: `Place` counts the items up to one, so that items have
  different positions in their order, no position up to the size is free, and a
  page (`Slice`) has as many items as positions that exist. They rest on the
  library's facts about subsets and injections, not on induction.
- `Inductive`: `IInv` is an invariant. An offset has the returned items before it
  and the others after it, as far as they did not move (`OffsetInv`); a token has
  that wherever they moved (`TokenInv`). Transports answer one after another while
  the list changes, so what a call under way shows is related to the list, item by
  item (`SeenInv`), and the positions are those in the merged answers.
- `EndHasAll`, `ReadOnce`: the run's properties.
- `ReadsExactly`: when nothing joins or leaves, what was read at the end is the
  list without the entries left out, each once, whatever calls were made again.
- `CursorAdvances`: an answer with a next cursor has moved the cursor on, and not
  past the items there are (`PageAdvances`), because a page that starts within a
  list is not empty and ends within it (`SliceMoves`). This is the part of
  `ReadingEnds` that needs no fairness.
- `TypeCorrect`.

`Chat_proofs`, for any transports, chats and numbers of lines:

- `InvitesAreTrue`: the first half also where lines overlap; for the second, no
  answer that waits holds what the session answered (`AnswerInv`), as lines in
  turn have one call under way.
- `PromptIsTrue`: also where lines overlap. The prompt is behind only while a
  command that dropped the target goes on (`BehindInv`).
- `TargetIsConfigured`, `EchoIsRight`: where lines are entered in turn. Then one
  line is in progress (`TurnInv`), so only an admin command takes transports away,
  and a text's target is the current one until it is sent (`ReachInv`).
- `TypeCorrect`.
- `EnterIsOfScreen`: whatever is drawn is what the variables say (`ScreenInv`); the
  step that changes them without drawing clears the screen.
- `PromptInductive`: `PromptInv` is an invariant, for any text, names, chats and
  invites. Whatever is typed, what is offered is a command, a command and a
  transport, or these and a chat or an invite (`OfferedInv`). After a completion
  the buffer is such a text and what is offered was computed for it (`FreshInv`).
  A row of completions visits texts in an order: a command, a transport, then
  chats, each at an earlier place in its list than the one before (`StreakInv`).
- `EnterComesToAnEnd`: so a row has at most two completions more than there can be
  chats and invites. From a chat Enter goes to the first one that the id or the
  name fits, which is the chat itself or an earlier one.
- `CompletedGoesOut`: a second completion after a chat needs another one that its
  id begins, or whose name it begins.
- Lemmas on sequences: `Rank` counts the places up to one that hold what a
  selection keeps, which says at which place an item of `Keep` or of a split text
  is without induction; then the words of a suggestion (`WordIs`, `ArgumentWords`)
  and the lists that are offered for each kind of text (`CommandOffers`,
  `ChatOffers`).

Assumptions are those named in the modules: kinds of calls are disjoint,
`NoChild` is no child, `NoRoom` is no room, switches are booleans, bounds are
natural numbers, the items of a list are finitely many positive numbers and the
transports cover them. Of the input line: texts are of the units there are, the
transports' names, chats and invites are finitely many, a chat's id is not empty
and has no blank, slash or line break in it, and a transport's name is no blank.
The keys that a file may hold at first are keys, and the rooms where something
happens, the transports with a factory and the children that may exit are among
all there are. TLC evaluates them on each run.

Model-checked only: liveness (`EveryCallReturns`, `SearchEnds`, `EverySendEnds`,
`ReadingEnds`), which needs fairness and ENABLED and is beyond this prover. Every
invariant and every action property of a run that passes is a theorem, and so is
the refinement of `RequestPort`.

## 5. Findings

1. **A command can hang** (run BridgeBlockedWrite). Its answer is read while its
   own write is blocked, which takes its entry out of `#pending`. When the child
   then exits, no one finds the entry, and the write's promise never settles.

Visible in the models, where a definition that is marked false of this code or a
guard of a property states it, and not a run of its own:

- *Bridge.* An SDK consumer that overlaps connects can orphan a sidecar.
- *Rooms.* A pending invite stays unlisted when `accept_invite` or
  `reject_invite` pops it after their await although it is a newer one
  (`InvitesVisible`). An invite that was pending when the sidecar last ran is not
  listed after a restart or a reload, since the sync goes on after it and
  `pending_invites` is not stored (`older`, sidecar 166 and 298). When the read of
  `m.direct` in `mark_room_direct` fails, the put takes every other room out of it
  (`stale`, sidecar 1347). A stale chat type stays when `handle_message` stores a
  decision from a count that was replaced meanwhile (`TypeFollows`).
- *History.* From about eight rooms on the cursor is longer than the 512
  characters the agent operation accepts (`AgentCanFollow`).
- *Reload.* A transport whose sidecar exits stays in the map unconnected until the
  next reload (`exited`). Of two overlapping admin commands that both answer ok, the older
  configuration may end up running (`AppliedAfterSuccess`). `/connect slack` is
  saved before it fails to create, and no later session can start (`CanStart`).
- *Files.* Setup drops a recovery key that an older version left in the settings,
  which configure would move to its file (`SetupKeepsKey`, setup.ts:88). It keeps an implementation there is not, which
  configure accepts, and ends by saying that a chat can be started
  (`SetupRepairs` excepts it, setup.ts:94). At the
  end of its input it asks a required question for ever (`SetupEnds`,
  setup.ts:120). It takes any token file, even an empty one or one that others
  can read, for a configured token (`KeptTokenUsable`, setup.ts:169).
- *Chat session.* When a text's target was left before its call came back, the
  error's handler throws itself and the session ends (`SessionSurvives`,
  chat.ts:686 and 692). `/status` with an unreadable configuration ends it too
  (chat.ts:1335).
  An invite announced while an older list is on its way is dropped (chat.ts:543).
  After the end of piped input the prompt is not drawn, and a buffered text goes to
  a target no prompt named (chat.ts:196).
- *Prompt.* A second Enter while a line is under way sends it again (chat.ts:332),
  and text that is typed while a line is under way is wiped when it ends.
  Where a chat's id begins another's, Enter cannot submit it without Escape.
- *Paging.* With limit 100 members and pins have no next page, since the sidecar
  bounds the item more that was asked for. Pins it leaves out end or misalign the
  pages, and an error of get_relations looks like the last page.

## 6. Not modelled, and the plan

- **Thread context** (`resolve_thread_context`): its deadline, limits and the
  statuses of each context. It keeps nothing between calls, so its hazard is one
  walk cut off at any await. It is next: `ThreadContext`, in the way of
  `HistorySearch`.
- **Encryption and media**: decryption, key requests and stores are mautrix's, a
  download is I/O. In what order messages with media are emitted is not modelled.
- **Stdio gateway**: its loop is the serial case of `TransportReload`; what
  happens when its stdout is blocked is not modelled, nor is the fan-out of events
  to several handlers.
- **Argument validation, the protocol's parsing and Matrix formatting**: pure
  functions of strings and JSON, without order or state; unit tests reach them.
- **Logging and the wording of output**: no property is about them.

Then: an abstract provider lifecycle that both `SidecarBridge` and the providers
of `TransportReload` implement.
