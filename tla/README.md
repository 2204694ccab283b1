# TLA+ models of Pandamux

Pandamux runs coding agents (Claude Code, Codex, ACP speakers and others) behind one
server. A *thread* is a conversation with one agent; a client sends it *turns*, the
server writes what the agent does into a SQLite store and broadcasts it. This directory
holds TLA+ models of the parts of that server, and of its clients, whose behaviour depends
on the order in which things happen, the TLC instances that check them and the proofs about them.

Paths below are relative to `src/crates/`; `tm` is `pandamux-server/src/thread_manager.rs`,
`store` is `pandamux-server/src/store/mod.rs` and `bridge` is
`pandamux-desktop/src/server_bridge.rs`.

## 1. Inventory of the system

| Part | State it keeps | Operations | What is hard about it |
|---|---|---|---|
| **ThreadManager** (`tm`) | `active_sessions` (one entry per thread: session and event receiver), a broadcast channel of 512 envelopes | `create_thread`, `send_turn` and the task it spawns, `respond_approval`, `interrupt_turn`, `resume_thread`, checkpoints, git | every RPC runs in its connection's task; a row is read, awaited upon and written; one receiver is handed to and fro; three writers number events; errors of the task are dropped |
| **Store** (`store`, `store/migrations.rs`) | rows of threads, turns, events (`UNIQUE(thread_id, seq)`), resume tokens, attachments, settings | one SQL statement or two per call, under one mutex | nothing is held between two calls; reconciliation after a crash is two statements |
| **Provider sessions** (`pandamux-providers`) | a child process, a channel of its events (capacity 128), a resume token | `start_session`, `send_turn`, `respond_approval`, `interrupt`, `resume_token` | the process may die, be slow, or report a completion nobody asked for |
| **Provider drivers** | Antigravity's limiter and its managed installation, files on disk | `start_session`, `probe`, `list_models`, `install_managed_bundle` | parallel starts and installations; the limiter's guard lives only while a session starts; health that changes while it is looked at |
| **Server process** (`main.rs`, `server.rs`, `runtime.rs`) | runtime file, listener | connection loop, shutdown, restart | exit waits for nothing |
| **RPC router** (`router.rs`) | remote terminals, settings, notifications | one handler per method; forwarding to environments | read-modify-write without a lock |
| **Environment router** | transports by environment, relay tasks | register, forward, relay | relays are never cancelled and end when they lag |
| **Attachments** (`attachment.rs`) | uploads in flight, files | `import_path`, `put_chunk` | chunks repeated or out of order, the size cap, a save that fails |
| **Checkpoints** (`checkpoint.rs`) | git refs per thread, turn and phase | create, diff, prune, rollback | random ref names, a rollback during a turn |
| **Terminals** (`terminal.rs`, `pandamux-term`) | sessions by id, a ring buffer with offsets, a drain thread | open, attach, input, resize, close | replaced ids, output that arrives after the last drain |
| **Client** (`pandamux-client`) | projections of threads and runs, a token queue | apply an event, load, smooth | envelopes repeated, missed, or also part of the load |
| **SSH remotes** (`pandamux-remote`) | a pool of connections with a slot per host | acquire, bootstrap, tunnel, sync | two levels of locks, recursion over proxy jumps |
| **Git, worktree, fs services** | the files, index, branches and refs of a repository | status, commit, push, bundles | each git command is a step of its own beside agents and users |
| **Settings** (`router.rs`, `settings_view.rs`) | one row; the desktop's draft | get, set, import of ssh hosts, load, edit, save | read-modify-write by several connections, a draft saved whole |
| **Diffs** (`diff_view.rs`, `ast_diff.rs`) | none | parse, draw, summarise | lines known by how they begin, numbers counted on the way |
| **Core** (`pandamux-core`) | notification store, project registry, settings | data types and pure functions | bounds and merges |
| **Desktop server bridge** (`bridge`) | a channel of 128 commands, the table of pending requests, the next id, the connection | `send_request`, the worker's reconnect loop, drop | ids over reconnections, requests whose connection is lost, a worker that writes without reading, a drop that joins it |
| **Desktop window** (`app_view.rs`, `timeline.rs`, `composer.rs` and the panels) | the thread selected, panels, scroll position, draft, picker, toasts | clicks, answers of calls, events | answers and events that come after another selection |
| **CLI, MCP, Hark** | none | translate | none of their own |

How they interact: a connection's task calls the router, the router calls the
ThreadManager (or forwards to another environment), the ThreadManager calls the store and
the session of the thread. The streaming task shares with the calls the store, the
session's mutex and the place where the receiver is kept. Clients see only the replies,
the broadcast, and what a later `thread.events` reads back from the store.

What makes each part correct:

* ThreadManager: one turn at a time; each event stored once, in order, under its own turn;
  the receiver is never lost or shared; a settled thread is idle; after a restart nothing
  is active; a finished turn has its resume token.
* Store: the events of a thread are a log that grows at its end.
* Provider sessions: every line reaches the thread once and in order, instructions and ids
  reach the program once, the end of the program is noticed. Starts under way never
  exceed the limit and never run a program that is half installed.
* Attachments: a recorded upload is its chunks in order, within the cap, whatever the
  order of arrival.
* Terminals: a reader that follows the offsets sees every byte once or is told it missed
  some; drain threads end; what is found and marked on a screen is where it is drawn.
* Client: when a turn has settled, the view agrees with the server; all text and all
  sub-agents are shown; the transcript shows what can be acted upon.
* Hub: a thread or terminal that a client was told of is reached where it lives.
* SSH: one connection per host; no call waits for one that waits for it; what is installed
  is what was verified.
* Work tree: a roll-back restores the checkpoint's files, the git bar tells what a commit
  would do, commits reported as synced stay.
* Settings: no limit of 0, no repetitions of the program's own making, whatever writes cross.
* Desktop: panels come to show what was selected last; an attachment goes with one turn.
* Desktop server bridge: a request gets its own answer, or is known to be lost; dropping
  the handle returns.

## 2. Plan

The first part, the thread with all its writers and the desktop's bridge, is modelled and
proved about. The second models the components around them, each in a module of its own,
small enough that an instance of it explores every interleaving; they meet only at calls,
which the modules take as their inputs. The number of runs is small on purpose: components
that share no state share a run (section 4).

What is left, in the order in which it would add most:

1. Refinements: the events table as clients read it through the hub (`HubRouter` over
   `EventLog`), one shot of a terminal's ring under `Terminals`.
2. `ClientView` composed with `EventLog`: what a load and a relay show together. The
   broadcast reaches subscribers inside the server's process only (the router has no
   `system.subscribe`), so today no client does both.
3. More of the serial case of `ThreadLifecycle`: with which faults, and with which answers
   of a provider, turns still do not overlap (section 5.2).

## 3. Modules

| Module | What it is |
|---|---|
| `ThreadLifecycle` | the thread: calls, streaming tasks, provider, crash, restart, failing store calls |
| `EventLog` | what the events table promises its readers: a sequence that changes only by growing at its end |
| `ServerBridge` | the desktop's requests, the worker that carries them, the connection and the server's end of it |
| `ProviderSession` | one provider process: what is written to it, the parser of what it prints, the bounded channel |
| `ProviderStart` | starts of sessions in parallel, Antigravity's limiter, installations of its program |
| `ProviderHealth` | checks of the providers' programs and logins, and the reports shown |
| `RingBuffer`, `Terminals` | the retained output with its offsets; a terminal opened, written, drained, attached and closed |
| `TerminalScreen` | what is drawn, found and marked of a terminal's output |
| `AttachmentUpload` | one attachment in chunks from two senders |
| `ClientView` | the view folded from relayed events |
| `Timeline`, `Composer`, `DesktopApp` | the transcript, the draft, the window around them |
| `TokenQueue` | the smoothing of text over frames |
| `Diffs` | the two readers of a unified diff |
| `Settings` | the settings row and its writers |
| `Workspace` | a work tree under agents, commits, checkpoints and roll-backs |
| `WorktreeSync` | commits sent in bundles to a repository on another machine |
| `HubRouter` | calls forwarded to the node they are about |
| `SshRemote` | pooled connections and the bootstrap of a node |
| `MCThreadLifecycle`, `MCServerBridge`, `MCClients`, `MCProgress`, `MCParts` | instances for TLC |
| `MCDiffs`, `MCScreen` | the paths, lines, sizes and queries TLC tries in `Diffs` and `TerminalScreen` |
| `ThreadLifecycle_proofs` | theorems about the thread: types, receiver, events table; rows of turns |
| `Client_proofs` | theorems about `ServerBridge`, `ClientView`, `TokenQueue`, `Settings` |
| `Desktop_proofs` | theorems about `DesktopApp`, `Timeline`, `Composer` |
| `Providers_proofs` | theorems about `ProviderStart`, `ProviderSession` |
| `Services_proofs` | theorems about `WorktreeSync`, `HubRouter`, `Workspace`, `AttachmentUpload`, `ProviderHealth`, `SshRemote` |
| `Diffs_proofs` | theorems about `Diffs` |
| `Terminals_proofs` | theorems about `RingBuffer`, `Terminals`, `TerminalScreen` |
| `SequenceLemmas` | what several of these proofs need of numbers, recursive functions and sequences |

### 3.1 ThreadLifecycle and the code

**Processes.** Every RPC call is a process with a program counter `pc[p]`, one step per
store call or await of `send_turn` (`tm:189-784`), `respond_approval` (`tm:787-848`) or
`interrupt_turn` (`tm:851-883`). A `send_turn` call generates the turn it submits, so
calls and turns share names. `task[t]` is the program counter of the task that
`send_turn` spawned for turn `t` (`tm:421-778`). The provider's process, crash and restart
are actions of their own.

**State.**

| Variable | Code |
|---|---|
| `thread`, `turn[t]` | the status columns of the thread's row and of each turn's row (`"none"`: no row yet) |
| `log` | the rows of `events` for the thread; `Collides` is `UNIQUE(thread_id, seq)` |
| `token` | a row in `thread_resumes` |
| `sess` | the entry of `active_sessions`: none, a live process, a dead one (entries are never removed) |
| `rx` | the `Option` in `events_rx`: `"home"` while it is `Some`, else the task that took it |
| `lock` | the mutex of `active_sessions` while a session is being started |
| `inbox`, `asking`, `chan` | prompts the process has accepted, whether it waits for an approval, the channel of its events |
| `base[p]` | the seq `get_latest_seq` returned to the call |
| `snap[c]` | turns that `interrupt_turn` has listed and not yet saved |
| `seq[t]`, `copy[t]` | the task's local `stream_seq`; the turn's row as the task read it for the checkpoint |
| `outbox[p]`, `bcast` | an event appended and not yet broadcast; the last envelope sent |
| `server` | up, down, or between the two statements of the reconciliation |

Events carry, besides `seq` and `kind`, the turn they are recorded under (`turn`) and the
turn whose prompt made the provider emit them (`of`). The second is not in the code; it is
what `EventsBelongToTurn` is about.

**What is abstracted.**

* One thread. Threads share only the `active_sessions` mutex, which is modelled where it
  is held over an await (`SendLookup`, `SendStartSession`), and the broadcast channel.
* A read of a row directly followed by saving it back with a new status is one step: the
  status written does not depend on the one read. The other columns of a row are left out.
* Text, reasoning, tool calls, sub-agents, errors, rate limits and notices are one kind,
  `"text"`: their arms (`tm:430-524`, `562-593`, `708-771`) differ in the payload only.
* The event in hand stays at the head of `chan` until it is appended, so the channel has
  room for one event less while it is handled than in the code.
* The session's mutex is not modelled: delivering an answer or a prompt is one step. The
  deadlock it may cause with the mock provider and a full channel is listed as a hazard.
* Attachments that cannot be resolved refuse the call (`SendReadSeq` may end in
  `"rejected"`); the checkpoint before the turn changes nothing the model holds.
* Without `Echoes`, a provider reports one completion per prompt. With it, an answer or an
  interrupt that reaches an idle provider may leave a completion no turn is owed, which is
  what `MockProviderSession` does (`mock.rs:249-305`).
* A crash stands for the process being killed and for the `ctrl_c` handler, which exits
  without waiting (`main.rs:74-80`). SQLite loses no committed statement.
* A store call that fails writes nothing (`MaxFaults` bounds how many do). Where the code
  returns the error the call ends; where it drops it (`let _ =`) the writer goes on.

### 3.2 ServerBridge and the code

**Processes.** The user interface asks and drops the handle (`bridge:82-145`); the worker
is one task, and `worker` is where it is in its reconnect loop (`bridge:173-356`); the
server's end is the task of one connection (`pandamux-server/src/main.rs:163-173`).

| Variable | Code |
|---|---|
| `result[r]` | the `oneshot` of request `r`: not created, waiting, `"failed"` when its sender was dropped, else what it received |
| `cmds` | the command channel |
| `handle`, `signal` | the `ServerBridgeHandle` and whether it is being dropped; the message on the shutdown channel |
| `worker` | `"top"` of the loop, `"connect"`, `"hello"`, `"subscribe"`, `"select"`, `"write"` (in `write_all` of a command), `"backoff"` and `"pause"` (the timed selects), `"ended"` |
| `nextId`, `pending` | `next_request_id`, `pending_requests` (both live as long as the worker, not the connection) |
| `writing` | the command's line while `write_all` has not returned |
| `conn`, `up`, `down` | the connection and the lines in its two directions |
| `serving` | the line the server has read and not yet answered |

**What is abstracted.** A request's answer is the request it answers. Capacity of a pipe
is counted in lines where the system counts bytes: `ToServer` and `ToClient` lines stand
for as many as fill it (a long answer may fill it alone). `write_all` puts a line as a
whole. The server may go away at any step; what it has sent can then still be read.
Finding or starting the server and connecting is one step that succeeds or fails; the
shutdown is not looked at meanwhile, as in the code. A copy of the command sender
(`request_sender`) may be used after the handle is gone. Left out are `last_seen_seq`
(no envelope crosses a connection, see hazards) and the status reports, which go to an
unbounded channel and never wait.

### 3.3 Provider sessions: ProviderSession, ProviderStart, ProviderHealth

`ProviderSession` is one child process of any of the drivers (`codex.rs`, `claude.rs`,
`acp.rs`; `pvKind`), under `supervision.rs`. `pvSent` is what was written to its stdin
(prompts, answers, cancels, each with the id it took from `next_id` and whether the
instructions went with it), `pvPrinted` and `pvParsed` its stdout and how far the parser
task has come, `pvChan` the bounded channel, `pvGot` what the ThreadManager's task took.
The parser drops what its driver has no event for, ends at a line that is not UTF-8, at
the end of the stream or when the channel's receiver is gone; the child may block on a full
stderr, which nothing reads.

`ProviderStart` takes each `start_session` apart at the points where it touches something
shared: the limiter's counter (`psCount`, Antigravity only; its guard is dropped when
`start_session` returns, so that it counts starts under way and not the processes they leave
behind, which the run `active_limit` holds against its description), the files of the managed
releases (`psFiles`) and `active.json` (`psActive`) which `install_managed_bundle` writes
one after the other, the child's pipe. Every driver's launch (`LaunchOf`) is what it tells
its child and what becomes of the instructions.

`ProviderHealth` has the settings' instances, the machine (programs, logins, keys in the
environment), a check that probes one instance after the other while both change, and the
reports the page shows. Each report carries, in the model only, what it was made from: this
is how the property can speak of reports "of which nothing changed since".

### 3.4 Terminals: RingBuffer, Terminals, TerminalScreen

`RingBuffer` has operators, one per method of `TerminalRingBuffer`. `Terminals` is one
terminal id in `TerminalServerManager`. Each `open` starts a *generation*: child, pty,
reader thread, drain thread, ring; a second open under the same id takes the entry in the
map and leaves the old generation running. A byte is named by its generation and its place,
so that a view that mixes or repeats bytes is told apart from one that does not. `input`
holds the locks of the map and of the pty while it writes, and `close` waits for them. Some
bytes begin a character (`TermStarts`), which goes on up to the next that does. The server
decodes the bytes of each attach for themselves (`LossyUtf8`, `terminal.rs:203`): of a
character that an end of the answer cuts, what is left becomes a replacement character, and the view
joins the answers' texts. `tView.cuts` remembers where its answers ended; what is claimed is
that no byte is shown twice and that none is left out but those of a character cut there.

`TerminalScreen` is the view of one terminal. Characters have one or two columns; of
alacritty_terminal there is what the readers rely on (writing, wrapping, scrolling into the
history, a cell as spacer of a wide character). `VisibleCells`, `RegionText`,
`SerializeLines`, `LineHits` and `Drawn` are the methods of `grid.rs`, `search.rs` and the
batching of `terminal_view.rs`. A search takes a capital for its small letter unless told not
to (`Normalized`, `Alike`, `search.rs:56-62`), with one letter for all. The view keeps its
cursor by column and draws cells without the second columns of wide characters, so behind a wide
character the cursor is not drawn where it is; what is said of it holds where none stands before
it. What is said of hits and marks holds among wide characters too. Resizing already printed lines is left out: a size changes
only together with a fresh grid.

### 3.5 AttachmentUpload

The entry of `in_flight` for one attachment, its file and its record, and two senders that
send the same chunks: `Cut` senders stop in the middle, chunks may arrive when the entry is
already removed (the upload then begins anew), file and store calls fail, the server
crashes. A chunk is its index. Neither sender looks at answers, as in the code.

### 3.6 The client: ClientView, TokenQueue, Timeline, Composer, DesktopApp, Diffs

`ClientView` folds envelopes into a `ThreadProjection`: `ApplyEvent` with one operator per
part it changes (`StatusAfter`, `TurnsAfter`, `ItemsAfter`, `AgentsAfter`), `Grouped` for
`grouped_items`, `InTree` for the tree of sub-agents. The envelopes come from a node whose
thread publishes them in the order the ThreadManager does, and whose calls come at any time: an interrupt
(`CvInterrupt`) sets rows and publishes nothing, a dying provider ends the stream without a
word (`CvProviderDies`), a late answer or error changes one side alone. The history `untold`
has the turns whose row changed without an event, and 0 when the status did. The envelopes
go through relays of `EnvironmentRouter`: a second registration starts a second relay from there on, the first
goes on with what its channel still holds; a relay that lags ends. Properties about the
whole content speak of views over an unbroken stream (`CvUnbroken`: one registration, no
lag); what a doubled or broken relay shows is wrong in the code and said so in the
hazards. Over such a stream the view differs from the node only in what is in `untold`.

`TokenQueue` counts as the code does, in bytes. A chunk is a range of bytes of the stream, its
characters are all of one width (`TqWidths`), `tqInside` are the places inside one. A frame
whose budget ends there slices a character and panics (`TqTickPanics`,
`pandamux-client/src/token_queue.rs:93`); the property speaks of the queue until then, and says
that only characters of several bytes lead there.

`Timeline` has the one scroll position and selection of the window and computes the cards
that are drawn, with what each offers to click. `Composer` has the one draft and picker.
`DesktopApp` has the selections, panels and calls of the window: every click the window
offers in a state (`DtOffers`) is an action, every answer is applied when it comes. Calls
are answered in order, since the bridge has one connection and the server one task for it
(`ServerBridge`), or lost.

`Diffs` lets a diff grow as git writes one (files, deleted ones too, hunks, lines, or the
lines an agent sent without a header) and computes, at every state, what the viewer and the
summary make of its text (`DfText`). There the state is only the input. `Viewed` and
`Summed` go through the text as the two loops do, `ViewLine` and `SummaryLine` are their
bodies, and a line is known by how it begins (`Begins`), so that a removed line that says
`--` (a comment of SQL or Lua) or an added one that says `++` is left out of a hunk
(`LooksLikeHeader`) and, before a blank, taken for a header (`ReadsAsHeader`), as in the code. `LcsLengths`, `Lcs` and
`MetIn` are the table, the way back through it and the matching of
`diff_words_with_emphasis`; `SplitRows` is `generate_split_rows`. A path is a sequence of parts,
blanks and leading `b/` among them: the viewer splits the header at blanks and takes off every
`b/` (`ShownPath`, `diff_view.rs:451-457`), the summary takes off one, up to the tab git puts after a
name with blanks (`SummedPath`). They tell of git's file and of the same one for a path without
blanks whose first directory is not `b` (`PlainPath`), and the property says no more. A hunk
begins at a number of its own on either side (`HunkHeader`), `DfGap` lines after the one
before it, whose added and removed lines set the two apart. The symbols a summary lists are
in the model, and no property is about them. Left out are the language
and the colours of the words, binary files and the signs of missing newlines.

### 3.7 Settings, HubRouter, Workspace, WorktreeSync, SshRemote

`Settings`: the row, calls of other connections between their read and their write, whole rows
(`StSetWhole`, where a field that is missing takes its default), imports, the desktop's draft and its two
calls. Any key takes any value of its type, as in the code, whose `normalize` changes a limit
of 0 and nothing else here; `StLimitTop` is the type's largest number, where the page's step up
wraps. `stTwice` remembers what a client's own list named twice. That one write undoes another
made between its read and its write is what the code does and is no violation of what is
claimed. Three settings stand for the others, one of each sort.

`HubRouter`: `hbRoute` joins what `resolve_target_environment` looks up, the environment of
a stored thread and the entry of `remote_terminals`. A call is resolved, sent, done on the
node, answered, noted; its link may go away between any two of these, which loses the
answer of what was done. Nodes and the hub restart. A call may name its environment itself and
then goes there whatever the routes say (`named` in `HbResolved`, `router.rs:253-259`). Two
histories remember what this and a dropped error lead to: `hbAstray` has the ids a client asked
to close where they are not, whose route goes while they live (`router.rs:353-361`); `hbUnsaved`
the threads a client was told of whose row the hub's store did not take (`HbReturnUnsaved`,
`router.rs:342`). Ids in neither are reached.

`Workspace`: a tree gives each path its content. Each git command of `create_checkpoint`,
`rollback_to_checkpoint`, `prune_old_checkpoints`, `git_commit` and `git_push` is a step,
and agents and users write between them, over what a file held as well as where there was none.
`wsRoll.alone` remembers whether anybody wrote
while a roll-back ran.

`WorktreeSync`: a commit is the sequence of changes that lead to it, so an ancestor is a
prefix. The handler's own branch for a hub (`router.rs:1285-1323`) is never reached, since
`handle_request` has forwarded the call before; the model follows `handle_request`. A fetch and the count after it may fail: a failed fetch ends the
call, a failed count reports 1, however many commits were sent (`WkCountFails`,
`pandamux-remote/src/worktree.rs:203`). What is said of the number is said of counts that succeeded.

`SshRemote`: two hosts, the node behind the bastion. `acquire` is a place in the call
(`at`): waiting for the node's slot, for the bastion's while holding the node's, dialling;
the bootstrap is a `stage` that runs one command after the other. A command whose
connection is lost ends with exit code 0, as in `exec.rs`, and with what it had printed so far:
where the code reads that too (`detect`, `discover`, `poll`, `again`,
`bootstrap.rs:239-241` and `276-280`) it may be too little, and the call goes on to launch or
ends (`CutShort`). A daemon of an older version may run already (`Older`), and daemons die.

## 4. Runs

The `thread_` runs instantiate `MCThreadLifecycle`, the `bridge` runs `MCServerBridge`, `clients`,
`progress` and `parts` the modules of their names, `active_limit` is one of `ProviderStart`.
Deadlock checking is off: once every call has returned and every turn has settled, or the
handle is gone, the system really is at rest.

| Run | Instance | What it shows |
|---|---|---|
| `clients` | one of: 2 `send_turn`, 1 `cancel_turn`, each on its own connection, echoes; a node of 4 events and 2 relays; settings under the desktop and another client | `SingleReader`: the receiver has one holder. `ImplementsEventLog`: the table is an append-only log although its writers number events from stale reads. `FinishedStaysFinished`: rows written back from older copies never revive a finished turn. `CvSettledAgrees`: the view has the server's statuses but for those no event told. `CvShowsAll`: all text in order, every sub-agent in the tree. `StSound`: no limit of 0, no environment twice that no client listed twice, whatever writes cross. |
| `thread_restart` | 1 of each call; 1 text, approval, death, crash and failing store call | `TypeOK`, `LogGapFree`, `RowsBeforeEvents`, `RestartLeavesNothingActive`, `TokenBeforeOutcome`: what a crash at any step leaves in the store. |
| `thread_serial` | 2 `send_turn`, 1 `respond_approval` over one connection | `OneActiveTurn`, `EventsBelongToTurn`: used as one client uses it, without cancels, turns do exclude each other and no event is stored under another turn. |
| `thread_two_sends` | 2 `send_turn`, two connections | `OneActiveTurn` is violated. |
| `thread_lost_event` | 1 `send_turn`, 1 `respond_approval`, one connection | `BroadcastIsStored` is violated. |
| `thread_settled` | the same | `SettledThreadIsIdle` is violated. |
| `thread_unstreamed` | 2 `send_turn`, one connection | `AcceptedTurnIsStreamed` is violated. |
| `bridge` | 3 requests, a command channel of 2, 1 line to the server, 5 to the desktop, 1 lost connection, 1 failed attempt, fairness | `TypeOK`. `AnswersMatch`, `NoneGivenUp`: no answer goes astray and no request is replaced, entries of the lost connection included. `Answered`: a queued request is answered, unless a lost connection took it along. `DropReturns`: the handle can always be dropped. |
| `bridge_join` | 1 line each way, no lost connection | `DropReturns` is violated. |
| `progress` | one of: 2 `send_turn` and a provider that may die; a terminal opened twice with 3 bytes, a character of two and one of one, and a ring of 2; 2 senders of up to 3 chunks with a cap of 2 and 2 faults; 2 callers with 3 dials of which 1 is lost; a session with 2 lines, 2 messages and a channel of 1; fairness | `CallsReturn`, `ReceiverReturns`: calls on a thread end and its receiver comes back. `TermViewUnbroken`: no reader gets a byte twice or misses one untold, but for characters cut between answers. `TermDrainStops`: drain threads end with their child. `UpRecordIsWhole`, `UpEventuallyStored`: what is recorded is whole, and what fits is stored. `ShInstalledIsVerified`, `ShOneConnection`, `ShCallsEnd`: what runs on a node was verified, hosts have one connection, nobody waits for ever. `PvEachOnce`, `PvEndIsSeen`: lines, ids and instructions pass once, and the end of a program is seen. |
| `parts` | one of eleven components, bounds below | `TlInReach`: an undecided approval near the end can be answered. `DfKept`: numbers, pairs and marked words are those of the diff. `DtShowsActive`: late answers never leave the panels on another selection. `CpSentOnce`: an attachment goes with one turn at most. `WsBarTrue`: a roll-back restores, the bar offers what a commit would make. `HbToldIsReachable`: routes survive faults, failed saves and closes sent astray excepted. `PsStartKept`: of starts under way no more than the limit hold it, no torn program runs. `TqStreamKept`: text is smoothed without loss, until a frame slices a character. `TvScreenRight`: drawing, search and selection agree. `HlReportTrue`: a report is of its instance. `WkSyncedStays`: what was reported as applied stays. |
| `active_limit` | 2 starts of Antigravity, a limit of 1 | `PsActiveLimited` is violated. |

**Bounds, and why they are enough.** Two turns are needed for everything about handing the
receiver on and about colliding numbers; a third would wait where the second does. One
answer and one cancel are each a single extra writer; what they race with is the turn, and
`thread_restart` has all three kinds at once. A channel of one event makes the provider
block in every run. One crash reaches every step of every call and of the reconciliation;
a second crash starts from a state the first run's `"down"` already covers. The thread of
`progress` has no symmetry, which TLC cannot combine with liveness; with a third call it no longer
finishes in minutes. The unbounded parameters are what the theorems are for.

`bridge` has a channel one smaller than the number of requests, so that one is dropped,
and one lost connection, so that two connections share the ids. Five lines to the desktop
hold all that one connection can be answered (two of the greeting, three requests): the
worker is then never kept waiting by its own answers, and `DropReturns` holds. With
fewer lines than answers in flight it does not, which is `bridge_join`.

`clients`, `progress` and `parts` join components that share no state: a variable `part` says whose
behaviour it is, the others keep their initial state. A step of one never enables or
disables one of another, so a behaviour of all is an interleaving of behaviours of each, and
properties of one component's state hold in it as they do alone. Their bounds:

* *Terminals*: two opens make one replacement; three bytes overrun a ring of two, and cut a character
  of two bytes at its end, at its beginning and between two answers.
* *Uploads*: two senders interleave and repeat; a cap of two of three chunks lets uploads
  below, at and above it occur; two faults are a failed first write and a failed second one,
  or either with a crash.
* *SSH*: two callers compete for both slots; three dials are the two of a first call and
  one again after a loss.
* *Provider session*: a channel of one is full with one event; two lines and two messages
  are the least that can be reordered, repeated or lost.
* *Client view*: four events make a turn with an item, two agents that are nested, or an
  error before its completion, and two turns an interrupt in the first; two relays overlap, a
  channel of two lags. *Settings*: one write of another client between the desktop's; a list of its
  own names an environment twice; the page's bound is 1 and the type's 2, so that a number may be
  in the page's range or above it, where its step wraps. One host can repeat within a config; imports that follow imports are the theorem's.
* *Transcript*: four items in all, of two threads, where three are in view or near it at
  the top of a thread. *Diffs*: six parts of two files, hunks and
  lines, so that two removed lines face two added ones, a hunk follows a hunk and a file a
  file; a line may be empty, begin like a comment or an increment, or declare a symbol; one path
  has a blank, one a directory `b`; hunks are 7 lines apart (`DfGap`), at numbers that differ by side. *Desktop*: six clicks and
  three calls under way suffice for select, call, select, late answer, on two threads.
  *Composer*: two files, two turns, two threads.
* *Work tree*: a tracked path and an ignored one, each absent or with one of two contents, three writes, two commits, one turn with
  its two checkpoints. *Sync*: two calls and two commits, amends or checkouts on either side.
* *Hub*: two nodes, a thread and a terminal, two calls at once, one fault. For more of
  each there is the theorem.
* *Starts*: two calls with a limit of one, one installer with two releases. *Health*: two
  instances, two checks, one change. *Tokens*: chunks of 0, 7 and 2010 bytes reach
  every budget, some of which end inside a character of 3 bytes. *Screen*: four characters, a
  capital and a wide one among them, on 2 by 3 and 1 by 4 columns wrap, scroll into
  a history of one line and overrun a ring of two.

**Fairness.** `FairSpec` assumes weak fairness of every step of a call that has begun, of
the streaming tasks, the broadcasts and the restart (the tokio runtime polls every ready
task), and of `ProviderFinish`: a provider that is not dead and not waiting for an approval
completes its prompt sooner or later. Nobody has to begin a call, answer an approval, die
or crash. The thread of `progress` has no approvals: one that nobody answers may rightly keep its
receiver for ever. For the bridge, `FairSpec` assumes weak fairness of each step of the
worker (`select!` polls its ready branches in random order, so a flood of commands cannot
keep the shutdown or an answer from being seen for ever), of the server's connection task
and of the join. Nobody has to ask, to drop the handle or to lose the connection.

For `progress`, the drain threads have strong fairness where they wait for the pty's lock,
which an input call holds for as long as its child reads nothing, and weak fairness
otherwise; an input that is blocked returns when its child is gone. Senders, callers over
ssh (their commands and dials end, with or without success) and the two tasks of a provider
session have weak fairness of each step: they are threads and tokio tasks that nothing but
their own locks and channels holds up. Clients, children and faults need not come. `parts`
has no fairness: its properties are invariants.


**Disagreements between code and text** the violation runs show (details in
`PROJECT.json`, "findings"):

1. *Two turns at once* (`tm:193-210` against `tm:279-283`): the check that answers "Thread
   is currently executing another turn" is not atomic with the write it guards.
2. *A broadcast event that is never stored* (`tm:810-815` against `tm:426`): after
   `ApprovalResolved` took a number from the table, the task's own counter collides with it.
3. *A settled thread that is Working* (`tm:841-845`): the answer's last write may come
   after the turn it resumed has settled; every later `send_turn` is refused.
4. *A turn without a stream* (`tm:616` against `tm:775`): between Idle and the return of
   the receiver a prompt is accepted that nobody listens to.
5. *A drop that never returns* (`bridge:308` against `bridge:70-73`): the worker is in
   `write_all` and the server, whose answers nobody reads, does not read on; closing the
   senders does not reach a worker that is not in its `select!`.
6. *More processes than the limit* (`pandamux-providers/src/antigravity.rs:804` against `:628`):
   the limiter said to enforce "max 2 active Antigravity processes per environment" counts the
   starts under way; its guard goes when a start returns and the process lives on.

The second to the fourth need one connection only, the last none. None of them contradicts the passing
runs: after the lost event the log still has no gap, and the stuck thread still has one
receiver.

## 5. Proofs

Every safety property that a passing run checks, invariant or action property, is proved for
every value of the constants. Each module's assumption on its constants (`...Assumption`)
gives their types and keeps the marks apart (no user is called as the mark of a free mutex);
one that says more is named below. A theorem has an inductive invariant: what the property
needs and does not say, kept by every action, with one step per action in the proof.

### 5.1 The thread: ThreadLifecycle_proofs

`ThreadLifecycle_proofs` proves, for any number of calls, any channel capacity, any
number of crashes, deaths and faults:

| Theorem | Property |
|---|---|
| `TypeCorrect` | `Spec => []TypeOK` |
| `ReceiverHasOneHolder` | `Spec => []SingleReader` |
| `NoGaps` | `Spec => []LogGapFree` |
| `EventsImplementLog` | `MaxFaults = 0` implies `Spec => ImplementsEventLog` |

**Assumptions** are `CallsAssumption` (calls of different kinds have different names, and
neither `None` nor `"home"` is one) and `BoundsAssumption` (the types of the parameters).

**The argument.** Types are not inductive by themselves. The task writes into the turn's
row the outcome of the event at the head of its channel, several steps after it looked at
it, so `TypeOK` needs `EventInHand`: while a task handles an event, that event is still at
the head. That holds because no other task takes events, `SingleReader`; which holds
because a receiver is created only when there is no session, `SessionLock`: the call that
starts one holds the map's mutex. Together with `HasLatest` (the table has a largest seq)
they are the inductive invariant `Inv`, proved with one step per action.

`NoGaps` adds `GapInv`: the stored seqs are an interval, every number a call read from the
table (`BasesReached`) or has used in it (`SendsReached`), and every number a task has
counted (`TasksReached`), is at most the latest. An append under the next number
therefore either extends the interval by one or collides and changes nothing. A task's
counter stays in step even when its insert fails, because it fails only if the number is
already there. With faults this is false (a dropped append leaves a gap), hence the
condition `faults = 0`.

`EventsImplementLog` adds `UniqueSeqs` and shows that the table, listed by seq, is a
sequence to which each step adds at most one entry, at its end: `EventsBelongToTurn`'s
violations and lost events do not disturb readers that ask for what follows a seq.

### 5.2 The rows of turns: ThreadLifecycle_proofs

| Theorem | Property |
|---|---|
| `FinishedTurnsStay` | `Spec => FinishedStaysFinished` |
| `EventsHaveRows` | `Spec => []RowsBeforeEvents` |
| `RestartsClean` | `Spec => []RestartLeavesNothingActive` |
| `TokenSavedFirst` | `Spec => []TokenBeforeOutcome` |
| `TurnsDoNotOverlap` | `OneConnection`, no cancels, `~Echoes`, `MaxFaults = 0` imply `Spec => []OneActiveTurn` |
| `EventsStayTheirs` | under the same hypotheses `Spec => []EventsBelongToTurn` |

*Rows.* A turn's row is written by the call that saved it, by its task, by a cancel and by
the reconciliation, each from a copy it read earlier. `RowInv` says who may still write it
with what: until the call returns it is the only one (`RowOrder`); once the row is finished
the task is past the steps that would make it active, save for the copy it took for the
checkpoint, which is finished too (`RowFinal`). A server that is down runs nothing
(`NothingRuns`), so that a restart finds no writer.

*What is kept without faults.* While no store call has failed (`KeptInv` is conditional on
`faults = 0`, as the three properties are) every step of a writer leaves behind what the
next one relies on: the outcome stays in the row (`OutcomeKept`), what the events table says
of a turn its row says too (`Reported`), a token is saved before the outcome (`TokenKept`),
and what a server that takes calls finds active, it started (`ActiveIsOurs`).

*The serial case.* The check of `send_turn` is not atomic with the write it guards, so
nothing excludes two turns in general (`thread_two_sends`). Over one connection
(`OneConnection`: a client calls again after the answer) `SerialInv` makes up for it: who
passed the check finds the provider quiet until it prompts it (`SendsAlone`), a task that
streams is alone, of the only active turn, and everything in the channel is of that turn
with the completion last (`StreamsAlone`), and an idle thread is quiet (`IdleIsQuiet`). The
hypotheses are needed: on the instance of `thread_serial` TLC finds `OneActiveTurn` violated
with one failing store call, with one cancel, or with a second connection, and
`EventsBelongToTurn` with a provider that echoes completions. Crashes of the server and
deaths of the provider are allowed.

### 5.3 What clients hold: Client_proofs

| Theorem | Property |
|---|---|
| `BridgeTypes` | `Spec => []TypeOK` (of `ServerBridge`) |
| `AnswersMatchHolds` | `Spec => []AnswersMatch` |
| `NoneGivenUpHolds` | `Spec => NoneGivenUp` |
| `CvViewAgrees` | `CvSpec => []CvSettledAgrees` |
| `CvShowsEverything` | `CvSpec => []CvShowsAll` |
| `TqKeepsStream` | `TqSpec => []TqStreamKept` |
| `StStaysSound` | `StSpec => []StSound` |

*Bridge.* The assumption is `BridgeAssumption` (the greeting is no request, the marks in `result` are
none, the capacities are positive). That an answer is the right one is not inductive: what
makes it so is that every line under way agrees with the entry pending under its id
(`LinesAgree`), which a new line keeps because its id is above every pending one
(`PendingNumbered`). The same fact gives `NoneGivenUp`: `insert` never finds an entry.
Both survive a reconnection because the counter is not reset by one.

*View and server.* A view is behind its server by what its relay still holds, so it agrees
with a state the server was in and need not be in any more. `CvInv` therefore says that
there is a history `past`, one state of the node for each length of the log, in which every
event tells what the node did (`CvTells`), and that the view over an unbroken relay agrees
with the state of as many events as it has applied, in all that is not `untold` there (`CvAgrees`,
`CvFollows`). Publishing adds a state at the end, applying an event moves the view by one, and
once nothing is left the view agrees with the last state, which is the server's. A step without
an event (an interrupt, a dying provider) replaces the last state: every view that agreed with the old one agrees with
the new (`CvSilent`), because what the step changes it adds to `untold`. A status leaves `untold`
only with an event that tells it.

*What a view shows.* `CvShowInv` says, of the events applied so far, that their texts are
shown, each once, of no others and in their order (`CvTexts`), that the view's agents are
those the node computes from its stored events (`NodeAgents`), and that the last row of an
agent is alike (`CvAlike`). The tree reaches every agent because each was spawned once, below
one spawned before (`CvLogSound`): the first that was not reached would have a parent that
was. Of an arbitrary list of items the grouping is proved complete, in order and without two
work logs side by side by adding one item after the other (`CvGrouping`).

*Smoothing.* The chunks shown and those that wait are a chain from the first character not
yet released to the last one pushed (`TqChain`), whose length is the count; splitting a
chunk where the budget ends leaves a chain, none of whose chunks starts inside a character since
a frame that would make one panics. All of it is said of a queue that has not. That a frame takes some of what waits is what
`adaptive_frame_budget` owes in each of its ranges.

*Settings.* Everything that was read, drafted, asked or answered is sound as well as what is
stored (`StInv`, by `StRowsOf`, `StDraftsOf` and `StAsksOf`, each of what clients have listed
twice so far), so that a stale read that is written back does no harm of this kind; the set of
what was listed twice only grows. Imports add a host only if it is not there, whatever the
config repeats.

### 5.4 What the window shows: Desktop_proofs

| Theorem | Property |
|---|---|
| `DtFollowsSelection` | `DtSpec => []DtShowsActive` |
| `TlEndInReach` | `TlSpec => []TlInReach` |
| `CpGoesOnce` | `CpSpec => []CpSentOnce` |

*Window.* Answers come in the order of the calls, so what the window is going to show is
what the newest call under way of its kind is about: `DtRight` says that this is the
selection, and that with none under way it is shown already, unless an answer was missed.
`DtTabKept` (a thread's panel has the tab it was left with) is what makes a click on a
thread start the right calls.

*Transcript.* While the shown thread was counted last, the position is the one that shows
its end (`TlInv`); the rest is arithmetic of heights, from `TlAssumption` (a row has a
height): the range that is drawn starts above the end by no more than the view.

*Draft.* Attachments are numbered as they are made, each import is of another, and none of
those is among the ones given up (`CpApart`): so an answer that comes late adds a file that
is neither in a turn nor in the draft.

### 5.5 Providers: Providers_proofs

| Theorem | Property |
|---|---|
| `PsStartHolds` | `PsSpec => []PsStartKept` |
| `PvPassesOnce` | `PvSpec => []PvEachOnce` |

*Starts.* The argument has three parts that meet only in the types (`PsTyped`). The limiter
decides on the count it saw before others moved it, so that nothing follows from the
counter's present value; what is inductive is that of any set of counted calls one saw all
the others (`PsLastSaw`). Calls that were let through saw fewer than the limit, so there are
no more of them than the limit. What a child was told is always a beginning of its
driver's handshake (`PsTold`). And of a release that was installed once there is one
installer, its server is whole from the second step on, so wherever the pointer or a call
names it (`PsSourced`). The assumption is `PsAssumption`: finitely many calls, the drivers'
and modes' names, and that no release is called as one of the marks.

*Session.* All ids sent are below the next one, the handshake's included (`PvIds`); as long
as the instructions wait for the first prompt nothing was prompted or told (`PvTold`), which
is why a write that failed does not lead to a second preamble; and the events that were
taken and those in the channel are, in number and order, the lines that were read and that
the driver reports (`PvStreamKept`, which is inductive).

### 5.6 The server's services: Services_proofs

| Theorem | Property |
|---|---|
| `WkSyncedKept` | `WkSpec => []WkSyncedStays` |
| `HbReachable` | `HbSpec => []HbToldIsReachable` |
| `WsBarHolds` | `WsSpec => []WsBarTrue` |
| `UpRecordsWhole` | `UpSpec => []UpRecordIsWhole` |
| `HlReportsTrue` | `HlSpec => []HlReportTrue` |
| `ShOneConnectionHolds` | `ShSpec => []ShOneConnection` |
| `ShInstallsVerified` | `ShSpec => []ShInstalledIsVerified` |

*Commits.* A call that has fetched finds its branch there and its tip an ancestor of it
(`WkArrived`). No step takes a commit away from `synced`: commits extend a branch, only
`main` is amended, and a fetch moves a branch forward or not at all, since a prefix of a
prefix is a prefix. It refuses the branch that is checked out, so the work tree remains the
commit of its branch (`WkCheckedOut`). A count that succeeds tells the length of the branch, of
which the tip is a beginning; of one that failed nothing is claimed.

*Hub.* Routes change only when a call returns, what the nodes hold when a call is
done, and between the two other calls, faults and restarts come. The invariant says that an
id is held by one node at most (`HbOneHome`), that every route (`HbRouteTrue`) and every
call under way or answered (`HbCallTrue`) names a node but for which none holds the id,
that an id on its way to be made is new and nobody else's (`HbSentNew`), and that a close
which was answered has removed its terminal (`HbCloseDone`) unless it was sent astray. The last is why the hub may
forget the route of a terminal even when the node answered with an error. The only
assumption is `HbAssumption`, the type of the bound on faults; ids are never made twice (in
the code they are UUIDs).

*Work tree.* Between the two commands of a roll-back nobody disturbed, the index is the
checkpoint's, the files it has are restored, and the ignored files are those of before
(`WsRead`); the second command takes away only what is in neither. That the bar offers a
commit whenever one would be made follows from what the two commands compare.

*Attachments.* Nothing is recorded before its file was written and its size checked
(`UpStored`); a record whose file a later copy failed to rewrite is set apart (`upTorn`).

*Health.* Each report is what the probe of its instance made of what it saw (`HlMadeOf`),
under way or shown, and a check makes one report for each instance it read.

*One connection.* A user dials only while it holds the mutex of its host's slot, and only
after it found nothing alive there. The invariant relates the four places this could go
wrong: the mutex of a slot is held exactly by the user whose step says so (`ShHolding`), the
slot of a user that is dialling has been emptied (`ShEmptied`), and every connection that
lives, handed out or not, is the one in its slot (`ShPooled`); `ShTypes` is the type
invariant. The assumption is `ShAssumption`: the types of the parameters, and that
no user is called as the mark of a free mutex.

*Installations.* While no connection was lost (a lost one makes a failed command look like
one that succeeded, and the property says so) `ShVerified` holds: who is about to move its
upload into place has had its hash verified, nobody else writes that temporary file, and
who is past the installation finds a good binary, whoever put it there.

### 5.7 Terminals: Terminals_proofs

| Theorem | What it says |
|---|---|
| `EmptyHolds`, `WriteHolds` | a ring holds the end of what was written: all of it, or the last `RingCap` bytes, each under its offset |
| `HoldsFramed` | such a ring is framed by its offsets (`RingFramed`) |
| `ReadExact` | a reader that saw the first n bytes gets exactly the others, or is told that some are gone and gets all that are left |

`IsEnd` (a sequence is what comes after the first so many elements of another) carries the
argument: appending to both keeps it, and the end of an end is an end, so that the three
branches of `write` and the slice of `read_since` need no reasoning about single bytes. The
only assumption is `RingCapAssumption`, that the capacity is positive.

`TermViewsUnbroken` proves `TermSpec => []TermViewUnbroken` from them: of each generation the
ring holds what was drained up to the batch in hand, and a batch is in hand only between the
two halves of a drain round (`TermDrained`); a view that saw one generation ends at its
offset, which that ring has reached, and shows what it has fetched but for the characters its
answers cut (`TermSeen`, `Shows`). Decoding an answer keeps every byte of a character the answer
has whole, and the text joined to what was shown keeps the order, since what it shows comes
from after the offset.

`TvScreenHolds` proves `TvSpec => []TvScreenRight`. Of the state it needs little, and that is
`TvInv`: every row of the grid has the grid's columns, its cursor and the scrolled view are
within it (`TvGridOK`, kept by whatever is printed), and the cells kept for drawing are those
of the grid as it is. The rest is what the functions over these cells do, for every row, by
adding one cell or place after the other: the runs a row is drawn in are its cells put
together, and the run with the cursor is one cell (`TvDrawn`); the hits found so far are hits,
lie apart, and every match begun so far meets one of them (`TvFound`), where two texts match
when their characters do, capitals taken for letters or not; the cells drawn keep the order of
their columns, so that a cell is marked exactly if it is dragged over, wide ones included; and the place of a cell
among those drawn is its column as long as no wide character stands before it (`TvPlain`),
which is why the property says where the cursor is drawn only then. The assumption is
`TvAssumption`: a terminal has a row and two columns, and queries are sequences of strings.

### 5.8 Diffs: Diffs_proofs

| Theorem | What it says |
|---|---|
| `LcsIsLongest` | no common part of two lines is longer than `Lcs` (that it is one is `LcsIsCommon`) |
| `PlainWordsAgree` | the words left unmarked in two lines set against each other are the same, in the same order, blanks aside |
| `SplitRowsRight` | of any hunk that has no added line directly before a removed one, the columns of the split drawing are its two sides, and a removed and an added line in one row are as far into their runs |
| `DfKeptHolds` | `DfSpec => []DfKept` |

*Words.* The table and the way back are functions on pairs of places. An induction over the
cells, by the sum of their coordinates, shows that they are there (`LengthsThere`,
`BackThere`); another, that the way back is a common part as long as its cell says
(`LcsIsCommon`), and that no correspondence between the beginnings of the two lines is
longer. The viewer goes through each line for itself and takes the first place it can for
every common word, with the common part computed the same way round for both. All of it is
met in either line (`AllAreMet`), and since blanks are never marked, what is unmarked is
the common part without its blanks (`UnmarkedAreCommon`).

*Rows.* From the end of the hunk backwards each block of rows is put in front of the others:
its columns are the lines of its run (`ColumnOfRun`, `ColumnThen`), and the pairs in it are
those of a run of removed lines and the run of added ones directly after it (`Opposite`,
`PairsThen`). That git writes the removed ones first is what makes the viewer's pending
lists and the drawing agree on the pairs.

*Readers.* The invariant is `DfRead`: what git has written, and the states `Viewed` and
`Summed` of both readers after its text. What is needed of the viewer's is in three parts.
The files and hunks it closed, with the open ones, are git's (`ViewOf`): each line is that
of git at its place, with the numbers `NumbersAt` says come next, but for those left out
(`HunkLines`). Every pair that is complete has been marked (`MarkedTo`), and those
that are not are exactly the pending ones (`Pending`), which the next unchanged line, hunk
or file flushes. And the summary has, of the same files, the counts of the viewer
(`SumOf`), as long as no file is deleted and no line the viewer leaves out is counted
(`CountedAlike`). Each step of git adds to the end of its text
(`DfTextGrows`): a header of five lines, a hunk's, or one line, and `FileStep`, `HunkStep`
and `LineStep` say what both readers make of it. Of lines sent without a
header nothing is claimed but that they make one file at most, closed at the end
(`NoFilesYet`).

The names of the two readers are those of git for plain paths only, so that nothing else in the
argument looks at a path. The assumption is `DfAssumption`: lines are sequences of words, paths
sequences of parts, and no file of the repository has the name git gives to a missing side. Nothing bounds the files, hunks or
lines: `DfMaxParts` is any number.

### 5.9 How the models are written for it

Where a fold over data stood between a state and its property, the model states what the
fold computes, or computes it by a recursive function over positions whose steps the proofs
unfold (`Upto`, `Steps` and `Recursion` of `SequenceLemmas`): the grid of `Advance`, the
runs of `BatchRow`, the hits of `LineHits`, `TqUpto` and `WholeChunks` for the loop of
`drain_frame`, the ranges of `Grouped`, the table, matching and rows of a diff and
the two loops over its text, the least set of `InTree`, the items by kind and id
of `OfKind`, the hosts of `StImported`, the chunks of `UpAssembles`, the newest call of
`DtNewest`. TLC runs the same definitions.

## 6. Only model-checked

The liveness properties (`CallsReturn`, `ReceiverReturns`, `Answered`, `DropReturns`,
`TermDrainStops`, `UpEventuallyStored`, `ShCallsEnd`, `PvEndIsSeen`) stay with TLC: the
prover has no support for reasoning about ENABLED and fairness.

No safety property of a passing run is only model-checked. What recursive functions compute
is proved where a theorem needs it, by induction over the numbers or cells written out in
the proof; the library's induction theorems, which take an operator, are of no use to the
provers. Not proved are the six violations, whose traces the runs of section 4 show.

## 7. Not modelled

* The wire formats of the providers, model lists and usage limits, OAuth and the download of
  Antigravity's manifest: parsing and I/O without state that anything races with.
* Layout, colours, keyboard, tray, scratchpad and theme of the desktop; how a terminal's lines are
  reflowed, links and working directories in it.
* The MCP and Hark bridges, file reads and listings, pull requests, the command line: one
  request, one answer.
* The core's project registry, runs, schedules, secrets and notifications' data types: pure
  functions, most without a caller.
* ssh proxy tunnels (a copy between two streams), listings and the teardown of a daemon,
  which has no caller.
* Limits of single providers (stored as they come, like any setting without a rule), case other
  than a letter's own capital in searches, replies to terminal queries.
* The spikes under `src/spikes`, experiments that are no part of the product.

Observations made while modelling that no run is about, all plain from the code: routes and
drafts the window leaves behind on a switch of threads, `toggle_theme` and `set_accent` that
do not persist although their comments say so (`pandamux-desktop/src/app_view.rs:199`), the
hub that looks for `attachments` where clients send `attachmentIds`
(`pandamux-server/src/router.rs:302`), the diff viewer that leaves out an added line `++i;` and a
removed line `--flag`, which the summary for the next agent counts
(`pandamux-desktop/src/diff_view.rs:568`), the configuration `send_turn` makes up, so that a
provider's program and settings never reach its driver (`tm:366`), `active_connections_count`
that would deadlock with `acquire` but has no caller (`pandamux-remote/src/pool.rs:107`).

The modules have the following as the code does it, the properties except it by name, and it
disagrees with a text of the repository:

* a frame of the token queue panics inside a character (`pandamux-client/src/token_queue.rs:93`)
  although the queue is to drain up to `max_chars` of it (`:79`);
* an attach that cuts a character shows a replacement for it
  (`pandamux-server/src/terminal.rs:203`);
* an interrupt changes rows without an event (`tm:851`), so that clients of events go on showing
  a running turn;
* the viewer shows `b.rs` for `a b.rs` and `x.rs` for `b/x.rs`
  (`pandamux-desktop/src/diff_view.rs:451`); and a symbol whose declaration changed is told
  to the next agent as removed, since git writes the removed line first (`pandamux-core/src/ast_diff.rs:404-430`);
* settings of two clients undo each other (`pandamux-server/src/router.rs:607-629`);
* the cursor is drawn too far right behind wide characters
  (`pandamux-desktop/src/terminal_view.rs:101`, against `CHANGELOG.md:357`).
