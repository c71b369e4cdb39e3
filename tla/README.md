# deeCtx: specifications

deeCtx is a local proxy between AI coding tools and their upstream APIs. It
replaces personal data in requests by placeholders, puts the originals back
into the answers, redacts secrets for good, and keeps a hash-only ledger of what
it did. These TLA+ modules say how its parts behave when requests run in
parallel, masking panics, upstreams reject, the dashboard interferes, streams
are cut anywhere, days pass, processes restart, WebSocket peers vanish, tools
are wired and unwired, and commands, a tray and a service manager compete for
one port. TLC checks them on small instances. TLAPS proves every safety property the
passing runs check, for every value of the constants that the modules assume.

Paths below are relative to the repository; `masker.rs` is `src/masker.rs` and
so on. `PROJECT.json` maps every definition that models code to its lines.

## 1. Inventory

| Part | State it keeps | Operations | Talks to |
|---|---|---|---|
| `masker.rs` Masker | per session: original -> placeholder, label -> counter, behind one mutex | `mask_text`, `placeholder_for`, `rehydrate` | called by proxy, sse, responses_ws |
| `proxy.rs` request handling | none of its own per request; `AppState` shared | completions, passthrough, `mask_walk`, unmasked retry, `forward`, `rehydrate_response` | all below; the upstream over HTTP |
| `proxy.rs` dashboard | `RwLock<PackRuntime>` | `/packs`, `/preview`, `/audit/*`, `/stats`, `/tools` | config.toml, ledger, stats, packs |
| `packs/` | the active packs | `load_active`, `build_chain` | detectors, config |
| `detect/`, `allowlist.rs`, `chunk.rs` | the NER session behind a mutex that may be poisoned | `detect`, `ready` | called by `mask_content` and `/preview` |
| `sse.rs` | bytes held back | `push`, `finish` | Masker |
| `responses_ws.rs` | events not yet in the ledger, a session per connection | the two-way pump | Masker, ledger, stats |
| `ledger.rs` | an open file and the day it stands for, behind two mutexes; the directory | `new`, `append`, `clear_all`, reading | handlers, `/audit/*`, `deectx audit` |
| `stats.rs` | atomic counters | record, snapshot, reset | handlers |
| `config.rs` | config.toml | load, `write_active_packs` | start, `POST /packs` |
| `lifecycle.rs`, `home.rs` | the pidfile, processes | start, stop, status, uninstall | setup, the service manager |
| `setup.rs` | the tools' configs and their `.bak` | patch, unwrap, install/uninstall autostart | lifecycle, tray |
| `tray/` | the handle of a proxy thread, the state shown | toggle, quit | proxy, setup |
| `audit.rs`, `status.rs`, `upstream.rs`, `main.rs` | none | aggregation, formatting, a match on the key, arguments | |

What is hard here: handlers run on the threads of one runtime and share maps,
runtime, counters and ledger, each behind its own lock, so that one request
takes many short critical sections; a panic in masking is caught and poisons a
mutex; the packs change between two strings of a request; a rejected request is
sent again unmasked; chunks of a stream end anywhere; the ledger rotates,
prunes, is cleared and fails while it is written; the process restarts on
another day. What makes each part correct:

* Masker: one placeholder per original and one original per placeholder, for
  ever; what was masked reads back; calls are atomic, also those that panic.
* Request handling: the tool gets its own words back; the ledger tells what was
  sent; a masking bug never breaks a request; a pack that fails closed does.
* Stream: cuts make no difference, nothing is held needlessly, memory is bounded,
  and all of it arrives.
* Ledger: accepted entries stay until they expire, and then go.
* Lifecycle: after `start` the tools reach a proxy, after `stop` none is wired to
  one that is gone, and the user's configs are never lost.

The hazards, each with its line, are in `PROJECT.json`.

## 2. Modules

    Rehydration          books, replacing, putting back          (masker.rs, pure)
    PlaceholderText      what texts are made of                  (masker.rs, pure)
      Masker             the shared maps under their mutex       (masker.rs)
        implements PlaceholderBook   atomic masking, the promise
        MaskerProofs     theorems, the refinement among them
      Proxy              requests, packs, dashboard, restart     (proxy.rs, packs/, stats.rs)
        ProxyProofs
    Sse                  the stream rehydrator                   (sse.rs, proxy.rs)
      SseProofs
    Ledger               files, days, rotation, clearing         (ledger.rs)
      LedgerProofs
    WsSession            the two-way pump, the event buffer      (responses_ws.rs)
      WsSessionProofs
    Setup                the tools' files and their backups      (setup.rs, wire_tools)
    Lifecycle            port, pidfile, commands, autostart, tray
                         (lifecycle.rs, run_proxy, home.rs, setup.rs, tray/)
      LifecycleProofs    theorems about Lifecycle and about Setup
    Checksums            card numbers, IBANs, tax file numbers   (detect/regex.rs, pure)
      Detection          chain, chunks, names, merge, allowlist
                         (detect/, chunk.rs, allowlist.rs, packs/)
        DetectionProofs
    Lemmas               induction, folds, joining sequences, rehydration, filling
                         gaps: what the proofs of several modules rest on

`Proxy` takes masking as atomic (`PlaceholderBook`) and detection as given,
`WsSession` numbers placeholders as `Masker` does, `Lifecycle` keeps of `Setup`
whether the tools are wired. The `MC` modules give the constants of the runs.
Operators named `X_Something` with a comment "Mistaken:" are variants of `X` with
a plausible bug; each shows that a property notices it, and nothing uses them.

### Rehydration, PlaceholderText and Masker

A text is a sequence of atoms: words, white space, placeholders, the redaction
mark. A call of `mask_text` brings a text as gaps and spans. A span has a slice,
the text[start..end] that is replaced, and a text, which the placeholder is given
for and which is put back: the slice itself, but for a span NER found its words
joined by single spaces (`Joined`, ner.rs:294). `Readable` is what the user then
reads back. `Masker` has the two maps of each
session (`byOriginal`, `counters`), the holder of the mutex, and for each thread
where it is (`pc`), its `call`, the replacements collected (`marked`) and what it
returned. `Acquire` is `lock().unwrap_or_else(into_inner)`; `RedactSpan`,
`ReusePlaceholder` and `NewPlaceholder` are the branches of the first pass, one
span a step; `ReplaceSpans` is the second pass and the return, `ReplacePanics` the
same when `replace_range` panics, which keeps what the first pass stored and
frees the mutex. `BeginRehydrate` rehydrates what some call returned.
A HashMap's order is a choice among all orders that descend by length.
`Rehydration` is what a book of any kind of atoms does to a text and knows no
constants; `PlaceholderText` says what the atoms are and how wide.

### Proxy

One request is Arrive, Gate, MaskContent for each string, Serialize, Forward,
then RetryUnmasked or Answer, and Record; `count_tokens` records before it
forwards, and a completion that does not parse is forwarded at once. `MaskContent`
reads the runtime each time, as `mask_content` does, and leaves events and
counts. `MaskPanics` is the `catch_unwind` branch: the events are dropped and the
original is sent. If NER panicked, its mutex stays poisoned: the detector is no
longer ready and finds nothing. If `replace_range` did, the session's map keeps
what it was given. The upstream answers, rejects with 400, or refuses in another
way, which 422 stands for: 413, 429, 5xx, and the 502 the proxy gives itself.
`Retries` is of 400 alone, so that the other refusals of a masked body reach the
tool. `WasMasked` compares bytes, so that a body that merely serialises differently
counts as masked. `HangUp` drops the handler where it
awaits. `SavePacks`/`SaveFails` and `SwapRuntime` are `POST /packs`,
`ClearLedger`/`ResetStats` `/audit/clear`, `Preview` may panic in NER. `Restart`
keeps config.toml and the ledger's files. The Masker is atomic here, which two
theorems justify: `Masker` implements `PlaceholderBook` (MaskerImplementsBook), and
`Proxy` takes from the Masker nothing but what `PlaceholderBook` promises
(MaskerAsPromised). The Ledger is one sequence, whose files are `Ledger`'s subject.

### Sse

`Bytes` are brackets, letters, other bytes, the two bytes of a character, and a
byte that is never UTF-8. A placeholder is what `is_placeholder_prefix` knows: a
bracket, bytes of `Letters`, a bracket, no longer than the window. `Chunk(n)` is `push` of the next n bytes with
`emit_len` and its cap. `Init` holds the value of `finish()`: `forward` evaluates
it when it builds the response. `End` appends it, `Break` is a connection that
breaks.

### Ledger

The directory maps names (the base file, a day) to files, and an open handle
keeps its file when the name goes. `append` is a sequence of steps under the
current_date mutex: BeginAppend; CloseBase, RenameBase, PruneOld, ReopenBase,
InstallBase (`rotate_to`); WriteBase or WriteDated; RotateFails and WriteFails
where the code has a `?`. `clear_all` takes the file mutex only for moments and
interleaves with all of them: ClearStarts, ClearRemoves, ClearOpens,
ClearInstalls, ClearSetsDate, or ClearFails. Entries get their time when they are
made, and midnight may pass before they are appended. One clearing runs at a
time. `Restart` is `Ledger::new`.

Two history variables name the exceptions the code makes: `wiped`, entries made
before or while the log was cleared; and `astray`, entries accepted while the
ledger's open file was not the base file. The second is no accident of the
model: a rotation or a clearing that fails leaves no file, and `append` then
returns Ok without writing (ledger.rs:80-83); and a clearing that overlaps a
rotation which fails leaves open the file that has just been renamed.

### WsSession

One task a connection: `Refuse` or `Upgrade`, `Connects` or `ConnectFails`, then
a frame at a time. `FromClient` masks a frame, buffers its events and flushes
them when the threshold is reached, all without an await; `SendUp` waits for room
in the socket, and nothing is read meanwhile. `FromUpstream` and `SendDown` are
the other way. `Close` is a close frame or the end of a stream from either side,
the last flush and the drop of both sockets. `MaskPanics` ends the task - unlike
in `Proxy`, nothing catches it - and `TaskDropped` is a shutdown. Appending may
fail, after the buffer was taken. Each connection has its session, numbered by
CONN_ID, and the n-th value of a session is the placeholder n; that this, too, is
masking as `PlaceholderBook` promises it is the MaskerAsPromised of WsSessionProofs.
Events are counted
in `masked` twice, as the code does (section 5). The values are the spans' texts: what
NER joined is joined before it comes here.

### Setup

A file is the sequence of its lines, of as many kinds as `patch_for`, `wired` or
the tool reading it tell apart. A wirer goes through the discovered tools: Look
(`is_locked`), Read, LookForBackup, Copy, Write (`patch_config`), or Restore for
each and RemovePlugin at the end (`unwrap`); each is a file operation, and between
any two another wirer, the user, a failure or a kill may come. A copy or a write that
fails or is killed has not begun, or it leaves the file cut short (`BrokenOff`): its
first lines and one that cannot be read. `Patched` is what the code writes;
`ValidToml` and `Routes` are what the tool makes of it, and a file it cannot read
routes nothing. `own` is what the user wrote last, whether or not a backup is there.
Three history variables name the tools for which the code does not keep it:
`outdated`, written beside a backup, which the next unwrap puts in its place; `torn`,
backed up by a copy that broke off, which line 60 takes for the whole; `raced`, the
tools that two wirers were at together.

### Lifecycle

Processes, each a `serve`, a `tray` or a tray without display, with up to two
servers (a tray's old thread may still drain while the new one binds). A server
is `run_proxy_with_shutdown_and_ready`: Bind or BindFails, WritePid, CloseListener,
Finish. The tray: TrayWires and TrayStarted (`ProxyHandle::start`), TrayUnwraps and
TrayJoins (`stop`), Toggle, Quit. A command: `start` is kill, clear, wire, install,
spawn, wait; `stop` is unwrap, kill, clear, uninstall. systemd restarts what failed,
launchd whatever ended, Windows starts the tray at login. Mishaps are failures of
any of these, crashes, reboots, and answers later than two seconds; uninstalling
that fails may leave the artifact too (lifecycle.rs:153 ignores it). `calm` says
that no mishap or click crossed the command, `untold` names the processes whose
pidfile was removed by somebody else, `surprised` the trays whose icon the code
does not keep up with: a bind later than two seconds, a start from the menu that
failed to bind (tray/mod.rs:153-155 does not ask), a server that died.

### Checksums and Detection

A text is a sequence of bytes: letters, white space, the two bytes of a
character. `Match` runs the patterns, `ChunkNext` is the loop of `chunk_text`,
`Infer` that over the chunks, which keeps one name of each label in each or fails
and keeps none, `MergeNext` the loop of the merge, `Filter` the allowlist. Where
patterns match, what is random and what the model sees is chosen freely;
`Checksums` has the three sums of the code.

## 3. Runs

| Run | Bounds | Shows |
|---|---|---|
| `masker` | 2 threads, 1 session, 3 inputs | type invariant, distinct, exact and stable placeholders, round trip, atomicity, the mutex comes back |
| `proxy` | 2 requests, 1 dashboard, 3 bodies, 1 intervention | AnswerReadable, LedgerTruth, NeverHalfMasked, PacksSurviveRestart, every request ends |
| `proxy_closed` | 1 request | **violated**: a request is sent unmasked though a required detector is down |
| `proxy_two_dashboards` | 2 dashboards | **violated**: overlapping `POST /packs` leave config and runtime different |
| `sse` | all streams of 4 pieces, all cuts | Seamless, HeldForAReason, PendingBounded |
| `sse_end` | streams of 2 pieces | **violated**: the held tail is lost at the end |
| `ledger` | 3 entries, 3 days, 1 failure, 1 clearing, 1 restart | Kept, FiledInTime, one append at a time |
| `ledger_retention` | 3 entries, 3 days, 1 restart | **violated**: entries outlive the retention |
| `ws` | 2 connections, 3 frames, sockets of 1 frame, threshold 2, 1 mishap | OwnWords, EventsAccounted, BufferBounded, a session that is left ends |
| `setup` | 2 wirers, Codex and opencode, 3 calls, 1 edit, 1 slip (a failure or a kill), files cut short after 1 line | OriginalsKept, CodexValid, UnwrapRestores, WiringRoutes |
| `lifecycle` | 3 systems, 3 processes, 2 commands, 1 click, 1 mishap | StopMeansOff, PidfileTruth, TrayShows, NoneUnattended, start leads to a proxy that serves |
| `detection` | all texts of up to 8 characters, chunks of 7 bytes that overlap by 3; 4 words with findings | ChunksCover, NamesWhole, Merged, TyposShow |

The violated ones check what a document or a comment of the repository says;
`PROJECT.json` quotes it under "findings".

Why the bounds are enough for the cases: the masker's inputs have two entities of
one label, one text under two entities, a name over two lines that NER takes for
another's value, a secret another call masks and a panic,
and its numbers are bounded by the inputs, not by a guard; two threads make every
pair of critical sections meet. The proxy's bodies have findings of each kind, a name
over two lines and a secret in each string among them, and
a pack switch can fall between any two of them; one intervention is one of
everything the dashboard does, or a restart. Stream pieces include a whole
placeholder, one that is another's beginning but for the bracket, and a stream
longer than the cap. Three days with one day's retention make an entry late, on
time and expired.

A threshold of two and one frame with several values make a buffer fill, overflow
and be flushed early and at the end; sockets of one frame make every send wait.
Codex's files include one with the table and one key, one whose table names
another address, one whose header has a comment, one with the address only
mentioned; opencode's one that cannot be parsed, which the user may repair, and one
that is locked; cutting after one line leaves a part of each that is neither empty nor
whole; three calls are wire, unwire and a third beside them. Three processes
are the command's, the service manager's and one that was there before; larger
instances (4 commands, 3 clicks, 2 mishaps, on one system each) have been checked
too. Seven and three keep a chunk longer than two overlaps, as 512 and 50 are;
with a shorter one `NamesWhole` fails, since a cut soon after the start of a chunk
leaves no overlap.

Exceptions that properties make are behaviours of the code, found by TLC when the
property was stated without them:

* `StopMeansOff` not on macOS: killed by `stop`, the tray is started again by
  launchd (KeepAlive), wires the tools, and is then unloaded: `stop` reports that
  the tools are restored, and they are wired to nothing. Quit is undone the same
  way.
* `PidfileTruth` but for `untold`: `stop` kills the proxy the pidfile names, systemd
  or another start brings one up, and the pidfile that is cleared is the new one's.
* `OriginalsKept` but for three kinds of backup. `outdated`: a file that cannot be
  parsed is backed up before its patch fails (setup.rs:60-64); the user repairs it,
  `start` patches it without a new backup, and `stop` restores the broken file - the
  same with whatever the user writes while a tool is wired. The property still says
  that what is restored is a text of the user's. `torn`: `fs::copy` that fails or is killed
  half way leaves a part of the file, which the next run trusts (setup.rs:60-61).
  `raced`: two wirers at one tool lose the original.
* `CodexValid`, `WiringRoutes`: a header with a comment is not recognised and is
  declared twice, so that Codex cannot read the file, and `doctor` reports it as wired
  (setup.rs:96, 130-133); a table with another address is kept, and `doctor` reports
  it as not wired; a file that was cut short is patched as if it were whole. `start`
  says nothing of any of them: it drops what `wire_tools` returns.
* `TrayShows` but for `surprised`. In these cases the menu shows as active what
  proxy_handle.rs:46-48 says callers must not take for a healthy proxy, and
  tray/mod.rs:153-155 does. What no such case does is to leave a proxy running that
  the menu has lost: that is NoneUnattended.
* `TyposShow` fits the sums of the code. Its weights for tax file numbers run from
  the right, the tax office's from the left: only a number whose mirror image is
  genuine passes.

TLC explores setup under symmetry of the wirers and the ledger under symmetry of
the entries (these runs have no liveness property). Runs that may stop say so: a
stream, a session or a text is done with, or the bounds are used up.

### Fairness

`Masker`: a thread that holds the mutex keeps running, and a thread that can take
the free mutex does so eventually if it stays free. std's Mutex promises no more,
so only `[]<>` of a free mutex is claimed, not that each call ends.
`Proxy`: a handler that can go on is polled. A request that was sent is answered
or fails; reqwest's client has no timeout of its own, so an upstream that keeps a
connection open and silent is outside the claim. Nothing is assumed of clients,
the dashboard's calls or restarts, only that a call of the dashboard that began
goes on. `Ledger`: appends and clearings do not stop half way.
`WsSession`: a task that can go on is polled, and its end is taken eventually when it
is possible again and again, because `select!` picks a ready branch at random. The
peers read what has come. Without that the pump can stop for ever, each side
waiting for the other to read: there is no time-out. `connect_async` has none either,
and is assumed to answer. `Lifecycle`: threads, menus, the service manager and a
command that was given go on; nothing is assumed of clicks, commands or mishaps.
`Setup` and `Detection` have safety properties only; that the loop of `chunk_text`
ends is stated as its progress, in `ChunksCover`.

## 4. Proofs

TLAPS checks these theorems for any values of the constants that satisfy the
modules' assumptions. Each invariant in the last column was checked by TLC on the
instance of the run before it was proved.

| Module | Theorem | States | Inductive invariant |
|---|---|---|---|
| MaskerProofs | TypeCorrect, DistinctPlaceholders, ExactCounters | `[]TypeOK`, `[]PlaceholdersDistinct`, `[]CountersExact` | `IInv` |
| | StableAssignments | `AssignmentsStable` | `IInv` |
| | MaskerImplementsBook | `ImplementsBook` | `RInv` |
| | MaskedReadsBack | `[]RoundTrip` | `TInv` |
| | MutexIsReleased | `Releasing` (a step property) | `RInv` |
| ProxyProofs | TypeCorrect, AnswersReadable, LedgerTruthful | `[]TypeOK`, `[]AnswerReadable`, `[]LedgerTruth` | `Inv` |
| | NeverSentHalfMasked | `[]NeverHalfMasked` | `Inv`, `HalfInv` |
| | PacksSurvive | `[]PacksSurviveRestart`, for one dashboard | `Inv`, `PacksInv` |
| | MaskerAsPromised, RequestsComeToAnEnd | `AsPromised`, `Ending` (step properties) | `Inv` |
| SseProofs | CutsMakeNoDifference, HoldsForAReason, PendingIsBounded | `[]Seamless`, `[]HeldForAReason`, `[]PendingBounded` | `Inv` |
| LedgerProofs | TypeCorrect, EntriesKept, FilesInTime | `[]TypeOK`, `[]Kept`, `[]FiledInTime` | `IInv` |
| WsSessionProofs | TypeCorrect, EventsAreAccounted, BuffersBounded | `[]TypeOK`, `[]EventsAccounted`, `[]BufferBounded` | `IInv` |
| | ClientsGetOwnWords, MaskerAsPromised | `OwnWords`, `AsPromised` (step properties) | `IInv` |
| DetectionProofs | TypeCorrect, ChunksCoverText, ShortNamesWhole, SpansMerged | `[]TypeOK`, `[]ChunksCover`, `[]NamesWhole`, `[]Merged` | `IInv` |
| | TyposAreShown | `[]TyposShow`, for samples that are valid | |
| LifecycleProofs | TypeCorrect, StopEndsAll, PidfileIsTrue, MenusAreTrue | `[]TypeOK`, `[]StopMeansOff`, `[]PidfileTruth`, `[]TrayShows` | `IInv` |
| | MenusHoldTheirProxies | `[]NoneUnattended` | `IInv` |
| | WiringTyped, UsersConfigurationKept, UnwrapIsComplete | `[]SetupTypeOK`, `[]OriginalsKept`, `[]UnwrapRestores` | `WiringInv` |
| | UnwrapGivesUsersFilesBack | `[]UnwrapGivesBack` | `WiringInv` |
| | CodexFileReadable | `[]CodexValid` | `WiringInv`, `CodexFiles` |
| | WiredToolsRoute | `WiringRoutes` (a step property) | `WiringInv`, `CodexFiles` |

### Masker

PlaceholdersDistinct is not inductive: nothing in it says that the next number of
a label is free. `IInv` adds that every number in use is at most its label's
counter (which makes the next one free), that every number up to the counter is in
use (so the counter is exact), and that only the thread that holds the mutex is
inside it. The only step that touches the maps is NewPlaceholder; its lemma is the
heart of the proof, and the rest says that nothing else disturbs them.

For the refinement the book is shown as it was when the mutex was taken until it is
released. `RInv` adds what the loop has established so far: the replacements
collected are those of the grown map, and the map has grown by exactly the texts of
the spans passed. Steps inside the mutex map to stutters, releases to the abstract
operation.

RoundTrip needs what rehydration computes. `TInv` adds that books are finite and that
whatever `mask_text` returned is the input with each span replaced by what the
session's book has for it now (books only grow). The lemma `RehydratesTo` then says
that there is one text that rehydration may return, whatever the order of the
HashMap: the text with the original of each placeholder spread into it. That text is
`Readable`, in which a name NER found has single spaces; the proof holds for any text a
detector may report, as nothing in it depends on the slices that were replaced. It rests on
`RehydrationsAre` in Lemmas: an original is made of words, so that putting one back
makes no new placeholder and the order does not matter. The assumptions are that a
word is not a placeholder (section 5) and that an input has one gap more than spans.

MutexIsReleased is what MutexReleased says but for fairness: the spans a call has left,
and one for the second pass, are fewer after each step of the thread that has the
mutex, and no step of another thread touches the maps, the mutex or that thread.

### Proxy

`Inv` says of each request what it holds where it is. While it is handled, its strings
are the client's, or those with pieces replaced by what its session's book has for
them; its events are exactly the replacements in them; and what was sent is what its
state says. When it is done, what it was answered is a
rehydration of what was sent last. `LedgerInv` says of each entry that it tells what its
request sent last. These parts need each other: an entry is true because of the
events of the request at Record, an answer readable because the strings are faithful
when sent. Books only grow, under the strings of other requests too, which
`SoundContinues` says once for all actions.

MaskerAsPromised is the other half of the Masker's refinement. `Proxy` says what a
string becomes in its own words, a string at a time; the theorem says that each step that
masks is one operation of `PlaceholderBook` on the session's book, that the string kept
is the text this operation returns, and that an answer is put back together as its
`rehydrate` does. It needs that any findings in a string can be written as the gaps and
spans a call of `mask_text` brings ("Filling gaps" in Lemmas, an induction over the
string), and that rehydrating a string's pieces one by one gives what
rehydrating it as a whole does.

RequestsComeToAnEnd is what EveryRequestEnds says but for fairness. `StepsLeft` counts the
strings still to mask and the stages still to come; a body that was masked weighs
two more than one that was not, which pays for the retry and for no second one.

NeverHalfMasked needs what `Inv` does not say, where the findings of the default pack
are: `HalfInv` adds that while a request is masked each of them is replaced in every
string passed (only NER fails open, and the default pack is always active), and that
what goes on after a panic, or is sent again, is the client's own body.

PacksSurviveRestart is false with two dashboards, as the run
`proxy_two_dashboards` shows, and so the theorem assumes `OneDashboard`.

### Sse

The argument is that of a cut. `Separate(s, k)` says that no placeholder and no
character lies on both sides of byte k, and `RehydratedCut` that a text cut there
rehydrates to what its parts do, for any text. `Settled(s, k)` says the same of every text
s may go on to be: byte k does not begin a character, and what follows it, if
anything has come, is a bracket or an unfinished character; if nothing has, no end
of s no longer than the window may begin a placeholder. `Inv` says that the bytes held
are the end of what was received, that it is settled where they begin, and that what was
passed on is the rehydration of the rest. `EmitLenOfWhole` has the three ways `emit_len`
ends: everything, everything but half a character, everything but a possible
placeholder; in none does the cap cut more. The assumptions are that placeholders look as
`is_placeholder_prefix` expects and fit the window (a listed hazard says where
nothing ensures that), that the window and one byte are less than MAX_PENDING, as 64
and 64 KiB are, and that a byte that is part of no character counts as one that is not
UTF-8. PendingIsBounded needs no UTF-8.

### Ledger

`Kept` and `FiledInTime` are inductive only together with where the mutexes and the
files are: names lead to files of their own; nothing is dated in the future; what
`append` found when it compared days is still so while it holds the current_date
mutex (`DayKept`); the base file has nothing later than the ledger's day (`BaseInTime`);
and no rotated file is named for that day or a later one (`AsideIsPast`), so that a
rename never takes the place of a file - but for the one a rotation that failed has just put
aside. `wiped` and `astray` are the exceptions of section 2.

### WsSession

The numbers of connections are their own and none is skipped (`Numbers`), so that
sessions do not meet; each book has a value once and is what its own connection
masked until a panic (`Booked`); events are in the buffer, in the ledger or failed
(`Accounts`); and a task has a frame in hand only while it sends it (`Wired`). For
MaskerAsPromised a book that is a sequence of values is read as the map from values to
numbers, which it is because no value is in it twice.

### Detection

The chunks found so far are a chain: the first begins where the text does, each
begins before the last one's end and after its start, and all on boundaries of
characters (`Chain`, which gives progress as well). Every name of at most Overlap bytes
between the start of the text and the start of the next chunk lies in one chunk
(`Cutting`), given that a chunk is longer than two overlaps. The merge keeps spans in
order and apart, and has dropped only what overlaps something kept (`MergeInv`). The
assumptions are that texts are UTF-8 and that what is found lies in the text.

TyposAreShown is arithmetic and not about steps. It assumes `SamplesValid`, that the
samples are right numbers, which is the first thing TyposShow says of them and what the run
evaluates. In Luhn's sum and the tax file number's, two texts that differ in one place have
totals that differ by what differs there, never a multiple of 10 or of 11; neighbours
exchanged differ in two places, by what the weights differ. Modulo 97 the remainder is
followed character by character: a difference stays one because 97 is prime
(`NoDivisors`), and so does an exchange. The one hard case is the exchange of the fourth
character with the fifth, which the check reads last and first: it would go unnoticed only
where a power of ten is 1 modulo 97, and none up to the 84th is (`NoPowerIsOne`), which is
as far as a text of 43 characters goes, the longest the pattern of gdpr.yaml:57 matches
(SamplesAssumption).

### Lifecycle

StopMeansOff needs a statement about each stage of an undisturbed stop
(`Undisturbed`): which servers can still be there, and why none of them outlives the
command. PidfileTruth and TrayShows need that a server has one owner whose handle
it is, and where the owner is while its server binds, serves or drains (`Owned`,
`Menus`). The systems differ in what the service manager may do (`Platform`).
NoneUnattended is inductive under these: a new server gets a slot that is neither the
handle's nor in use, and TrayStarted tells the one it replaces to stop.

### Setup

The theorems are in the second part of LifecycleProofs, as wiring is a part of what
commands and the tray do. That module extends both Lifecycle and Setup, which is why Setup
calls its specification SetupSpec. The assumptions are that Codex and opencode are
among the tools and that what a user writes into Codex's file is readable; the run
`setup` evaluates them.

OriginalsKept is not inductive: it depends on what the wirers have read. `WiringInv`
adds that a wirer has a text exactly from reading a file to writing it, and that it copies
to a backup only where it saw none (`WirersTyped`), so that a patched file never takes the
place of the user's; that nobody is at work beside a wirer marked alone (`Lonely`);
and, for UnwrapRestores, that a tool which still has a backup is one that such an unwrap has
yet to come to or has reported (`Restoring`). UnwrapGivesUsersFilesBack puts UnwrapRestores
and OriginalsKept together, into what a user expects of `deectx stop`.

CodexValid rests on what a patch does to a text. A patched file is the flattening of what
comes before, what becomes of each line, and what comes after; `Origins` in Lemmas traces
each line of a flattened sequence to its part. Lines of the file, its headers and the
keys under the deectx table come from at most one part each, and so nothing is
there twice (`PatchedValid`), for a file of any length. `CodexFiles` adds that the backup
and the texts wirers hold are readable too, since either may become the file.
WiredToolsRoute uses the same parts (`PatchedCodexRoutes`, `PatchedJsonRoutes`), and
`CodexFiles` for the text that is patched: what is written can be read. It excepts the
three Codex files of section 3.

### How induction is done

The induction theorems of the library take an operator, which the provers here cannot
instantiate. `Lemmas` states induction of sets instead - a set that has 0, and the
successor of whatever number it has, has all numbers; likewise for finite sets and
sequences - and proves it from well-foundedness. A fold is reasoned about by
showing that the function it chooses exists, and then by such an induction over
that function. The Proxy joins its entries with `\o` and its books with `With`, because the
provers have no facts about SelectSeq and `@@`.

### Only model-checked

* Liveness (MutexReleased, EveryRequestEnds, LeftIsClosed, StartServes and the like): the
  provers have no support for ENABLED. Of the first two, what does not depend on
  fairness is proved: MutexIsReleased and RequestsComeToAnEnd.
* What the violated runs show.

## 5. What the models leave out

* RoundTrip and AnswerReadable are about texts that hold no placeholder literals.
  If a user writes `[EMAIL_1]`, rehydration may put an address in its place. Nor does
  a name read back as written that NER found across a line break or two spaces: its
  words come back a single space apart (ner.rs:294), and the properties say so.
* An upstream's refusal of a masked body other than 400 reaches the tool, which did
  not send that body (proxy.rs:263). It is modelled, and no property is about it.
* WebSocket traffic is counted twice in `/stats` (responses_ws.rs:161 after
  mask_content's own counting), where README.md:135 speaks of 'live masked/redacted
  counts'. It is modelled; one frame with one event shows it, and no property is about it.
* JSON is a sequence of strings; escaping is not modelled (an original with a
  quote is put back raw into serialised JSON, a listed hazard).
* In Proxy and WsSession what is found is a parameter; in Detection where patterns
  match, how random a text is and what the NER model sees. White space has one byte.
* Session ids are given; that two conversations may hash alike is a listed hazard.
* WsSession: alerts, the request counter, the detector's poisoning (Proxy has it).
* Lifecycle: one command runs at a time; `deectx serve` by hand, reuse of pids, a
  process that outlives its kill; `status` and `doctor` only read; `uninstall --purge`
  removes config.toml and the ledger's base file, not the rotated ones
  (lifecycle.rs:161-164).
* Setup: the text of keys and values; a JSON file whose keys have the wrong type.
* `write_active_packs` on the lines of config.toml, and a crash while it is written.
* `audit.rs`, `upstream.rs`, `status.rs`: pure, and no state depends on them.
* Headers, routing by API key, gzip, the read-only pages, `alerts`, latency.
* Within a file operation: partial writes (but for Setup's, which are modelled), and
  the order in which a directory lists its names.
* Icons, packaging, scripts, the dashboard page and the NER spike.

## 6. Plan

Modelled: everything of the first plan but config.toml's lines. Proved: every safety
property the passing runs check, and that Proxy and WsSession use the Masker as its
abstract specification promises. What is left, in this order:

1. An abstract "wired only while served" for Lifecycle, and Setup as what
   implements its wiring.
2. `write_active_packs` on lines, with a crash between truncation and write.
