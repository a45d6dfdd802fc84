# A verification project for deskwave

TLA+ models of deskwave, a desk display for the media playing on a Linux computer, the TLC
configurations that check them, and theorems about them that TLAPS proves. Every definition is
translated from the source below `src/`; `PROJECT.json` names, for each one, the lines it stands for.

Run a check with `tlc -config Display.cfg MCDisplayScenes`, a proof with
`tlapm MediaServiceProofs.tla`.

## 1. The system

Two programs talk over a WebSocket: the **host** (`host/src/deskwave_host`, Python, one asyncio loop)
reads the media players of the desktop, and the **device** (`firmware/`, C++ on an ESP32, four
FreeRTOS tasks on two cores: application, network, artwork, input) shows the state and sends commands back.

```
   players --D-Bus--> MprisBackend --snapshots--> MediaService --states--> DeviceSession ...
                          ^                        |      |                  |      ^
                          | commands               |      +- LyricsCache     |      |
                          +------------------------+      +- ArtworkCache    |  WebSocket
                                                               |HTTP         v      |
   ... NetworkManager --snapshot, request, notices, feedback queues--> application task
          ^    ArtworkManager --artwork results--> application task --> UiController --> TFT
          +------------ commands, requests ------- application task <-- input task
```

### 1.1 Host components

| component | state it keeps | operations | what is hard | what makes it correct |
|---|---|---|---|---|
| `MediaService` (`service/media.py`) | last snapshot, track identity memory, artwork intent (track key, generation, context), worker, grace timer, published visuals, lyrics intent and document, subscriber queues | backend callback, artwork worker with retries, grace timer, lyrics lookup, subscribe, unsubscribe, send | every task may be cancelled or finish after the track changed; reports have gaps, late fields, reused ids | visuals change as one and only for the current intent; fallback only on evidence; lyrics belong to the track; subscribers hold the newest state; the cover comes in the end |
| `MprisBackend` (`backends/mpris.py`) | players, snapshots, selected player, last published state, disconnection time | poll, reconnect, commands, select player | players come and go between a poll and a command | commands fail cleanly; the state is held over a short outage |
| `ArtworkCache` (`artwork.py`) | cover files, mapping files, per-URL locks | resolve, path_for, store, evict | a cancelled call whose thread writes on, crash between cover and mapping, eviction of a cover just stored | what resolve returned can be served, and a damaged cache heals |
| `LyricsCache` (`lyrics.py`) | cached documents | resolve, window | lookups overlap | one lookup per track, the line is the one of the position |
| `DeviceSession`, `websocket` (`api/server.py`) | sequence counter, cache of 64 command results, subscription | send_initial, send_updates, handle | messages both ways interleave at awaits; repeated commands | sequence numbers rise; a repeated command is not executed again |
| `RateLimiter` (`api/server.py`) | time stamps per identity | allow | limits met exactly by a well-behaved client | the limit holds and clients that keep it are served |
| `DeviceStore` (`storage.py`) | pending pairings, approvals, tokens | request, approve, consume, authenticate, revoke, purge | expiry races; a lost approval answer | a token exists only for an approved device and is handed out once |

### 1.2 Device components

| component | state it keeps | operations | what is hard | what makes it correct |
|---|---|---|---|---|
| `NetworkManager` (`network_manager.cpp`) with `StateMachine` (`application_state.cpp`) | connection state, host, token, backoff, session | provision, connect, discover, pair, run, handle messages, send commands | time limits against late answers, queue overflow, a reset while it works | every state leads on; a token is kept or dropped, never half |
| `ArtworkManager` (`artwork_manager.cpp`) | request, published result, protection, files of the partition | take a request, look up, download, prune, publish; protect, acknowledge | the display reads files from another core while the task removes them | no cover in use is removed; no result is lost; the task never waits for ever |
| `UiController` (`ui_controller.cpp`) | playback, pending playback, staged artwork, active cover, transition, overlays, screen | setPlayback, setArtwork, tick, render | results and snapshots arrive in any order during a transition | the cover shown belongs to the track shown, and to the newest state |
| application task (`application.cpp`) | optimistic state, settings, command sequence | loop: consume queues, controls, tick; commands, factory reset | its steps interleave with the network and artwork tasks | protection follows the display; commands are answered |
| `SettingsStore` (`settings_store.cpp`) | NVS keys with validity flags | load, save, clear, factory reset | power loss between two writes | a credential is whole or absent |
| input (`input_logic.cpp`, `input_manager.cpp`) | debouncers, decoder, touch state | update, map to actions | bounce, lost edges, long press against click | one press, one action |
| progress, backoff, wall clock (`lib/deskwave_core`) | time stamps | update, next | wrap of the millisecond counter | progress is monotone and bounded |

`PROJECT.json` lists, under `components`, also the parts without a model (drawing, colours,
configuration, command line, announcement) with the reason, and under `hazards` the places where this
code can go wrong in ways a test would hardly reach, with the properties that watch them.

### 1.3 How the parts interact

* The backend calls `MediaService._on_backend_state`. That coroutine awaits nothing; it starts tasks
  (`_resolve_artwork`, `_promote_fallback_after_grace`, `_resolve_lyrics`) and broadcasts.
* Every WebSocket session has a subscriber queue of length one, which always holds the newest state.
* On the device tasks share no object but queues, the files of the artwork partition and what
  `artworkProtectionMux_` guards. Queues of length one are overwritten; the others drop.
* `NetworkManager.handlePlaybackState` puts a snapshot into the playback queue, then a request for its
  cover into the artwork queue. The artwork task answers with a result, and waits until the application
  has acknowledged a success. The application takes snapshots and results, calls the `UiController` and
  tells the artwork task which covers the display holds.

## 2. The modules

| module | models | composes |
|---|---|---|
| `TrackIdentity` | `_track_key_for`: which snapshots speak of the same track | |
| `VisualIntents` | abstract: what the service promises about visuals | |
| `MediaService` | `MediaService` between `start()` and `stop()` | `TrackIdentity`; implements `VisualIntents` |
| `PlayerSelection` | `select_active_player`: which player is shown | |
| `MprisBackend` | the poll task with its reconnects, and commands | `PlayerSelection` |
| `CommandOnce` | abstract: what the protocol promises about commands | |
| `DeviceSession` | one WebSocket session: handshake, handler, sender, cache of results | implements `CommandOnce` |
| `DeviceStore` | the tables of `storage.py` | |
| `DevicePairing` | `pairDevice` of the device, the pairing endpoints, the person with the code | `DeviceStore` |
| `RateLimiter` | the sliding window in front of the pairing endpoints | |
| `ArtworkCache` | the host's cover files with the threads that work on them | |
| `ArtworkMessages` | the messages and files the device's tasks share | |
| `ArtworkManager` | the artwork task and its four operations | `ArtworkMessages` |
| `UiController` | which track and cover are on the display | `ArtworkMessages` |
| `DisplayArtwork` | host state, network task, artwork task and application loop together | `ArtworkManager`, `UiController` |
| `ConnectionState` | the edges of `StateMachine::transition`, the delays of `ReconnectBackoff` | |
| `NetworkManager` | the network task from boot to session, its notices, and its surroundings | `ConnectionState` |
| `RemoteControl` | a press, from the application to the player and back | |
| `SettingsStore` | the settings in flash, every call a script of writes | |
| `DeviceBoot` | application, network task and set-up page as users of the settings | `SettingsStore` |
| `InputControls` | buttons, input queue, screens and settings, up to the factory reset | |
| `MediaServiceProofs`, `DeviceSessionProofs`, `DevicePairingProofs`, `DisplayArtworkProofs`, `DeviceBootProofs` | theorems | each extends the module it is named after; `DevicePairingProofs` also `RateLimiter` |
| `ControlsProofs` | theorems about `RemoteControl` and `InputControls` | |
| `HostProofs` | theorems about `MprisBackend`, `ArtworkCache` and the host's parts together | `MCHost`, `DeviceSessionProofs`, `DevicePairingProofs` |
| `DeviceProofs` | theorems about `NetworkManager` and the device's parts together | `MCDevice`, `DeviceBootProofs`, `ControlsProofs` |
| `MCMediaService`, `MCDisplayArtwork`, `MCDisplayScenes`, `MCHost`, `MCDevice` | instances for TLC | |

### 2.1 MediaService

Variables are the attributes of the class (`stateTrackKey` is `_state_track_key`, `intentGeneration` is
`_intent_generation`, and so on). An asyncio program changes task only at an await, so what a coroutine
does between two awaits is one action. `_on_backend_state` is one action, split by its branches into
`EmptySnapshot`, `NewIntent`, `SourceSnapshot` and `SourcelessSnapshot`; the lyrics part of the same call
(`BeginLyrics`, …) and the broadcast are conjuncts of these. Workers, the grace timer and lookups are
sets of live tasks: a cancelled worker that is in code which does not notice goes on, and what it finds at
its end must be harmless.

A track key is a string joined from fields; here it is the record of these fields. Covers and palettes are
named by the context (URL and track key) they are made from. Times are left out: a grace timer or a retry
delay may end at any moment.

### 2.2 The rest of the host

`MprisBackend`: the poll task gives up the loop at every bus call, so each call (`ConnectBus`, `Scan`,
`Attach`, `Refresh`, …) is an action, and commands fall in between. The bus comes and goes, players come,
go, fail to answer and change their status at any time. The grace of an outage is counted in seconds.

`DeviceSession`: handler and sender are two tasks on one socket. A frame is written when `send_json` is
called, before its caller may be suspended. States are versions, messages are reduced to what the handler
tells apart: malformed, binary, one that needs no command, or a command with its sequence number.

`DeviceStore` has one action per transaction (daemon and command line are two processes on one database).
`DevicePairing` adds the device's `pairDevice` with its time limit, and lets every call be lost, refused,
or carried out with its answer lost. The person may read a code and type it much later.

`ArtworkCache`: a call of `resolve()` hands each piece of work to a thread. When the service cancels the
call, its locks are released and the thread runs on as a *stray*; a step of a thread is the same action for
call and stray (`who`), but for what follows it (`Then`). Crash, corruption of a file, and writes that fail
may happen at any time until `CalmsDown`.

### 2.3 The artwork path of the device

`ArtworkManager` has one action for each queue, file or mutex operation of the task, because the other
core may do anything in between: `TakeRequest`, the cache lookup (`FindCached`), the download
(`AcceptResponse`, `RemoveCorrupt`, `Allocate`, `Downloaded`, `RemoveDestination`, `Rename`), pruning with
one `Prune(c)` for each file removed, `Publish`, `SendResult` and `Wake`. `DownloadFails` stands for the
error returns of `download`, possible at each point the code has one. `BeginPruning` reads the protection
once, as `pruneArtworkCache` does, and removes by that reading.

`UiController` has an action for each branch of `setPlayback`, `setArtwork` and `tick` that treats covers
differently. Time of the transition is `elapsed`: first half, second half, over. What is drawn is reduced
to the artwork region (`painted`): a cover, the fallback (`None`), the idle clock, another screen.
`held` is a toast or the volume overlay, which keep a transition from going on and the region from being
drawn. `FinishTick` may redraw everything at any tick (`asked`), since notices, clock and metadata ask for
that too, and the idle animation may draw a frame (`IdleFrame`). Whether the screen shows a track at all is `visible`.

`DisplayArtwork` composes them. The application's loop is a sequence of steps (`loop`), so that steps of
the artwork and network tasks fall between taking a snapshot, changing the display, and telling the
artwork task what is in use. Before it draws, a turn handles any number of controls: `ChangeScreen`; `Toggle`,
which changes the state of the player on display without a redraw (`ShowTransport`); and `ShowAgain`, by which
volume, mute, shuffle and repeat hand the application's own copy of the last snapshot (`latest`) to the display
once more. `LoopEnds` also reads the clock and takes the notices of the next turn (`TurnBegins`).

A device reset at any moment loses all variables but the files. `Init` lets the files be anything (missing,
whole or corrupt each) and the host be in any state, so a restart always leads to an initial state and
needs no action.

### 2.4 The rest of the device

`NetworkManager` has the places of `run()` as `at`: boot, portal, connect, discover, pair, session, and
halted, when the settings cannot be used. While the socket is used time is counted in ticks, for the 30
second limit and the reconnect interval that the WebSocket library was given; all other waiting is a step
that may take any time. The access point, the host, its opinion of the token and the socket change at any
time until `CalmsDown`. Notices go through the bounded queue to the application's `view`.

`RemoteControl` follows one press from `handleCommand` with its optimistic change of the display, through
the command queue, the socket and `MPRISBackend._execute`, and back as result, state and feedback. Sockets
close with frames under way, queues fill up, commands fail, and the player is changed from outside. Each
connection has a handler of its own on the host (`up[link]`, `Execute(link)`). When the device loses the
connection, a prefix of the frames under way may have been received, and the old handler executes them at any
later time, also beside the handler of the next connection; what it answers is lost.

`SettingsStore` makes each public operation a script of writes: each is atomic, power may go between any
two, and a flash of kind `failing` may refuse any. Writes whose result the code ignores are marked so.
`DeviceBoot` has the callers: load and migration by the application and again by the network task, forced
bootstrap, the set-up page, pairing, clearing the token, saving display settings, factory reset.

`InputControls` samples the contacts each millisecond, as the input task does, through the debouncers, into
the bounded queue. A pass of the application's loop looks at the chord first and discards the queue while it
is down; otherwise it handles up to `PassEvents` gestures one by one (16 in the code), and the input task may
sample in between. A setting's value is not kept, only which one is selected and whether the reset has been
asked for.

`RateLimiter` keeps time stamps as ages. The `OrderedDict` is a function of the identities it has, with its
order as the sets of those that called `since`.

## 3. What is checked

### 3.1 Runs

| run | properties | result |
|---|---|---|
| `media` | `PromotedVisualIsCurrent`, `PendingIntentIsWorkedOn`, `ImplementsVisualIntents`, `FallbackIsAuthoritative`: no stale worker, timer or callback touches the visuals, a reported URL is always worked on, the fallback needs evidence. `TrackKeyFitsMetadata`, `LyricsBelongToTrack`: what is published belongs together. `MailboxHoldsNewest`: so does a slow subscriber's queue. `VisualSettles`: a track that stays gets its cover or the fallback | holds |
| `media_lyrics_stuck` | `LyricsSettle`: the lyrics of a track get out of "loading" | **violated**, finding 1 |
| `display` | `OwnedFilesStay`, `NoResultIsLost`, `StagedBelongsToPending`: no cover in use is removed, no success lost, nothing stale staged. `OnlyCommittedIsPainted`: no cover or fallback is seen but the committed one | holds |
| `display_settles` | `DisplaySettles`: the display comes to show the host's state | holds |
| `display_stale` | `OldRequestNeverWins` over a newer state | **violated**, finding 2 |
| `display_idle` | `IdleShowsClock` when nothing plays | **violated**, finding 3 |
| `host_safe` | `StatesNeverGoBack`, `KeepsPromise` (a session implements `CommandOnce`); `KeptTokenIsAccepted`, `TokenFitsCode`, `ApprovalIsUnambiguous` (pairing with lost calls, replaced and expired requests, revocation); `NeverMoreThanLimit`, `SpacedIsAllowed` (limiter at its limit); `OutageIsBridged`, `PlayingStays` (the poll loop and a bus that comes and goes) | holds |
| `host_settles` | `SecondIsShown`: the player that plays is shown; `SessionCatchesUp`: a session shows the newest state; `PairsInTheEnd`: a device whose code is typed gets its token; `ServedInTheEnd`: the cover cache heals | holds |
| `backend_raises` | `FailuresAreResults` of commands | **violated**, finding 4 |
| `device_safe` | `SocketMatchesMachine`, `ViewCatchesUp` (connection); `InOrderAndOnce`, `UnsentIsNotExecuted` (presses; the order as far as it goes, see 3.3); `CommittedCredentialIsWhole`, `RestartKeepsSettings`, `UpgradeKeepsNetwork` (power loss and refused writes); `ResetIsDeliberate` (buttons) | holds |
| `device_settles` | `ConnectsInTheEnd`: without further faults the device is connected for good; `DisplayReconciles`: when the user stops, display and volume base are the player's | holds |
| `network_revoked` | `RevokedPairsAgain` | **violated**, finding 5 |

Each passing run with invariants also checks a type invariant (`TypeOK`, `HostTypeOK`, `DeviceTypeOK`).

**One run, several parts.** `MCHost` and `MCDevice` instantiate several modules, whose variables are
disjoint. A behaviour of one part, with the others at rest, is picked at the start by `part`; since the
parts share nothing, this loses no behaviour of any of them, and each property speaks of one part. In
the same way `MCMediaService` and `MCDisplayScenes` pick a `scene`, which restricts one module's inputs in
three different ways, each with room for the cases that need it.

### 3.2 Findings

1. **Lyrics stay at "loading"** (`media.py:209`). A lookup that ends while the player reports no track is
   dropped; when the same track is reported again, nothing starts a second one. The README promises
   synchronized lyrics whenever LRCLIB has them.
2. **An abandoned track wins** (`ui_controller.cpp:461`). Skip from A to B and back to A within the
   transition: the snapshot of A is applied at once, but the pending transition to B stays, and its second
   half puts B (and its cover, of an older generation) on the display. `PROTOCOL.md` says that a result is
   committed only while its generation matches the latest state. The next snapshot (at most two seconds
   later, while a player is selected) starts a transition back. A third track that comes while another
   screen covers the transition has the same fate.
3. **A cover over the idle clock** (`ui_controller.cpp:592`). After a stop the host goes on publishing the
   last cover; when it arrives while the screen shows the clock, it is drawn over it. `ARCHITECTURE.md`
   says that Now Playing is then a full-canvas clock.
4. **A command that ends the session** (`mpris.py:265`). `select_player` accepts a player that is known but
   has no snapshot, because its calls failed or it was attached just now; the `KeyError` goes up through
   the session, where `PROTOCOL.md` promises a `command_result` for all failures.
5. **Revocation waits for the socket** (`server.py:395`). Authentication is checked when the session is
   opened; a revoked device keeps states and commands until the connection drops by itself, where
   `ARCHITECTURE.md` and `TROUBLESHOOTING.md` say that it clears its token and pairs again.

### 3.3 Divergences without a run

The models contain the following too; TLC's behaviours have them, but no run is spent on each.

* `network_manager.cpp:808`: feedback for a full queue is dropped, so the newest goes; `sendCommand`'s
  other path drops the oldest, which is what `ARCHITECTURE.md:118` says (`FeedbackIfRoom`,
  `FeedbackNewest`).
* `network_manager.cpp:419`: after 30 seconds without a socket the token is cleared when the host is
  healthy. An outage that ends just before the check clears a token that the host still accepts;
  `ARCHITECTURE.md:171` speaks of "only the rejected pairing token".
* `application.cpp:561`: for 350 ms after a factory reset the network task goes on; a pairing that ends
  then puts its token into the cleared store. `HARDWARE_SMOKE_TEST.md:109`: "clears Wi-Fi, pairing, and
  user settings". `RestartKeepsSettings` and `UpgradeKeepsNetwork` leave that window out
  (`app # "restarting"`).
* `settings_store.cpp`: settings of a newer firmware are reported as unsupported, as
  `ARCHITECTURE.md:242` says, but a later `saveDisplay` writes the schema number of this firmware, and the next
  start reads them.
* `settings_store.cpp:134`: writes of the validity flags are not checked. A flash that refuses one and
  takes the next ones commits a network's name with another's password. `CommittedCredentialIsWhole` and
  the first half of `RestartKeepsSettings` are about a flash that takes its writes (`~failing`); the second half
  is about every flash.
* An interrupted bootstrap with `kForceBootstrapWifi` comes up on the set-up page.
* `application.cpp:446`: a hold of the knob on the settings screen asks for the reset whichever setting is
  selected, and a second hold confirms it. `TROUBLESHOOTING.md:246` says "select Factory reset, press to
  arm, then hold the encoder". Opening and closing the Actions screen does not withdraw the question.
* `application.cpp:534`: the loop sees the chord once a pass. A release and new press of a button within one
  pass goes unnoticed and the countdown goes on, where `TROUBLESHOOTING.md:250` says that a release
  cancels it. `ResetIsDeliberate` therefore excepts resets with a pass longer than the debounce time
  (`late`).
* **The clock stays under a track.** Two ways out of the idle screen ask for no redraw. `application.cpp:331`:
  a press of the toggle on the clock (a stopped player without a title, its cover still the committed one) makes the
  playback non-idle in `showTransport` (`ui_controller.cpp:668`), which draws the footer only.
  `ui_controller.cpp:423`, `:434`: a snapshot of the track that a transition leads to is applied at once, also when
  it makes the display idle or ends that; a track with an id but no title that stops and plays again in the second
  half of a transition does so. In both cases the region keeps the clock until something else asks for a redraw; the
  snapshot by which the host confirms the toggle changes nothing any more in `setPlayback`, but the notice that
  comes with it (`network_manager.cpp:563`, `ui_controller.cpp:648`) does ask. Both ways are in the model and
  reached by the run `display`; `OnlyCommittedIsPainted` therefore allows the clock, and says that no cover or
  fallback but the committed one is ever seen.
* `server.py:416`: **old presses may come after new ones.** The host notices a lost connection late (heartbeat of
  20 s) and its handler is then still executing what it received, each command for up to 2 s when a player hangs.
  A device that has reconnected sends its next presses to a second handler, so that, say, an older volume may be
  set after a newer one. `InOrderAndOnce` states the order with this exception: within a connection presses are
  executed in order, a press comes after a newer one only if it was received over an earlier connection than
  that, and none is executed twice in any case.
* `artwork.py:221`: the thread of a cancelled call stores its cover without evicting. The next call finds
  the cache over its limit and may evict the cover it has just stored, which it then returns;
  `ServedInTheEnd` says that this passes.

### 3.4 Bounds, and why they are enough

* `Media`: two URLs, one track id, a handful of snapshots chosen so that a URL comes late, changes, is
  shared by two tracks, goes missing for a while; metadata that is missing, late or contradictory under one
  id; lyrics that overlap. `MaxGeneration = 3` is the modulus of the counter, as `2^32 - 1` is in the code, so
  the wrap happens. `Unused` and `UnusedByLyrics` keep a counter from meeting a live task of the same
  number, which in the code takes 2^32 - 1 intents within one fetch. `MaxAttempts = 2`: one retry and the
  last attempt. The scenes `names` and `lyrics` try covers once.
* `Display`: two covers are enough for "the one in use" and "the one to make space for"; two generations
  let a request be overtaken. The scene `covers` has them with what an earlier run may have left (a corrupt file of
  the first, the file of the second), on an undisturbed screen that is redrawn in every turn; `fallback` and `idle` have one cover with presses, screens and
  toasts, an artwork task that does its work in one go, an empty partition, and a loop that tells at once
  which covers are in use. The tracks of `idle` are one with a title and a player without one, stopped and playing
  under the same identity, so that the toggle and snapshots of one track both leave the clock; its screen, once on
  Now Playing, stays there (`fallback` has the screens that come and go). In all scenes a step that no other task can observe comes at once: a request
  follows its snapshot (to be taken at any time), the loop draws when it is through with the controls, and the artwork task does not linger while it writes,
  publishes and sends. Steps of the loop fall between any two of the task's removals and renames. A toast that the code raises by itself (for a failed
  download) is not bounded by `Overlays`. `MaxGeneration` is here the largest generation the host reaches.
* `HostSafe`: two players, so that they tie; three requests and two remembered results, so that one is
  forgotten; two devices and two codes, so that codes collide and replace one another; three addresses
  with room for two, and for calls a limit of two in two seconds. Time limits are one or two units: only
  their order matters. One source with two covers and room for one, so that eviction happens; one stray thread.
  `HostSettles` has one device and the same cache.
* `DeviceSafe`: backoff and time limit of two ticks, notices and feedback queues that overflow, two presses
  over at most two connections (`MaxLinks`; the proofs have any number) by users who each press a few of the controls, a player without volume. Two networks, two tokens, old, new and future flash contents. A
  debounce of one millisecond means two equal samples; long presses of two and three; one gesture in a pass, so that
  gestures wait; three choices of buttons and screens (`ChordAndKnob`) with the contacts closing four times for the
  chord (chord, release and chord again) and for knob and menu, three times for knob and left button, which
  suffice to ask, leave and confirm; two settings, one of them the factory reset. `DeviceSettles` leaves the last two parts out and is smaller.
* `SYMMETRY` exchanges names that no property or definition tells apart (`TrackSymmetry`; devices, codes and
  tokens in `HostSafe`; tokens in `DeviceSafe`); no run with symmetry checks a liveness property.

### 3.5 Fairness, and why the code has it

* Host: a started task goes on (asyncio), network calls have deadlines, so workers, timers and lookups end.
  `VisualSettles` is about a backend that goes on reporting one track, which `MprisBackend` does at least
  every `POSITION_SYNC_SECONDS` (2 s) while a player is selected. In `FairHost` the poll task's calls end
  (they have time limits); of the players only the second answers now and then on a working bus
  (`SF`), the other need never. A session's handler and sender run on. Some of the calls of a device that pairs
  arrive, and the person now and then types the code while the device still polls (`SF`): without that
  nobody can be paired.
* The cover cache: threads end, the service asks again and again. `ServedInTheEnd` is about the time after
  the last fault (`quiet`), which may never come.
* Display: FreeRTOS runs every task and downloads end at deadlines, hence weak fairness of the artwork
  task, the application's loop and the network's publication. The loop sees the clock go on, but not at any
  given turn: strong fairness of the step in which `elapsed` grows. `DisplaySettles` assumes that from some
  time on the host's state is fixed, the user does not press the toggle (which changes what is displayed without the
  host's doing; the other controls stay in use), no download fails and no overlay stays up; each is a hypothesis in
  the formula, none a constraint on the behaviours.
* Connection and controls (`FairDevice`): tasks run (`WF`). Joining, discovery, pairing, connecting and
  clearing a token succeed now and then while they can (`SF`), which is what `calm` means for a radio. The host
  polls the session's state again and again while connected.

Deadlock is checked in every run. A network task whose settings cannot be used stops for ever, as in the
code; `MCDevice` has a stuttering step for it (`Halted`).

## 4. What is proved

TLAPS checks the theorems below for every value of the constants that satisfies the named assumptions
(`AbsentIsNoValue`, `SnapshotsAreSnapshots`, `FallbackIsNoContext`; `PlayersAssumption`, `BackendAssumption`;
`SessionAssumption`; `StoreAssumption`, `WindowAssumption`, `LimiterAssumption`; `MessagesAssumption`,
`BoundsAssumption`, `PromotionsAssumption`; `NetworkAssumption`; `BootAssumption` with the `StoreAssumption` of
`SettingsStore`; `ControlAssumption`, `InputAssumption`; `CacheAssumption`). They say only that special values differ from proper ones,
that sets of inputs are sets of inputs and that limits are numbers, positive where the code needs it; TLC evaluates them in every run.

**`MediaServiceProofs`.** The properties are not inductive. `IInv` adds what ties the tasks to the intent:
a cancelled worker never has the current generation, the referenced one works for the current context, a
live grace timer waits for the current intent, which then has no source, and once visuals are published
under the current generation its worker has ended. From it follow

* `TypeCorrect`: types, with the identification of tracks (`TrackKeyType`: every snapshot that says
  anything has a key);
* `IntentsAreSafe`, with `VisualsAreCurrent` (`PromotedVisualIsCurrent`) and `SourcesAreWorkedOn`
  (`PendingIntentIsWorkedOn`) as consequences; `ContextFollowsUrl`, that the intent's context is the
  reported URL's, is proved only;
* `VisualsAreAtomic`: the service implements `VisualIntents`, by the refinement mapping that forgets all
  tasks;
* `FallbackNeedsEvidence` and `MailboxIsNewest`;
* `LyricsAreOfTheTrack` (`LyricsBelongToTrack`): a document is of the track that lyrics were last begun for
  (`DocumentBelongs`), which is the track of the artwork intent (`TracksAgree`, part of `IInv`);
* `KeysFitMetadata` (`TrackKeyFitsMetadata`), with what `_track_key_for` remembers (`KeyIsRemembered`): what a
  track is known by always includes what its key says, through every branch of the function.

**`HostProofs`**, first `MprisBackend`, for any number of players and all delays: `OutagesAreBridged` (`OutageIsBridged`),
because an outage is never older than the time since a poll last succeeded, and `PlayingPlayersStay`
(`PlayingStays`), because the players left to be refreshed are clients and `select_active_player` is loyal
to the playing one it is given. `BackendTypes` is the type invariant.

Then `ArtworkCache`, for any number of sources, covers and cancelled calls. `CacheInv` says that no cover is in
two files (`Distinct`, through removals, uses and evictions: `RemovedOne`, `AppendedOne`, `KeptLast`), that only
covers which are there are corrupt, and that a thread has a cover in every step that needs one (`HasCover`),
whatever the other threads do meanwhile; `CacheTypes` follows. `HealedForGood`: from a state that is
`Undisturbed` (no fault to come, no stray, nothing corrupt, no excess, no call) every cover that `resolve()`
returns is there, for good. `HealInv` carries it: a call that has written its cover and not yet evicted may have
made the cache too full by one, and then its own cover is the newest, so that eviction takes another
(`StaysWhenEvicting`). This is the safety part of `ServedInTheEnd`; that a disturbed cache gets to such a state
is liveness.

**`DisplayArtworkProofs`.** Who owns a cover changes hands between two cores, and `IInv` says whose it is:
`HandoverInv` that a success is with exactly one of task, result queue and application, and that the
published visual stays the task's request until it is acknowledged; `OwnershipInv` that what the display
holds is protected, spared by a pruning under way (which has looked at the protection before), and whole,
whereas the file the task writes is not whole until its rename. The point of the argument is
`SetArtworkOwns`: the display only ever comes to hold the cover of a success it takes from the queue; there
is none while the task may remove files, so the protection read before pruning stays good enough.
From it follow

* `TypeCorrect`;
* `CoversInUseStay` (`OwnedFilesStay`) and `CoversInUseAreSpared` (`OwnedIsSpared`, proved only);
* `ResultsAreDelivered` (`NoResultIsLost`);
* `StagedIsPending` (`StagedBelongsToPending`), which is inductive by itself;
* `OnlyCommittedShows` (`OnlyCommittedIsPainted`), without assumptions on the tracks. `ShownIsCommitted` says
  that the region shows the committed visual or the clock at every step, unless a redraw is due: whoever changes the
  committed visual draws it or may not draw, and whoever uncovers the region asks for a redraw. `NothingDue` says
  that none is due when the loop has drawn. That a committed cover can be drawn is `OwnedFilesStay`.

**`DevicePairingProofs`**, for any number of devices, codes and tokens and all time limits. An approved row
of the host's table is the only way by which a token reaches a device. `PairingInv` says that the token in such a
row is the one the host accepts for the device (or was revoked), was issued for the row's code and has not
been handed out (`RowsAreIssued`), and that a device with a token has no row and asks for none
(`PairedAsksNoMore`): so no late approval can replace a token in use. From it follow `TokensAreKept`
(`KeptTokenIsAccepted`), `TokensFitCodes` (`TokenFitsCode`) and `CodesAreUnambiguous`
(`ApprovalIsUnambiguous`); the last needs only the types (`PairingTypes`).

The same module has the limiter, for every limit, window and number of identities. What it counts for an
identity is the end of the list of calls it allowed (`LimiterInv`), and all of that list while no identity has to make
room. So `AtMostLimit` (`NeverMoreThanLimit`) is the bound on what it counts. A refusal means that it counts
`Limit` calls, the first no older than the window; the gaps after that call add up to its age (`GapsAddUp`), so
one of them is short: `RefusedOnlyIfClose` (`SpacedIsAllowed`). The lemmas before them say what dropping
the old ones off the front of a list does (`DroppedEnds`, `DroppedTwice`). Induction over a list is replaced by
a least counterexample (`Least`), whose existence follows from the library's theorem on well-founded relations.
`LimiterTypes` has the bound on the identities: the order of the last calls is total (`SinceInv`), so among the
identities that stay when room is made there is one before all others, and its successors are fewer than
the limit (`RoomIsMade`). The history is ordered by age (`OldestFirst`), so cutting its front off bounds all of it.

**`DeviceSessionProofs`**, for any number of remembered results, malformed messages and requests. What waits
in the subscriber queue is the newest state (`QueueIsNewest`), hence `StatesGoForward`
(`StatesNeverGoBack`). A request whose command is under way is not among the remembered ones
(`UnderwayIsNew`), because the handler reads no message meanwhile; hence `PromiseIsKept`: the session
implements `CommandOnce`, by the mapping that forgets everything but the results and the last answer, and these
too once the session has ended. `SessionTypes` is the type invariant. `NothingIsMissed`
(`ShownOrWaiting`) is the safety part of `SessionCatchesUp`: once the first state has gone
out, the device has been shown the newest one or that one waits in the queue.

**`DeviceProofs`**, first `NetworkManager`, for all time limits and lengths of the notice queue: `MachineKnowsSocket`
(`SocketMatchesMachine`). It rests on lemmas about the table of edges (`Deterministic`: at most one for a
state and an event) and on `PlaceInv`, which states the machine may be in at each place of the task; off
Wi-Fi the machine still is in a session's states until the loop's next turn. `ViewIsCurrent` (`ViewCatchesUp`): a
full queue loses its oldest notice, so the newest one waiting is always the machine's state. `NetworkTypes` is the
type invariant; a delay never exceeds its maximum, though it is a power of two with something random added,
because it is cut off before and after that (`DelaysBounded`).

**`DeviceBootProofs`**, for all networks, tokens, displays and flash contents. One fact carries the module:
what the call that holds the store's mutex has written so far stands (`Written`), because nobody else writes
meanwhile; power may go at each of these points. Who may be in which call comes second, and how far a migration is when
the schema number is there comes third. From them follow `BootTypes`, `CredentialsAreWhole`
(`CommittedCredentialIsWhole`), `RestartFindsSettings` (`RestartKeepsSettings`) and `UpgradeFindsNetwork`
(`UpgradeKeepsNetwork`).

**`ControlsProofs`**, for all lengths of queues, times and users and any number of connections. `RemoteControl`:
the numbers of the presses grow along each connection's frames, from one connection to the next, and on to the
command queue and the last accepted press (`QueuesRise`); what is executed is older than all that is in the
queue or under way on its connection or a later one (`DoneIsPast`), and none that is under way has been given up (`GivenUpIsGone`). Together they
are `OrderInv`, and give `PressesInOrder` (`InOrderAndOnce`) and `UnsentStaysUnsent` (`UnsentIsNotExecuted`). `InputControls`: a press of the knob is spent with its gesture and comes
after those before it (`OnceInv`), and a button of the chord that was let go stays up for the debounce time
(`ChordInv`): `ResetIsMeant` (`ResetIsDeliberate`). `ControlTypes` and `InputTypes` are the type
invariants.

**The parts together.** `HostParts` and `DeviceParts` prove that a behaviour of `MCHost` or `MCDevice` is a
behaviour of every part, in refinement's simplest form: each step is a step of one part and leaves the variables
of the others alone. So what is proved of a part holds in the runs' specifications: `HostTypes` (`HostTypeOK`)
and `DeviceTypes` (`DeviceTypeOK`) join the type invariants, `HostIsSafe` and `DeviceIsSafe` everything that the
runs `host_safe` and `device_safe` check.

**Only model-checked:** the liveness properties, which the prover cannot treat (`VisualSettles`,
`DisplaySettles`, `DisplayReconciles`, `SecondIsShown`, `SessionCatchesUp`, `PairsInTheEnd`, `ServedInTheEnd`,
`ConnectsInTheEnd`). Every invariant and action property of the passing runs, and both refinements, are proved.

## 5. What is not modelled

* `MediaService`: `start`, `stop` (a snapshot that comes while `stop` awaits its tasks starts new ones,
  `media.py:76`; the process ends next), the time limit of commands.
* `MprisBackend`: `start`, `stop`, and what a snapshot contains besides player and status. Choosing among
  metadata of a player is `MediaService`'s input.
* `ArtworkCache`: rendering, palettes, checks of URLs, the limit of 2048 mappings.
* `LyricsCache`: a lookup is a call that yields a document; the choice of the line is a function of one
  document and one time.
* The server: artwork, player and health endpoints (they read other components' state), payload encoding
  and its limits. `DeviceStore`: `touch`, `list_devices`, the limit on open requests, a clock set back.
* `ArtworkManager`: mounting and formatting of the partition, its capacity, and a failing `remove` while
  pruning (the file is then tried again at the next pruning).
* `UiController`: drawing, theme interpolation, the lyrics card, title scroll, the contents of settings and
  device pages; the boot screen (the first 0.9 s, in which `tick` does nothing) and the page of the factory
  reset chord, which covers the region but lets a transition go on; and that the first snapshot by itself
  ends the connection screen while the host is being looked for. A palette belongs to its cover, since the
  host derives it from the same bytes.
* `NetworkManager`: heartbeat, clock messages. `SettingsStore`: waiting for the mutex for more than a second.
* Input: the encoder's decoder (a turn comes at any time) and the touch panel of the D0WD board.
* Progress and wall clock, protocol validation of one message's fields: functions without state of their own
  that interact with nothing.
* Colours, display driver, status light, command line, configuration, announcement: output or parsing
  without state of their own.

## 6. What is left

1. A composition of `DeviceSession` with `RemoteControl`, so that repeated commands and optimistic display
   meet in one model.
2. The touch panel, whose hold and swipe may both be reported for one gesture; the lyrics cache.
