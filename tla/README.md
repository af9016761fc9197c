# AVA for Asterisk: a TLA+ model of the call engine

AVA (*Asterisk AI Voice Agent*) is a Python asyncio program that answers and
places telephone calls. Asterisk hands it channels over ARI (a WebSocket of
events, HTTP requests the other way), audio arrives over RTP or AudioSocket, a
speech provider or a pipeline of STT, LLM and TTS produces the replies, and the
engine plays them, transfers calls and runs outbound campaigns. This directory
models the parts in which several tasks, timers, events and processes meet. Source paths are
relative to the repository; `engine.py`, `core/...` are under `src/src/`.

## 1. Inventory

| Component | State | Operations | Meets | Hard because | Must hold | Module |
|---|---|---|---|---|---|---|
| `SessionStore` (core/session_store.py), `CallSession` (core/models.py) | sessions by call id, playback references, TTS tokens, counter and flags | upsert, lookup, set/clear gating token, add/pop playback, remove | everyone: each holder shares the same mutable object | objects fetched before an await and saved after it | flags, counter and tokens agree; an ended call is gone | `TtsGating` |
| `ConversationCoordinator` (core/conversation_coordinator.py) | gated calls, capture-enabled calls, fallback tasks | on_tts_start/end, sync, register/unregister | session store, metrics | its gauges copy flags written elsewhere | gauges agree with sessions | `TtsGating` |
| `PlaybackManager` (core/playback_manager.py) | one task per playback, gating fallback timers | play_audio, on_playback_finished, fallback task | ARI, coordinator | lost answers and events, timers racing events, cancellation | every token has a releaser; nobody muted for good | `TtsGating` |
| Barge-in (engine.py:5362, 7700-7893, 8745) | none of its own | stop the playbacks, release the tokens, save the session | ARI, store, coordinator, provider | several at once, awaits between listing and releasing | only what was stopped is released | `TtsGating`, `StreamingPlayback` |
| Outbound store (core/outbound_store.py) | SQLite campaigns, leads, attempts | lease, mark, create, finish, set state, recycle, ignore, cancel, import, delete | engine, Admin UI process | two processes, unconditional writes, survives restarts | a lead is dialled once | `OutboundDialer` |
| Outbound scheduler and watchdog (engine.py:1155-1680) | attempt and channel metadata, AMD-awaiting set | pace, lease, originate, complete a campaign, end stale attempts | store, ARI, session store | tables that change at different awaits, requests that time out | never over max_concurrent; every attempt ends | `OutboundDialer` |
| Outbound handlers (engine.py:1682-2020, 5940-6058) | the same metadata, the call's session | answered, AMD result, channel destroyed, history | store, ARI, cleanup | events lost, or overtaking the originate answer | lead and attempt settle together | `OutboundDialer` |
| Call lifecycle (engine.py:2373-3438, 5159-5938, 2022-2106) | bridges, channels, cleanup guards | StasisStart of the caller and of helper channels, StasisEnd, ChannelDestroyed, `_cleanup_call` | all of the above | cleanup triggered by several events, set-up and provider start still under way | cleaned up once, nothing left behind | `CallLifecycle` |
| `StreamingPlaybackManager` (core/streaming_playback_manager.py) | active streams per call, jitter buffer, keepalive and pacer tasks | start, stream loop, fallback, stop, segment gating, cleanup | coordinator, RTP, PlaybackManager | a newer stream registered while an older one is cleaned up | one stream, its token and its tasks end together | `StreamingPlayback` |
| Attended transfer (tools/telephony/attended_transfer.py, cancel_transfer.py, engine.py:3806-5015) | `current_action`, agent channel, bridges, helper media | originate, announce, DTMF decision, timeout, cancel, complete | ARI, gate, cleanup | decision, timeout, hang-up and cancel race | the caller is with the AI or with the agent, never with nobody | `AttendedTransfer` |
| Pipeline runner (engine.py, `_pipeline_runner`) | transcript queue, pending segments, flush timer, turns | greet, recognise, accumulate, take a turn, call tools, hang up | adapters, player, cleanup | the worker and the timer's turns share the pending segments | what the caller says is answered once | `PipelineDialog` |
| RTP server (rtp_server.py) | ports, sessions, receive loops, SSRC map, outbound sequence | allocate, bind, receive, send, clean up, stop | call lifecycle | port reuse while a loop still delivers | a port serves one call | `RtpServer` |
| AudioSocket server (audio/audiosocket_server.py, engine's handlers) | connections, UUID binding, tables of the engine | accept, bind, frame, disconnect | call lifecycle | late or duplicate connections | a connection serves one call, the session writes to the newest | `AudioSocket` |
| OpenAI Realtime provider (providers/openai_realtime.py) | socket, receive loop, response, burst, farewell | start, events, tools, farewell, reconnect, stop | engine's provider events | events, timers, tools and reconnection meet in one session | each burst closed, a goodbye ends the call | `OpenAIRealtime` |
| Local provider (providers/local.py) | socket, receive and send loops, background task, LLM texts waiting for the tool gateway, burst, hang-up fallback | start, reconnect, authenticate, greet, receive, act on texts, end a burst, stop | local AI server, engine's provider events | four tasks reconnect at once; an answer races its time-out | the server is heard again, a text is acted upon once, a goodbye ends the call | `LocalProvider` |
| Google Live provider (providers/google_live.py) | socket, receive loop, burst, armed hang-up, watchdog | start, turns, tools, arm and disarm, watchdog, disconnect, stop | Gemini Live, engine's provider events, session store | the goodbye is guessed, taken back, or never spoken | a goodbye ends the call, a caller who goes on is spared | `GoogleLive` |
| Local AI server (local_ai_server/server.py, ws_protocol.py, session.py) | one session per connection: recogniser, idle finalizers, chat history; models, one LLM and its lock | take a message, feed audio, promote a transcript, infer, speak, reload | local provider and adapters over a WebSocket, threads that nothing stops | sessions share the LLM; a turn, a timer and a reload meet | one inference at a time, every turn is answered, no session is stuck | `LocalAiServer` |
| Other full-agent providers (providers/deepgram.py, elevenlabs_agent.py) | sockets, queues | send, receive | engine | external services | - | not modelled; the engine's side of their events is in `StreamingPlayback` and `CallLifecycle` |
| ARI client (ari_client.py) | socket, reconnect back-off, handlers | connect, listen, dispatch, request | Asterisk | one task per event; a drop loses events | - | its contract (overlapping handlers, lost events, unanswered requests) is part of every module |
| Call history (core/call_history.py) | SQLite records | save, query | cleanup, dialer | may be off or fail | - | its outcome only, in `OutboundDialer` |
| Pipeline orchestrator and adapters (pipelines/*) | component registry | resolve, open, run, cancel | runner, services | external services | - | their calls are steps of `PipelineDialog`; resolution and codecs are not modelled |
| VAD, audio gating, adaptive streaming (core/vad_manager.py, audio_gating_manager.py, adaptive_streaming.py) | numeric windows and thresholds | classify a frame | engine | - | - | not modelled: their verdicts are nondeterministic inputs |
| Tools, MCP (tools/*, mcp/*) | registry, subprocesses | execute a call | providers, engine | external services | - | the transfer and hang-up tools as far as they touch the call; the rest is input |
| Transport orchestrator, configuration, logging | configuration | resolve, parse | engine | - | - | not modelled: pure functions of configuration |
| Admin UI, updater, CLI | other processes | - | SQLite, files | - | - | only the Admin UI's campaign and lead operations |

## 2. How the project is laid out

One module per component; what a component sees of its neighbours is a
variable or a nondeterministic action of its own module. `TtsGating`
implements `HalfDuplexGate` by a refinement. Some MC modules put several
specifications side by side, and a behaviour picks one of them in its first state:
`RtpServer` or `AudioSocket` in `MCMediaTransport` (`config.audio_transport`), one of
the providers in `MCProviders`, a call or a campaign in `MCCallLifecycle`, the
pipeline's dialog or the local AI server in `MCPipelineDialog`. The others stay as they begin, and the fairness
of each is stated only for the behaviours that picked it. The proofs of a component are in its
`...Proofs` module, the instances for TLC in its `MC...` module. `MediaTransportProofs`,
`ProvidersProofs` and `DialogProofs` extend the MC module that puts their components side by
side, for its instances and their names (`AS!Spec`, `LP!Spec`, ...); what they prove is
about each component's own `Spec`, for all values of its constants.

| Order | Module | Composes or implements | Proofs |
|---|---|---|---|
| 1 | `HalfDuplexGate`, `TtsGating` | `TtsGating` implements `HalfDuplexGate` | `TtsGatingProofs` |
| 2 | `OutboundDialer` | engine and Admin UI on one database | `OutboundDialerProofs` |
| 3 | `CallLifecycle` | handlers, provider start, transfer tool and cleanup of a call | `CallLifecycleProofs` |
| 4 | `StreamingPlayback` | provider or pipeline, streams, barge-ins, cleanup | `StreamingPlaybackProofs` |
| 5 | `PipelineDialog` | recogniser, worker, flush timer, turns | `DialogProofs` |
| 6 | `AttendedTransfer` | tools, guard, agent's handler, cleanup | `AttendedTransferProofs` |
| 7 | `RtpServer`, `AudioSocket` | `MCMediaTransport` | `MediaTransportProofs` |
| 8 | `OpenAIRealtime`, `LocalProvider`, `GoogleLive` | provider and service; `MCProviders` | `ProvidersProofs` |
| 9 | `LocalAiServer` | sessions, timers, threads and reloads on one LLM | `DialogProofs` |

Every module reads the code the same way. The engine is one asyncio event
loop: a coroutine gives way only at an `await` that really suspends (an ARI
or network request, a sleep, a queue that is full or empty, a thread), so an
action is what runs between two of them, every call included. Locks that are
never held over a suspension disappear. An answer or event of Asterisk or of a
service is an action of the environment, and whatever the code cannot exclude
may happen: refused requests, lost answers, events in any order. Some modules
carry *history* variables that no action reads (except to record): they name
the situations in which a claim is not made, and each is explained with its
property.

## 3. The gate: `HalfDuplexGate`, `TtsGating`

While the assistant speaks the caller is not captured, or the assistant would
hear itself. `HalfDuplexGate` says only that: a call is new, live or over,
playbacks of a live call start and end speaking, and the gate is open exactly
while none speaks.

`TtsGating` is the code. `session[c]` is the `CallSession` object, one shared
by whoever fetched it, stored or not; `stored` is the store's index;
`refs` its playback references; `gated` and `captured` the coordinator's
gauges; `play[p]` the `play_audio` coroutine of a playback, `fallback` the
pending timers, `barge[b]` a run of `_apply_barge_in_action`; `ari` and
`events` are Asterisk and the event socket; `phase[c]` follows
`_cleanup_call`.

**Atomicity.** One event loop; a coroutine gives way only where it awaits
something that suspends. The store's lock is never held over a suspension, so
acquiring it never suspends and store and coordinator calls are atomic. What
suspends is ARI requests, timers and teardown. `PlayAudio` is the
code up to the request, `PlayStarted` and `PlayFailed` what follows its answer;
`BargeIn` the code up to the first stop request, one `BargeStop` per
playback, `BargeFinish` the rest, acting on the object fetched at the
start. Each ARI event is a task of its own (ari_client.py:124-213), so
barge-ins overlap, and a drop of the socket loses what was under way
(`EventsLost`).

**Failures.** Request refused, or its answer lost while Asterisk plays
(`PlayFailed` in any state of `ari[p]`); stop request without effect; events
lost; the fallback timer before, after or instead of PlaybackFinished;
cancellation of `play_audio` by the cleanup (`CleanupCancel`), where
CancelledError passes by the clean-up code.

**Left out.** Streaming playback's tokens (`StreamingPlayback`); the attended
transfer's direct writes of `audio_capture_enabled` (`AttendedTransfer`);
`conversation_state`; the barge-in cool-down
and energy thresholds (a barge-in may come at any moment its guard on the
session admits); the VAD's mirror flags; `schedule_capture_fallback` and
`cleanup_expired_sessions`, which have no callers. A playback identifier is
generated once. A cleanup that raises half-way belongs to `CallLifecycle`.

Properties:

* `GateFollowsTokens`: counter, `tts_playing`, capture flag and token set agree.
* `GaugesFollowSessions`: the coordinator agrees with the sessions (proved only, §13).
* `TokenHasReleaser`: while the engine serves a call and has not cancelled its
  tasks, each token has a live `play_audio` or a pending timer.
* `TokensWithdrawnByOwner` (action): the end of one playback never opens the gate
  for another that still speaks.
* `GateSafety`: refinement of the abstract gate.
* `GateReopens` (liveness): nobody is muted for good, even if PlaybackFinished
  never comes.

`GateFollowsTokens` and the refinement speak of *served* calls
(registered, not yet removed). After removal the shared object lives on in
whoever holds it, and only counter and flag are claimed of it.

**Fairness.** Weak, on an answered-or-failed request (the HTTP client has a
timeout), on timers, on a barge-in that has started and on a cleanup that has
started. Nothing is assumed of Asterisk, event delivery, callers or providers.
That is the point of `GateReopens`.

## 4. The dialer: `OutboundDialer`

`status`, `lead`, `attempt` are the three tables of the SQLite store. `sched`
is where the one scheduler task stands, with its local variables; the watchdog
runs in the same task, so the two never overlap: what races with it are the
handlers, because it works on a copy of the metadata (`metas`), and its dialling half on
a capacity computed before the lease transaction (`SchedCount`). `meta`, `channels`, `awaiting`
are the engine's dictionaries; `meta[a] = "ghost"` is the entry the
originate answer creates under metadata a handler has already dropped.
`handler`, `destroyer`, `session` are the handler tasks of a channel and its
call; `chan` and `inbox` are Asterisk and its events.

**Atomicity.** A store method runs in a worker thread and is one transaction;
the coroutine suspends at each. An action is the code between two such
awaits with the store call or ARI request that ends it. The Admin UI is
another process on the same file: `SetStatus`, `cancel_lead`, `ignore_lead`,
`recycle_lead`, `import_leads_csv`, `delete_lead` happen between any two actions.

**Scenarios.** A behaviour draws one of the constant `Scenarios` in `Init` and
keeps it: the `max_concurrent` of each campaign, what users do, what fails
(`"ari"`, a request is not answered, or raises; `"events"`, lost events;
`"history"`, history off or not saved) and, as bounds, the rows of the table of
leads at first and the restarts. A restart empties the engine's variables and runs
`cleanup_stale_attempts_and_leads` on whichever open attempts are old enough.

**Time.** A lease may have expired whenever the lead is still leased. An
attempt is old enough for the watchdog (90 s) unless the code's own time-outs
exclude it: Asterisk stops ringing after 60 s and the answer handler takes
seconds. Calling windows and the pause between calls only delay. `SchedFull`
also covers a turn for which the instance has no attempt identifier left (bound).

**Left out.** Store writes that fail; draft and archived campaigns, editing,
cloning and deleting them; outcomes, attempt counters and last-outcome columns;
the short time before a session is tagged with its attempt; a continue request
whose answer alone is lost. Instances have one campaign: the scheduler treats
campaigns one after the other and they share no row.

Properties:

* `OpenAttemptTracked`: in the engine that opened it, an attempt is open only
  while the scheduler holds it or the metadata the watchdog reads has it.
* `CallsWithinLimit`: from the dial to the removal of the session, never more
  calls than `max_concurrent`.
* `LeadDialledOnce`: whatever happens to lease, cancellation, request or
  engine, a lead is not dialled twice unless a user recycles it.
* `CompletesWhenQuiet` (action): a campaign is completed only when no call it
  follows is under way, though the look and the write are three awaits apart. A
  call whose originate request went unanswered, or made by an earlier engine, is not followed.
* `SlotFreed`, `DialingEnds` (liveness): every slot is given back or holds a
  conversation, and no lead stays dialing.

`OpenAttemptTracked` is claimed for the engine that created the attempt
(`restarts = 0`): a restarted engine does not follow earlier attempts (below).
`CallsWithinLimit` is claimed for it too, when requests are answered: a call made
by an earlier engine, or by Asterisk although the request went unanswered, is in
neither of the two tables calls are counted from. `LeadDialledOnce` is claimed
through restarts, until a user recycles.

**Fairness.** Weak on a turn the scheduler has begun and on a handler that has
begun. Strong on the watchdog's look at each attempt (it is disabled while
the scheduler is elsewhere, and each turn of the loop looks at all attempts) and on
a probe of the watchdog that is answered (not every request fails).
Asterisk stops ringing after 60 s and its AMD context ends. The user, the
callee's hang-up and the scheduler's choice of a campaign get none.


## 5. The call: `CallLifecycle`

One call from StasisStart to the removal of its session. `chan`, `bridge`,
`media` are Asterisk's channel of the caller, mixing bridge and media channel
(ExternalMedia or AudioSocket); `inbox` the events not yet handled; `stored`
and `sess` the session and the object all holders share; `setup` and `mediah`
the handlers of the two StasisStart events; `task`, `starter[s]`, `provider`,
`live` the start task of the provider, the coroutine that runs it, the
instance the engine keeps and the instances whose session is open; `xfer` the
transfer to the dialplan; `cleanup` the step at which `_cleanup_call` stands.
Calls share nothing but dictionaries keyed by the call, so the module has one.

Its setup (`SetupVars` to `SetupAttached`), with the retry loop of the media
attach, follows engine.py:2373-3438; the start of a provider runs at the same
time and goes on after the call is over; `BeginCleanup` is the part of
`_cleanup_call` under its two guards (in progress, completed less than 900 s
ago), and the steps after it are separated by the requests they wait for.
`CallerReturns` is a caller whose dialplan sends him back into Stasis.

**Failures.** Requests refused at every step of the set-up, the media attach
and the provider's start; cleanup requests that Asterisk does not carry out
(`refused`); the caller or the media channel lost at any moment; StasisEnd and
ChannelDestroyed in either order, or both late.

**Left out.** What a pipeline adds (`PipelineDialog`), playbacks
(`TtsGating`, `StreamingPlayback`), RTP ports as numbers (`RtpServer`).
`stop()` of the whole engine calls the same cleanup for each session.

Properties:

* `CleanedOnce`: a call is cleaned up at most once per visit, whichever of its
  end events come, in any order, and whoever stores its session again.
* `SingleProvider`: while a call goes on, its open provider session is the
  registered one, and the only one: set-up, the media handler, retries and audio frames
  never open two.
* `NothingLeftBehind`: when a call that was completely set up is over, its
  bridge, media channel, RTP session, provider and table entries are gone.
* `TransferSurvivesCleanup` (action): a cleanup that began after the transfer
  sent the caller to the dialplan does not hang him up.
* `EndedCallForgotten` (liveness): a settled call whose end is announced is
  forgotten, on its channel's first visit.

`settled` records whether nothing of the construction was half-way when the call
began to end. The two properties that need it are false without it: a set-up
that goes on after the cleanup creates things nobody removes, and
the divergences below say what.

**Fairness.** Weak on the set-up, the cleanup and the handlers of the caller's end
events (requests have time-outs, and the event loop runs what is ready). None on the
caller, the media channel, the provider's service, the transfer tool or audio.

## 6. The streams: `StreamingPlayback`

One call's audio queues and `StreamingPlaybackManager`'s streams. `q[r]` is
the queue stream `r` reads, `cur` the one the engine adds to, `entry` the entry
of `active_streams`, `jb[r]` the jitter buffer, `prod[r]` and `pacer[r]` the two
tasks of a stream, `keepalive` the keepalive task, `tokens` the streams' gating
tokens, `stopper[b]` the callers of `stop_streaming_playback` (barge-ins, the
pipeline worker, the end of the call), `cleaning` who is in
`_cleanup_stream`, which identifies a stream by its call and not by its
identity. `mode` is the configured one: a stream per call ("continuous"), per
reply ("segment") or the pipeline's.

**Failures.** With `MayFail` a frame cannot be sent: the pacer ends, the
stream falls back to file playback or gives up. Time-outs of the stream's read,
of the drain at its end and of the keepalive may come whenever the code's
clock allows them.

**Left out.** Sample rates, formats, frame sizes, provider grace windows,
diagnostic taps and adaptive jitter: they change bytes, never which tasks run.
A chunk is longer than the start-up threshold (the opposite only delays).

Properties:

* `QueueReadByOne`: two streams of a call never read at once, so they do not talk
  over each other (`OneReader`), and the queue a continuous stream's chunks are put
  into is the one its producer reads, or a barge-in is about to drop it (`QueueHasReader`).
* `TokenHasReleaser`: a token is held by a stream whose producer has not ended, or is
  being cleaned up: the caller is not muted for good.
* `NothingPlaysAfterCall`: nothing of a call that is over is read or played.
* `RepliesPlayed`: a stream that ends by itself has played, or handed to a file,
  all it was given (`PlayedOut`, an action property), and a reply whose end was
  announced is played and its stream deregistered, as long as the transport works
  (`EndedStreamForgotten`, liveness).

`odd` names the cases the code does not handle and the properties exclude:
two clean-ups of a call that overlap (*overlapped*), a stop that waits for a
producer that already cleans up (*joined*), a producer cancelled within its
clean-up (*aborted*), audio that arrives after the end of the stream was seen
(*late*). `failed` names the streams whose transport failed.

**Fairness.** Weak on each producer, pacer, stop and barge-in that has begun, on the
pipeline's reply once it is synthesised and on the cleanup: tasks that run whenever
they are ready. None on the provider, the beginning of a barge-in, or failure.

## 7. The dialog: `PipelineDialog`

`_pipeline_runner` of a call. Transcripts are numbered as they are heard and
have a kind: *short* and *long* (one word, or at least
`aggregation_min_words`), *bye* (the caller's wish to hang up) and *blank*.
`tq` is the transcript queue, `pending` the segments accumulated, `worker` the dialog worker,
`flush` the timer, `turns` the turns with the step each has reached. A turn
is a coroutine of the worker or of a flush task; the two share `pending`,
and nothing keeps the worker from taking a transcript during a flush task's turn.

**Failures.** A turn's LLM or TTS fails, the stream of the recogniser ends or
is refused, the call ends at any moment (`RunnerCancelled`), which cancels the
worker but not a flush task's turn.

Properties:

* `AnsweredOnce`: no transcript is in two turns.
* `SpeechAnswered` (liveness): what the caller says is answered, unless the full
  queue lost it, it was blank, or the dialog ended (or the instance's last turn is used).

`raced` is set when the worker took a transcript during a flush task's turn:
`flush_task` is cleared before that turn and `pending` after it, so a
transcript heard in between is answered twice or lost. The properties do not
claim that case, and fail without the exclusion (§14).

**Fairness.** Weak on the worker, the flush timer and each turn's steps (every
call of an adapter has a time-out). None on the caller and on failures.

## 8. The transfer: `AttendedTransfer`

A caller, the AI and the agent's legs. `action` is `session.current_action`,
shared by everything: the tool or the screening task (`flow`), the agent's
channel (`leg`) and its handler (`h`: announcement, wait for a digit,
decision, abort, resume, finalize, bridge), the time-out guards (`guard`,
`giving`), `cancel_transfer` (`cancel`), the cleanup. `moh`, `capture`, `ai`
say what the caller hears and whether the AI hears him.

**The cleanup** (engine.py:5492-5938) is seven steps, `cleanup` being the last
one done, and everything else goes on between them. It begins with the end of
the caller or of a mapped leg (`CallerEnded`, `LegEnded`), cancels the tasks of the
call, which are the guards and the screening task (`CleanupCancels`), stops the
provider (`CleanupStops`), destroys the bridge and reads the action's leg (`CleanupReads`,
kept in `read`), hangs up that leg (`CleanupReleases`) and the caller's channel
(`CleanupFrees`), and at last removes the session and the mappings (`CleanupRemoves`).
A handler that answers after `CleanupReads` still finds session and action. A tool
that the provider was running may die with it at any point (`ToolsDie`).

**Failures.** The originate request is refused or unanswered; the agent
answers late, hangs up, never presses a digit; the helper media cannot be started;
the caller hangs up at any step. Asterisk refuses to put the agent into the bridge:
`add_channel_to_bridge` returns False for that and for a request that fails, it never
raises, and `_attended_transfer_finalize_bridge` does not look at the result
(engine.py:4987). So `Bridges` has no way to abort: the action says accepted, with the agent
in the bridge or not (*refused*).

Properties:

* `CallerResumed`: whenever no transfer is on, whatever is still under way, a caller
  who is with the AI is not on hold, nor unheard.
* `AgentReleased`: when the cleanup is over no helper media is left behind, and an agent
  who is still on the line is one whose answer has not been handled yet.
* `GivenUpHarmless` (action): the end of a leg that is not the transfer's (any more),
  or that its guard is giving up, is not the call's end.
* `TransferDecided` (liveness): a transfer is accepted and joined, given up or cancelled, or
  the call ends; excepted is the agent whom the bridge refused.
* `AcceptedIsBridged`, `OtherLegCleanedUp`: what is promised of an accepted agent, and of
  the agent's leg of an ended call. The code breaks both, so no run checks them (§14).

`odd` records what the properties except. *double*: overlapping requests. A second
request overwrites the action of the first, and everything that reads it afterwards
works on the wrong leg. *crossed*: a cancellation or guard is half-done
when the next step of the transfer, or the next request, comes. *deaf*: the hold began while
the AI spoke. *late*: after the cleanup has read the action an agent's answer was handled or
helper media started, or a request was made after it had cancelled the call's tasks. *refused*: see above.

Behaviours are followed up to the first *double*, *crossed* or *late* and no further
(`Timely`, the CONSTRAINT of `transfer_calls`); the other marks are not cut off, and the properties
name those they except. Cutting at *late* hides nothing that is claimed. `CallerResumed` and
`AgentReleased` except it; the cleanup has begun by then, so no end of a leg can begin one,
which is all that `GivenUpHarmless` forbids; and its steps are fair, so it ends, which decides every
transfer.

**Atomicity.** One step are: the destruction of the bridge, the reading of the action and
the release of its helper media; an agent may join right up to that step, and is
refused after it. `CleanupFrees` stands for all
the caller's channels, `CleanupRemoves` for the removal of session, mappings and digit
waiters. A cleanup that raises is not modelled.

**Fairness.** Weak on the flow of a request, on the handlers of events, on the
guard and on the cleanup: sleeps, bounded waits and requests with time-outs. None on
the agent, the caller, the AI's speech, `cancel_transfer`'s beginning or a tool's death; no
weak fairness is assumed of a digit.

## 9. The media servers: `RtpServer`, `AudioSocket`

`RtpServer` is rtp_server.py: `port_allocation`, `sessions`, `session_tasks`
and `ssrc_to_call_id` are its dictionaries; `phase[p]` and `receiver[p]` are the
session and the receive loop of port `p`; `remote`, `connected`, `ssrc` what it
has learnt of the far end; `sequence`, `seeded`, `last` its outbound sequence. A
sequence number is modulo `SeqMod`. A session is named by its port, which it
holds until its clean-up ends. Failures: bind refused, a port that stays
reserved, socket errors, a loop cancelled while it delivers to the engine.

`AudioSocket` is audiosocket_server.py and the engine's callbacks: Asterisk
connects before or after the engine has recorded the UUID it asked for, may
connect twice, and may answer the originate request late. `conn_to_channel`,
`channel_to_conn`, `channel_to_conns`, `primary` are the engine's tables.

Properties:

* `LoopsHoldPorts`: a receive loop that delivers runs on a port
  allocated to the call it delivers to: no call hears another's packets.
* `OutboundContinuous`: a session's outgoing sequence numbers have no gap and no
  repetition, through wrap-around and whatever packets arrive between two sends.
* `ConnectionsAgree`: the engine's tables agree on the connections of each call, and the
  session's field names the newest one while that is bound, until the cleanup of the call is over.
* `EndedCallDisconnected` (liveness): no connection stays bound to a call that is
  over, though one may be bound while its cleanup runs.

**Fairness.** Weak on the end of a clean-up and on a cancelled loop; weak on the
cleanup's steps, on a connection that looks for its UUID or is being closed, and on
Asterisk closing the connections of a channel that ended and the channel of a
connection that was closed. None on the network otherwise.

## 10. The providers: `OpenAIRealtime`, `LocalProvider`, `GoogleLive`

### OpenAI Realtime

A session of providers/openai_realtime.py with the service as its environment,
which makes one response at a time, on request or when the caller spoke.
`websocket`, `open`, `loops` are sockets and receive loops; `retry`, `left` the
reconnection; `current`, `greeting`, `farewell` the response ids the provider
remembers; `burst`, `heard` its idea of the audio under way; `hangup`,
`waiting`, `timer`, `ready` the goodbye; `tool` the function call in
execution. `speaking` is what the engine has been told.

**Failures** (a constant): the socket drops at any moment, the service refuses
a request, a tool raises.

**Left out.** Formats, transcripts, latencies, and the egress pacer (off
unless configured).

* `BurstsClosed`: a burst is closed with its response, and with the session however it
  ends. With the beta API it is not (a divergence, §14).
* `FarewellEnds` (liveness): a goodbye that waits for its audio ends in
  HangupReady, whatever happens to audio, caller, socket and session.

**Fairness.** Weak on the farewell's time-out, on the end of `stop_session` and on the end of a
receive loop whose socket is closed. None on the service, the tools and the
faults, so a response may never come: the time-out must do.

### The local provider

`at[r]` is where the `_reconnect` of each role stands: the starter (which also
reconnects for the greeting), the receive loop, the send loop and the
background task may all be in it at once. A success makes its socket the
provider's, cancels both loops and starts new ones (`LoopsRestart`), and a
cancelled loop takes its own reconnection with it. `text[k]` follows a text of
the server's LLM: sent to the structured tool gateway, whose answer
(`GatewayAnswers`) races the time-out, or parsed locally, with a repair turn
(`Falls`); its result may be the hang-up tool, whose farewell is spoken by the
server or played by Asterisk. `done`, `flagged`, `fallback` and `hung` are that
goodbye on the engine's side (engine.py:9551-9581, 9804).

**Failures**: sockets lost or closed normally, the server stopped and
restarted, connections refused, authentications that fail.

**Left out.** The queue of the send loop, status and barge-in
acknowledgements, formats and prompts.

* `ResultOnce`: a text is acted upon once.
* `Recovers` (liveness): a provider that was connected hears its server again,
  unless the server is down, the call ends or the instance has no sockets left.
* `GoodbyeHangsUp` (liveness): a goodbye the server should speak ends the call even if
  its audio never comes or is cut off.

**Fairness.** Weak on the steps of a reconnection, on the send loop noticing the loss (the
caller's audio keeps coming) and on the engine's fallback timer. Strong on a
connection that succeeds.

### Google Live

`stage`, `link`, `reader` are start, socket and receive loop; `in_audio_burst`,
`has_output` the turn; `armed`, `audio_started`, `emitted` the hang-up the
provider expects, `hangup_after_response` the one a tool asked for,
`hangup_ready_emitted` and `hung_up` what the engine was told and did;
`watchdog` is `_hangup_fallback_watchdog_loop`; `cleanup_after_tts` belongs to
the session. The engine's handlers run in the coroutine that emits the event, with their
delay before a hang-up: `reader` or `watchdog` is then `"done"` or `"ready"`, and
the other one goes on meanwhile.

* `GoodbyeEnds` (liveness): an armed hang-up ends the call, whether the farewell
  is spoken, silent or cut off by the loss of the connection, unless the caller goes on.
  It includes `LostEnds`: a lost connection ends the call.
* `CallerSpared` (action): no hang-up is announced after the caller has gone on.

**Fairness.** Weak on the engine's delays, on the watchdog and on the end of a tool; strong on
the receive loop noticing a lost socket. The watchdog waits for the audio to pause: the model
behind the service does not talk for ever.

**Left out.** Prompts, transcripts, pings, the clocks (a time-out may expire
at any moment), and a session that goes on after its stop (`ConnectionClosed`, §14).

## 11. The local AI server: `LocalAiServer`

A connection of a provider or an adapter is a session: its handler takes one
message after another, and beside it run the idle finalizers the handler has scheduled.
`at[c]` is what each of these coroutines waits for. `idle_task` is the session's
reference to the newest finalizer, `cancelled` the tasks that
CancelledError has yet to wake, `recognizer` what the session's recogniser has heard since
its last final, `last_final_text` and `user` the texts with which a final is compared,
`suppressed` the time after speech in which an echo would be heard. `_handle_final_transcript`
is `Final` (is it reported?), `FinalSent` (reset, history, question to the LLM),
`Continues` with `Answers` or `AsksAgain`, and `Spoken`.

`jobs` are the uses of the LLM in the order in which they asked for its lock. An inference is
a shielded task: a turn that gives up after `llm_infer_timeout_sec` (`TimesOut`)
leaves its job, which keeps the lock until its thread ends. `reload_llm_only` takes the
same lock; `initialize_models` (after `reload_models` or `switch_model`) replaces the
model without it and warms the new one up (`warm`). `models` numbers the models loaded.

**Failures.** Loads fail, an inference takes for ever, a client leaves at any moment, the
recogniser hears nothing, or says the same twice.

**Left out.** What recognisers and prompts do with bytes (a chunk of audio yields a
final, a partial, or nothing), at most one final per chunk, the finals Sherpa and Tone
flush at the end of a turn, `fail_fast`, capabilities, status, authentication and
call-scoped tool policies.

* `OneJob`: two inferences are never in the same model, not even when a turn has given up.
* `TurnsAnswered` (liveness): every turn put to the LLM is answered, by the model or
  by the fallback, however long inferences take.
* `HandlerFree` (liveness): if inferences end, a session comes back to its next message:
  turns, tool decisions and reloads do not wait for each other for ever.

**Fairness.** Weak on the coroutines and on the lock: the event loop runs them, time-outs
expire, loads and syntheses end. None on an inference or a warm-up (`Threads`), for which the code has
no bound; only `HandlerFree` assumes that they end, as its premise.

## 12. The runs

A passing run checks one instance, or one instance each of a few specifications of
which a behaviour picks one (§2); the mutants in `PROJECT.json` show for each
property a plausible bug under which the same run fails.

| Run | cfg | Instance | Shows |
|---|---|---|---|
| `gate` | `TtsGating_replies` | 1 call, 2 playbacks, 1 barge-in | `GateFollowsTokens`, `TokenHasReleaser`, `TokensWithdrawnByOwner`, refinement (`GateSafety`), `GateReopens` |
| `dialer_calls` | `OutboundDialer_calls` | limit 1: 2 leads, 2 attempts, lost events, history off, cancel, recycle, delete; or limit 2: 1 lead, 2 attempts, 1 restart, every fault, users who pause, cancel, ignore and delete; or limit 1: 2 leads imported and deleted | `CallsWithinLimit` (of use in the first), `LeadDialledOnce` (in the second), `OpenAttemptTracked`, `CompletesWhenQuiet` |
| `call_ends` | `CallLifecycle_ends` | a call: both transports, 2 starters, 2 attach attempts, 2 visits; or a campaign: 1 lead, 1 attempt, every user operation, requests that fail | the five properties of §5; `SlotFreed`, `DialingEnds` |
| `stream_calls` | `Streaming_calls` | each mode, 2 queues, 2 chunks, queue of 1, buffer of 2, 1 barge-in, failures | the four properties of §6 |
| `dialog_turns` | `Dialog_turns` | the dialog: both STT modes, 3 transcripts, 2 turns, queue of 2, 3 words, hang-up and transfer tools; or the server: a call that sends 2 chunks (Vosk or a streaming recogniser), or 3 messages of audio, barge-in and speech (segments), or 1 chunk beside a client with 2 requests or reloads; modes `full` and `stt`, 3 finalizers | `AnsweredOnce`, `SpeechAnswered`; `OneJob`, `TurnsAnswered`, `HandlerFree` |
| `transfer_calls` | `Transfer_calls` | with and without screening, helper media, 2 legs, `CONSTRAINT Timely` | `CallerResumed`, `AgentReleased`, `GivenUpHarmless`, `TransferDecided` |
| `media` | `Media_transports` | RTP: 2 calls, 2 ports, 2 end points, 1 SSRC, sequence modulo 2; AudioSocket: 1 call, 2 connections | the four properties of §9 |
| `providers` | `Providers_calls` | OpenAI: GA API, 2 sockets, 3 responses, 1 attempt, every fault. Local: 3 sockets and no text with drops, a stopped server and refusals, or 2 sockets and a text with drops; 1 attempt, 1 round. Google: unbounded, with and without markers | the properties of §10 |
| `transfer_timeout` | `Transfer_timeout` | 1 leg, no helper | violation of `TimeoutResumesCaller` |
| `realtime_beta` | `Realtime_beta` | beta API | violation of `BurstsClosed` |
| `local_idle` | `LocalAi_idle` | a call that sends 3 chunks to Vosk | violation of `IdleAfterSilence` |
| `local_reload` | `LocalAi_reload` | a call that sends 1 chunk, a client with 2 requests | violation of `OneInference` |

**Why the bounds are enough.** The claims relate two parties: two playbacks
and a barge-in of one call are what one reply releasing another's token takes;
two calls and two ports what one call hearing another takes; two
attempts for one lead, or two leads for one slot, what a second dial or an
overrun takes; two legs what one transfer disturbing another takes; two
queues what a new stream taken for an old one takes; a second visit, a
second attempt, a second socket what a repetition takes. Queues of one or two
entries are full as well as empty, and a sequence modulo 2 wraps at once. Three
responses are a greeting, an answer and a goodbye; three idle finalizers are
one forgotten, one that replaced it and one too many. The dialer's identifiers of leads
and attempts are symmetric; no run with a liveness property uses symmetry.

`CHECK_DEADLOCK FALSE` is set everywhere because these systems really come to
rest: a call ends, a campaign completes, and the instances' identifiers run out.
That they do not come to rest too early is what the liveness properties say.

**Fairness** is stated section by section. In each the engine's own tasks are
weakly fair (the event loop runs each of them, and all their waits are
bounded), the environment is not. Strongly fair are only the watchdog of the dialer, which is
disabled and enabled again while it looks at all attempts; a connection of the
local provider, because a server whose port stays open accepts one at last; and
the end of the receive loop of `GoogleLive`, because a lost socket delivers only
what it had received.

## 13. Proofs

| Module | Theorem | For every value of the constants |
|---|---|---|
| `TtsGatingProofs` | `TypeCorrect` | `Safety => []TypeOK` |
| | `GateCorrect` | `Safety => []GateFollowsTokens` |
| | `GaugesCorrect` | `Safety => []GaugesFollowSessions` |
| | `TokensReleased` | `Safety => []TokenHasReleaser` |
| | `Refinement` | `Safety => GateSafety` |
| | `GatePromise` | `Safety => []Gate!OpenIffSilent` |
| | `WithdrawnByOwner` | `Safety => TokensWithdrawnByOwner` |
| `MediaTransportProofs` | `Invariance` | `Spec => []IInv` |
| | `RtpTypeCorrect` | `Spec => []TypeOK` |
| | `SessionsCorrect` | `Spec => []SessionsHavePorts` |
| | `LoopsCorrect` | `Spec => []LoopsHoldPorts` |
| | `OutboundCorrect` | `Spec => []OutboundContinuous` |
| | `SocketsAgree` | `AS!Spec => []ConnectionsAgree` |
| | `NobodyLeftBound` | `AS!Spec => []LeftToClose` |
| `OutboundDialerProofs` | `TypeCorrect` | `Safety => []TypeOK` |
| | `LimitKept` | `Safety => []CallsWithinLimit` |
| | `AttemptsTracked` | `Safety => []OpenAttemptTracked` |
| | `LeadsDialledOnce` | `Safety => []LeadDialledOnce` |
| | `CompletedWhenQuiet` | `Safety => CompletesWhenQuiet` |
| | `SlotsNotSpared` | `Safety => []SlotsWatched` |
| | `LeadsFollowed` | `Safety => []DialingFollowed` |
| `CallLifecycleProofs` | `TypeCorrect` | `Spec => []TypeOK` |
| | `CleansOnce` | `Spec => []CleanedOnce` |
| | `OneProvider` | `Spec => []SingleProvider` |
| | `LeavesNothing` | `Spec => []NothingLeftBehind` |
| | `TransfersSurvive` | `Spec => TransferSurvivesCleanup` |
| | `QuietForgets` | `Spec => []QuietMeansForgotten` |
| `StreamingPlaybackProofs` | `TypeCorrect` | `Spec => []TypeOK` |
| | `ReadByOne` | `Spec => []QueueReadByOne` |
| | `TokensReleased` | `Spec => []TokenHasReleaser` |
| | `SilentAfterCall` | `Spec => []NothingPlaysAfterCall` |
| | `PlaysOut` | `Spec => PlayedOut` |
| | `NoStreamStuck` | `Spec => []StreamGoesOn` |
| `AttendedTransferProofs` | `TypeCorrect` | `Spec => []TypeOK` |
| | `Resumed` | `Spec => []CallerResumed` |
| | `Released` | `Spec => []AgentReleased` |
| | `Harmless` | `Spec => GivenUpHarmless` |
| | `TransfersPursued` | `Spec => [](Clean /\ cleanup = "none" /\ action.on => Deciding)` |
| `ProvidersProofs` | `BurstsAreClosed` | `Spec => [](api = "ga" => BurstsClosed)` |
| | `FarewellsTimed` | `Spec => []FarewellTimed` |
| | `TextsActedOnOnce` | `LP!Spec => []ResultOnce` |
| | `GoodbyesWatched` | `LP!Spec => []GoodbyeWatched` |
| | `ServersHeard` | `LP!Spec => []("auth" \notin LP!Failures => RecoveryUnderWay)` |
| | `CallersSpared` | `GL!Spec => CallerSpared` |
| | `GoodbyesFollowed` | `GL!Spec => [](HangupWatched /\ LossNoticed)` |
| `DialogProofs` | `LockHeldByOne` | `Spec => []IInv` (local AI server) |
| | `OneJobPerModel` | `Spec => []OneJob` |
| | `ServerTypeCorrect` | `Spec => [](TypeOK /\ OwedCovers)` |
| | `NobodyWaitsInVain` | `Spec => [](JobsAwaited /\ LockMoves)` |
| | `DialogTypeCorrect` | `PD!Spec => []PD!TypeOK` |
| | `AnswersOnce` | `PD!Spec => []AnsweredOnce` |
| | `NothingForgotten` | `PD!Spec => [](~raced => PendingTimed /\ SpeechKept)` |

With these every invariant and every action property that a run checks is a theorem.
A liveness property cannot be proved here, but what it rests on can: that no reachable state
leaves what must happen to nobody. Each has such a safety half, and fairness has to do the rest:

| Liveness property | Its safety half |
|---|---|
| `GateReopens` | `TokensReleased` |
| `SlotFreed`, `DialingEnds` | `SlotsNotSpared`, `LeadsFollowed` |
| `EndedCallForgotten` | `QuietForgets` |
| `RepliesPlayed` | `PlaysOut`, `NoStreamStuck` |
| `SpeechAnswered` | `NothingForgotten` |
| `TurnsAnswered`, `HandlerFree` | `NobodyWaitsInVain` |
| `TransferDecided` | `TransfersPursued` |
| `EndedCallDisconnected` | `NobodyLeftBound` |
| `FarewellEnds`, `Recovers` | `FarewellsTimed`, `ServersHeard` |
| `GoodbyeHangsUp`, `GoodbyeEnds` | `GoodbyesWatched`, `GoodbyesFollowed` |

The assumptions are those of the modules. For the gate: `NoCall` is no call, and every
playback identifier embeds a call; sets of calls, playbacks and barge-in runs
are arbitrary. Token sets are finite because each step adds one.

`GateFollowsTokens` is not inductive alone: a playback that starts must find
its session stored, a barge-in that comes back after its waits must not find a
call that was never registered, and the end of a playback must act on the call
that holds its token. The inductive invariant `IInv` is `TypeOK`, for each call
`CallInv` (its object is consistent, finite token set included; a served call
is stored, heard exactly when silent, and shown by the gauges; a new one is
untouched; one that is not stored has no gauges), `BargeInv` (a running
barge-in works on a call that was registered), `OwnTokens` (tokens belong to
playbacks of their own call) and `TokenHasReleaser`. The step lemmas follow
the groups of `Next`; what a session becomes (`GivesIInv`) is shared by the actions that save one,
and `QuietIInv` by those that save none. The refinement takes the invariant
before and after a step: a step changes the tokens of at most one call, and
is a start, a silence, an answer, a hang-up or a stutter of the abstract gate.
`GatePromise` reads the abstract promise through the refinement mapping: a served
call is captured exactly when it has no tokens.
`WithdrawnByOwner` is an action property: it needs `IInv` and `Begun` (a
playback that has not begun has no token), without which a playback rejected
for want of a bridge could give up a token it did not add.

`MediaTransportProofs` proves, for any calls, ports, end points and sources, that the
type invariant, `SessionsHavePorts`, `LoopsHoldPorts` and
`OutboundContinuous` hold. The inductive invariant `IInv` adds to the types
`LoopsHaveSessions` (a loop that can deliver belongs to a session that is open, or
closing if it is cancelled) and `UsedPortsReserved` (while the server runs, a port in use is
reserved for the call of its session). `LoopsHoldPorts` alone is not inductive: what keeps a port
from a second call while the first one's loop is being cancelled is that the
reservation is given back last.

For AudioSocket (`SocketsAgree`) the inductive invariant relates the five tables: `BoundToOwn` (a
connection is bound to the call whose UUID it presented, and unbound once it ended), `TablesAgree`
(a call's set of connections is the inverse of that table, and has a primary exactly when it is not
empty) and `NewestKnown` (until its cleanup is over the call's session is stored and names the
newest connection while that is bound). The handlers of the channel change no table (`LegKeeps`); only
binding and unbinding a connection do. The proof also gave the claim its condition: once the cleanup
has deleted the session, a late connection may still bind to the call, but there is no session to name it.
`NobodyLeftBound` needs the life of the channel too (`ReleaseInv`): the UUID of a bridged channel is
known, so the cleanup forgets it before it ends and nothing binds afterwards. What was bound before is
the call's newest connection, which the cleanup closed, or an older one had itself been closed.

`OutboundDialerProofs` holds for any number of campaigns, leads and attempts and
any scenario. Three of its claims look at the tables of the store and at those of
the engine, which change at different times, so the inductive invariant says
what each place of the scheduler and of the handlers knows. `AttemptInv`: an attempt
that was not created has left no trace, and whoever is about to drop the
metadata has closed the attempt. `SchedInv`: the lead and the attempt the
scheduler holds belong to its campaign, and nobody else knows of the attempt
before the request. `OpenIsTracked`, `DialledOnce` and `QuietMeansNoCalls` extend
the three claims to what the scheduler is about to do. `CallsWithinLimit` is about a
cardinality: `CallsCounted` (a channel is counted until it is gone) and `RoomKept`
(until it marks its attempt, the scheduler has room for one more) carry it, and
`FinitelyUsed` says that only finitely many attempts were ever created. Most
actions change one attempt; the lemmas about a `Bystander` show for all the parts
at once that the others are not disturbed.
`SlotsNotSpared` and `LeadsFollowed` are about attempts that nobody may drop. The watchdog spares an
attempt that waits for its AMD result; `HopInv` says that the wait ends, because an answer is a
channel's first event, is handled once and comes before the AMD hop and the session. It holds through
restarts, but not when events are lost, and that is the theorem's hypothesis: §14 tells
how `SlotFreed` fails then. `LeadsFollowed` holds in the engine's first life, since a restart forgets every
attempt (§14 again): whoever drops an attempt then has settled its lead (`FollowsOn`), and the
scheduler knows which lead belongs to the attempt it is about to give up (`SchedKnows`).

`CallLifecycleProofs` is about the order in which one call is set up and taken down.
`OneCleanup` (the two guards of `_cleanup_call` let one cleanup pass),
`EarlyAlone` (before its session is stored nothing runs but the setup) and
`SingleFlight` (one recorded start task) bound who is at work; `ProviderOwned`,
`MediaKnown` and `TransferKnown` say what the session knows of the provider,
the media channel and the transfer; `CleanedInOrder` says for each place of the
cleanup what is already released. `NothingLeftBehind` is its last line,
`SingleProvider` follows from `ProviderOwned`, and the action property
`TransferSurvivesCleanup` from `TransferKnown`: the cleanup read `keep` before
it asked Asterisk. `QuietForgets` needs `EndNoted`: before a cleanup, the end of a settled caller's
channel is still in the inbox, or some handler found nothing to end and nothing is to come.

`StreamingPlaybackProofs` holds for any number of streams, chunks and barge-ins, any
capacities, and with or without failures of the transport. None of the three claims is
inductive. What carries them is what each task may assume when it wakes up, because
`_cleanup_stream` finds a stream by its call. `Fresh`: the id of a stream is used
once. `OneCleaner`: one cleanup is under way, and its mark says whose it is.
`CancelledFirst`: whoever stops a stream has ended its pacer and left its producer
nothing but to close. `Leftover`: what is left of a stream that is no longer
registered is nothing, or a cancelled producer that waits for ever for room in its
buffer (the finding of §14). `Registered` and `EntryRuns`: pacer and keepalive belong
to the registered stream, which runs or is being cleaned up. `InUse`: while
chunks of a continuous call have a queue, the registered stream reads it, or a
barge-in is cleaning it up. `StoppedByEnd`: once the end of the call has stopped
its stream, nothing starts to read again. Each part keeps the exceptions of the property it
serves (*overlapped*, *aborted*, *late*, §6) and no others; *joined* never
matters. A lemma (`StepKinds`) reduces the some twenty actions of `Next` to
ten by what they do to the tasks, and each part of the invariant is proved once per kind.
`PlaysOut` adds `DrainInv`: a registered stream past the end marker has an
empty queue (`HeardOut`), its pacer is done only with an empty buffer, and an end marker is put only
behind everything else (`Sentinels`) by a producer who will put nothing more (`EndsKnown`).
`NoStreamStuck` adds `FedInv`: a registered stream nobody stops was given a pacer, and its queue has its end
marker or is the one that is still filled, so a full buffer is being emptied and an empty queue is not
waited at for ever.

`AttendedTransferProofs` holds for any number of requests. The tools, the agent's
handler, the guard and the cancellation share nothing but the session's action and the
map from legs to calls, so the invariant says what each finds there when it wakes up.
`InOrder` is the order of one request, `EndsInOrder` that of the cleanup: the session goes last,
and the AI is gone before the action is read. `OneRequest`: one request is busy at a
time, and the action names its leg or none yet. `Pursued`: what is under way has
its action. `MappedOwn`: only the action's leg is mapped, and none is while a guard
or a cancellation is half-done. `GivenUp`: whoever gives a transfer up leaves
no agent who could still be connected. `HeldByAction`: the caller waits only while the
action is on, which knows what was switched off. `Followed`: helper media and
agents on the line belong to a handler, or to the leg that the action names until the cleanup has
read it, and that `read` names afterwards. Each part is claimed for as long as the cleanup leaves it true:
until the tasks of the call are cancelled (`Intact`) or until the session is removed (`Present`).
Apart from the types and the two orders all of it is claimed while no request overlapped another,
crossed a cancellation or came too late (`Clean`), which is what the properties themselves
assume. The invariant was model-checked with 2 legs before it was proved; its proof once showed
what 2 legs cannot: a request made while a guard or a cancellation is half-done loses its action to
it and leaves the caller on hold, which is why *crossed* covers it.

The steps of the cleanup touch little each, and are treated together: `EndingTakes` and
`EndingSpares` say what they change and what not, so the proof of each part looks at
what its own variables can meet. `TransfersPursued` adds `DecidingInv`: until the agent answers, the
request, its guard or a cancellation is at work; afterwards the handler of the mapped leg is, or the leg is
bridged, or its end is waiting to be handled, or the bridge refused it (`CouldNotJoin`).

`ProvidersProofs` takes the three providers one after the other. OpenAI: `BurstsClosed` has
the hypothesis `api = "ga"`, which is the protocol's choice, fixed in the first state: with the beta
protocol it is false, as run `realtime_beta` shows. What is needed besides is that the
provider knows of the burst the engine hears (`BurstKnown`) and that the receive
loop of an older socket is gone when a new one connects (`OneLoop`). `FarewellTimed` is nearly
inductive: only the order in which a response is noted as the farewell and its timer is set has to be
known. Local: `ResultOnce` needs `NoResultYet` (a text that waits for the gateway or for a
repaired answer has had no result). `RecoveryUnderWay` rests on `LinkKnown` (a receive loop that
reconnects has lost the socket it read, and the provider's socket, while it is open, is read by the loop or
being authenticated by one of the four tasks that reconnect) and on `StarterKnown` (the start has
stopped connecting once the session is started). Its hypothesis is the
absence of the fault `"auth"`: with it the claim is false (§14). Google: `CallerSpared`, `HangupWatched` and
`LossNoticed` follow from the agreement of the marks that the provider and the session keep of
one goodbye (`EndingKnown`, `GoodbyeKnown`).

`DialogProofs` is about what answers. The local AI server first: the queue of jobs for the LLM's lock.
Jobs are added at its end, are given up in the middle, and end anywhere; `Orderly`
(one job holds the lock, and only it has a thread) is preserved by each of the
operations on the sequence, which are lemmas about `RemoveAt` and `Append`.
`ServerTypeCorrect` needs the beginning of the finalizers (`TimersBegun`, `RoomToBegin`: a handler being fed has
room for one more) and `OwedCovers`, a statement about cardinalities: each step of a coroutine changes
its own place only (`StepGoes`), so the set of those who wait changes by one element and
what the session is owed with it. `NobodyWaitsInVain` adds `JobsInv` (a waiting coroutine has
exactly one job unless it is being cancelled; who holds the lock has a thread, and a thread
does not reload) and `BegunInOrder` (finalizers begin in the order of their numbers, so a new one
is nobody who waits).

The pipeline's dialog: `DialogInv` says that a transcript is queued once (`QueuedOnce`), that nothing
runs before the runner has its worker, and, until the worker took a transcript during a flush task's turn
(`raced`), that one turn is going at a time, not beside the timer, and that two turns share no
transcript. `KeptInv` adds that a going turn covers all that is pending (`TurnCovers`): that is why `pending`
may be cleared after it, and what a transcript taken in between breaks.

Only model-checked: the liveness properties, `EndedStreamForgotten` of `RepliesPlayed` included
(fairness and ENABLED are beyond the proof system).

## 14. What the documents say and the code does not do

With a run:

* `transfer_timeout` (engine.py:5175): the guard waits for the dial time-out and a
  margin, so Asterisk's own dial time-out comes first. The leg is still mapped
  to the call, its end runs `_cleanup_call`, and the caller is hung up, where
  docs/TOOL_CALLING_GUIDE.md:176 says that the AI resumes.
* `realtime_beta` (openai_realtime.py:1602): `response.audio.done` of the beta
  API, the default, clears `_in_audio_burst` before the function that announces
  the end of the audio looks at it, so the engine is never told.
  docs/contributing/architecture-deep-dive.md:493 says providers emit a final `AgentAudioDone`.

* `local_idle` (local_ai_server/server.py:4879): docs/local-ai-server/PROTOCOL.md:186 says that a
  transcript is promoted "if no more audio arrives". A finalizer that is cancelled
  clears `idle_task` when it is woken, which by then names the one that replaced it; the
  next chunk cannot cancel that one, and it promotes what is heard while audio still arrives.
* `local_reload` (local_ai_server/server.py:1134): the comment at server.py:2539 says that the
  LLM must not be used by several threads at once. `initialize_models` publishes the new
  model and then warms it up without the lock, while a turn may already use it.

Without a run. The definition is in the module; TLC refutes it when it is listed
in the run's cfg:

* `CaptureOffForTheDuration` (engine.py:7838): a barge-in lists the playbacks before its
  stop requests and releases the tokens it finds after them. A reply that began
  in between plays with the caller captured, though
  conversation_coordinator.py:94 says capture is off for the duration.
* `EndedCallsForgotten` (engine.py:7877): the same handler saves the session object it
  fetched first. If the cleanup removed the session meanwhile it is stored
  again, and the completed-cleanup guard turns later cleanups away.
* `RecycledWhenSettled` (outbound_store.py:1263): recycling is documented for
  settled leads and accepts all of them.
* `WatchdogSparesVoicemail` (engine.py:1624): an attempt that is playing its voicemail
  message is neither awaiting AMD nor a session, and may be ended as stale.
* `SlotsAreUsed` (engine.py:1251): a conversation is counted in the metadata
  and in the sessions, so with `max_concurrent = 2` no call is placed beside it.
* `CleanHangup` of `CallLifecycle` (docs/RELEASE_CHECKLIST.md:20): a call that
  ends while it is set up leaves a bridge, a media channel or a provider behind.
* `TransferredCallerKept` (unified_transfer.py:273): the tool flags the transfer
  before its request; a cleanup that began just before hangs the caller up.
* `AcceptedIsBridged` of `AttendedTransfer` (engine.py:4988): `add_channel_to_bridge` answers
  False when Asterisk refuses (ari_client.py:626), and nobody looks. The AI is stopped already,
  the transfer is recorded as accepted, and the caller is alone, where
  docs/TOOL_CALLING_GUIDE.md:175 says that the engine bridges caller and destination.
* `OtherLegCleanedUp` (engine.py:5628): the cleanup reads the action's leg once. If the originate
  request was not answered by then the action names none, and an agent who answers
  before session and mappings go (5867-5876) is accepted by the handler and hung up by nobody.
  engine.py:5493 says that if either side hangs up, the other leg is cleaned up.
  Both fail in the instance of `transfer_timeout`.
* `FailedStreamForgotten` of `StreamingPlayback` (streaming_playback_manager.py:1000): a
  producer whose pacer failed waits for room in its jitter buffer for good.
* `HangupReadyOnce`, `ConnectionClosed` of `OpenAIRealtime`: a time-out and the
  end of the response may both announce the hang-up; a reconnection under
  way outlives `stop_session`.
* `HealthyKept` of `LocalProvider` (local.py:924, "Only runs when we were previously
  connected and got disconnected"): the background task does not look whether the send
  loop has reconnected meanwhile, and replaces a healthy socket.
* `DisarmedSpared` of `GoogleLive` (google_live.py:1710): the goodbye is taken back so that
  the caller is not cut off, but an announcement in its delay is not.
* `ReadyOnce` (google_live.py:1959, "Stop the watchdog from double-firing"): the watchdog and
  the end of the turn may both be announcing HangupReady.
* `ConnectionClosed` of `GoogleLive`: `stop_session` during the connection leaves the
  socket that is then opened, and a start that fails later does not stop it.

Seen in variants of these runs, or while reading, and not stated as properties:

* Dialer. With `"events"` among the faults `SlotFreed` fails: when the event that ends an
  AMD hop is lost, its channel stays in the awaiting set, which the watchdog
  spares (engine.py:1624). With a restart `DialingEnds` fails: the start-up
  cleanup looks once, at attempts older than 120 s (engine.py:858), and a
  younger one's lead stays dialing. `CallsWithinLimit` fails too: the calls go on
  in Asterisk and the new engine does not count them. A lead ignored while
  dialing is set to `amd_pending` when its call is answered (engine.py:1710).
  Leads imported between the campaign's statistics and the status update stay
  pending in a completed campaign (engine.py:1211). A human AMD result handled
  while the channel is destroyed may leave the lead `in_progress`
  (engine.py:1934). When an originate request is not answered but carried out, its
  campaign may be completed while that call goes on.
* Call. `self.bridges` keeps the entry of the AudioSocket channel
  (engine.py:3592); a bridge stays when the caller cannot be added to it; a
  `continue` that fails leaves `transfer_active` set; a caller who returns
  within 900 s of his cleanup is never cleaned up (engine.py:5502-5513).
* Streams. The pipeline's worker waits for good in `stream_q.put` after 256
  chunks if its stream is dead; `_provider_stream_queues` and
  `_segment_tts_active` are not emptied by `_cleanup_call`; `last_chunk_time` is set
  only at the start (streaming_playback_manager.py:722); the drain of the
  fallback swallows the end marker; `AgentAudioDone` of a continuous stream
  opens the gate while its audio still plays.
* Dialog. The end of the recogniser's stream puts None and the call
  stays, deaf; a refused stream leaves the runner dead; a flush task's turn survives
  the runner's cancellation; the follow-up LLM call is not subject to the hang-up
  guardrail.
* Transfer. A cancellation during the originate request leaves the caller on hold or
  the leg alone; a new request made between the steps of a guard or a cancellation loses
  its action to it and leaves the caller on hold; a request made while the AI speaks remembers that capture was off and
  restores that; the call is finalized by stopping the AI before the agent is in
  the bridge; a handler that ends after the cleanup stores the session again;
  helper media are not always released.
* RTP, AudioSocket. A port whose bind failed stays reserved; a socket error ends the
  loop and keeps the session; a clean-up may pop the task of a newer session of
  the same call; a shared SSRC's entry is dropped with the first of its
  sessions. `channel_to_conn` is never reset, a late UUID stays registered, and the
  session's connection becomes None though an older one is open.
* OpenAI Realtime. `_outbuf` grows when the pacer is off; the branch for a farewell
  without audio is never reached, so `_hangup_after_response` is not reset; a
  response the caller caused after the hang-up tool is taken for the farewell; a refused
  `response.create` means no farewell and no timer.
* Local provider. There is one instance per call, but `stop_session` keeps the
  socket and its loops for the next one, so they outlive the call. `send_audio` says
  "drop if queue is full" (local.py:1164) and waits for room instead. A repair turn
  asked for by the receive loop waits for an answer that only this loop
  delivers, and always times out. A failed authentication leaves its socket as
  `self.websocket` (with the fault `"auth"` `Recovers` fails). A receive loop restarted
  on a socket another task is authenticating dies. If the server is down when
  the call starts, nothing reconnects. The end of the audio of an earlier reply can hang up
  before the farewell is spoken, and new audio cancels a hang-up in its delay.
  The goodbye sound of the asterisk mode runs inside the receive loop and is
  cancelled when the send loop reconnects.
* Google Live. A normal closure by the server ends the receive loop without telling
  the engine, though google_live.py:312 says "so we don't leave dead air". An
  interruption clears `_in_audio_burst` before the engine, which may ignore it, is asked, so
  its burst is not closed. `_schedule_forced_farewell_if_needed` has no caller.
* Local AI server. A final that equals the last user turn is not answered (a caller who says
  "yes" twice in a row hears nothing the second time). A promoted turn and the turn of the next
  chunk run at the same time: their replies may overlap, and the history may hold two user
  turns in a row. Inferences that were given up pile up behind the lock. `_close_kroko_session` is never
  called, though server.py:3115 says the connection is "closed on disconnect". The idle
  finalizer has no effect for Kroko and Sherpa, which have no recogniser of the session's.

## 15. Not modelled, and why

* **Other providers** (Deepgram, ElevenLabs): they share the pattern of
  `OpenAIRealtime` and the engine's half of their protocol is in
  `StreamingPlayback`; each has a protocol of its own.
* **Audio algorithms** (VAD, gating thresholds, resampling, adaptive
  jitter): functions of samples; their verdicts are inputs.
* **Pipeline adapters, tools other than transfer and hang-up, MCP**: calls of
  external services, whose outcomes (success, failure, cancellation) are inputs.
* **Configuration, transport negotiation, logging**: pure functions and output.
* **Admin UI** beyond campaigns and leads, **updater**, **CLI**:
  other processes that share files and HTTP with the engine, request by
  request; most of their code is forms, queries and subprocesses.
* **ARI client**: its contract, not its reconnection loop, which keeps no
  state of calls.
* **Call history**: only whether a record is found matters to the dialer.
