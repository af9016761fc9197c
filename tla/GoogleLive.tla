----------------------------- MODULE GoogleLive -----------------------------
(***************************************************************************)
(* providers/google_live.py: one call's session with Gemini Live.  What is *)
(* hard here is the goodbye.  It is announced by a hang-up tool, or guessed *)
(* from the words of caller and model, and taken back when the caller goes *)
(* on; it ends with the model's turn, or with a watchdog when turn or      *)
(* audio never come.  Events are handled by the engine inside the coroutine *)
(* that emits them, its delays before a hang-up too.  Left out: formats,   *)
(* transcripts, pings (off by default), the prompts sent to the model, and *)
(* the clocks: a time-out may expire at any moment.                        *)
(***************************************************************************)
CONSTANT Markers    \* values of hangup_markers_enabled, one is drawn in Init

VARIABLES
    markers,
    stage,       \* start_session: "idle", "connecting", "setup", "up" or "failed"
    link,        \* the socket: "none", "open", "lost" or "closed" (normally)
    reader,      \* _receive_loop: "none", "reads", "tool", "done" and "ready" (in the engine's
                 \* delay after AgentAudioDone and HangupReady), "disconnected" or "over"
    watchdog,    \* _hangup_fallback_task: "none", "loops", "done", "ready", "over"
    stopping,    \* stop_session: "no", "closing" or "closed"
    in_audio_burst,
    has_output,  \* _turn_has_assistant_output
    armed, audio_started, emitted,    \* _hangup_fallback_...
    hangup_after_response,
    hangup_ready_emitted,
    cleanup_after_tts,    \* of the session
    hung_up,              \* the engine asked Asterisk to hang the caller up
    call                  \* "live" or "over"

session == <<markers, stage, link, stopping, call>>
turn    == <<in_audio_burst, has_output>>
goodbye == <<armed, audio_started, emitted, hangup_after_response, cleanup_after_tts>>
hangup  == <<hangup_ready_emitted, hung_up>>
vars    == <<session, reader, watchdog, turn, goodbye, hangup>>

Init ==
    /\ markers \in Markers
    /\ stage = "idle" /\ link = "none" /\ reader = "none" /\ watchdog = "none"
    /\ stopping = "no" /\ call = "live"
    /\ in_audio_burst = FALSE /\ has_output = FALSE
    /\ armed = FALSE /\ audio_started = FALSE /\ emitted = FALSE
    /\ hangup_after_response = FALSE /\ cleanup_after_tts = FALSE
    /\ hangup_ready_emitted = FALSE /\ hung_up = FALSE

-----------------------------------------------------------------------------
(* start_session and stop_session.                                          *)

Start ==
    /\ stage = "idle" /\ call = "live"
    /\ stage' = "connecting"
    /\ UNCHANGED <<markers, link, stopping, call, reader, watchdog, turn, goodbye, hangup>>

\* Nothing looks whether the session was stopped in the meantime.
Connects ==
    /\ stage = "connecting"
    /\ stage' = "setup" /\ link' = "open" /\ reader' = "reads"
    /\ UNCHANGED <<markers, stopping, call, watchdog, turn, goodbye, hangup>>

Reading == reader = "reads" /\ stopping # "closed"
Talking == Reading /\ stage = "up"

SetupComplete ==
    /\ stage = "setup" /\ Reading
    /\ stage' = "up"
    /\ UNCHANGED <<markers, link, stopping, call, reader, watchdog, turn, goodbye, hangup>>

\* An AgentAudioDone at the start of stop_session, which nobody waits to act upon.
StopBegins ==
    /\ stopping' = "closing"
    /\ in_audio_burst' = FALSE

\* The connection is refused, or the acknowledgement does not come.  A session that is being
\* stopped, or was, is not stopped again.
StartFails ==
    /\ stage \in {"connecting", "setup"}
    /\ stage' = "failed"
    /\ IF stopping = "no" THEN StopBegins ELSE UNCHANGED <<stopping, in_audio_burst>>
    /\ UNCHANGED <<markers, link, call, reader, watchdog, has_output, goodbye, hangup>>

\* The call's cleanup.
Stop ==
    /\ call = "over" /\ stage # "idle" /\ stopping = "no"
    /\ StopBegins
    /\ UNCHANGED <<markers, stage, link, call, reader, watchdog, has_output, goodbye, hangup>>

Stopped ==
    /\ stopping = "closing"
    /\ stopping' = "closed"
    /\ reader' = (IF reader = "none" THEN "none" ELSE "over")
    /\ watchdog' = (IF watchdog = "none" THEN "none" ELSE "over")
    /\ link' = (IF link = "open" THEN "closed" ELSE link)
    /\ armed' = FALSE /\ audio_started' = FALSE /\ emitted' = FALSE
    /\ hangup_after_response' = FALSE
    /\ UNCHANGED <<markers, stage, call, turn, cleanup_after_tts, hangup>>

-----------------------------------------------------------------------------
(* _handle_server_content and _handle_tool_call.                            *)

\* Arming, with the watchdog made sure of.
Arms ==
    /\ armed' = TRUE /\ audio_started' = FALSE
    /\ watchdog' = IF watchdog \in {"none", "over"} THEN "loops" ELSE watchdog

\* The session of the store and the provider's own mark are reset together.
DisarmOf_FlagOnly == cleanup_after_tts' = FALSE /\ UNCHANGED <<armed, audio_started>>
DisarmOf == cleanup_after_tts' = FALSE /\ armed' = FALSE /\ audio_started' = FALSE

\* _maybe_disarm_cleanup_after_tts_fallback_on_user_speech.
CallerGoesOn ==
    /\ Talking
    /\ armed /\ ~emitted /\ ~hangup_after_response /\ cleanup_after_tts
    /\ DisarmOf
    /\ UNCHANGED <<session, reader, watchdog, turn, emitted, hangup_after_response, hangup>>

OutputText ==
    /\ Talking
    /\ has_output' = TRUE
    /\ UNCHANGED <<session, reader, watchdog, in_audio_burst, goodbye, hangup>>

AudioOutput ==
    /\ Talking
    /\ in_audio_burst' = TRUE /\ has_output' = TRUE
    /\ audio_started' = (audio_started \/ armed)
    /\ UNCHANGED <<session, reader, watchdog, armed, emitted, hangup_after_response,
                   cleanup_after_tts, hangup>>

Interrupted ==
    /\ Talking /\ in_audio_burst
    /\ in_audio_burst' = FALSE
    /\ UNCHANGED <<session, reader, watchdog, has_output, goodbye, hangup>>

\* The watchdog leaves the turn's end to the engine if the turn had audio.
Leaves_Always(audio) == armed'
Leaves(audio) == audio /\ armed'

\* _handle_turn_complete after AgentAudioDone.  The turn that acknowledges the tool has no
\* audio, and a turn of the caller no output: they are not the farewell.
TurnEnds(audio, output) ==
    /\ emitted' = (emitted \/ Leaves(audio))
    /\ IF hangup_after_response /\ output /\ hangup_ready_emitted
       THEN hangup_after_response' = FALSE /\ reader' = "reads"
       ELSE /\ UNCHANGED hangup_after_response
            /\ reader' = IF hangup_after_response /\ output /\ audio THEN "ready" ELSE "reads"

\* turnComplete: the words of the turn may arm the hang-up (_maybe_arm_cleanup_after_tts).
TurnComplete ==
    /\ Talking
    /\ \/ UNCHANGED <<armed, audio_started, cleanup_after_tts, watchdog>>
       \/ markers /\ ~armed /\ ~cleanup_after_tts /\ cleanup_after_tts' = TRUE /\ Arms
    /\ in_audio_burst' = FALSE /\ has_output' = FALSE
    /\ IF in_audio_burst /\ cleanup_after_tts'
       THEN reader' = "done" /\ UNCHANGED <<emitted, hangup_after_response>>
       ELSE TurnEnds(in_audio_burst, has_output)
    /\ UNCHANGED <<session, hangup>>

\* AgentAudioDone: the engine has hung up after its delay.
TurnDone ==
    /\ reader = "done"
    /\ hung_up' = TRUE
    /\ UNCHANGED <<session, watchdog, turn, armed, audio_started, cleanup_after_tts,
                   hangup_ready_emitted>>
    /\ TurnEnds(TRUE, TRUE)

\* HangupReady: likewise.
FarewellDone ==
    /\ reader = "ready"
    /\ reader' = "reads" /\ hung_up' = TRUE
    /\ hangup_ready_emitted' = TRUE /\ hangup_after_response' = FALSE /\ emitted' = TRUE
    /\ UNCHANGED <<session, watchdog, turn, armed, audio_started, cleanup_after_tts>>

\* hangup_call sets the session's mark; a second one is skipped.
HangupTool ==
    /\ Talking /\ ~hangup_after_response
    /\ hangup_after_response' = TRUE /\ cleanup_after_tts' = TRUE
    /\ IF armed THEN UNCHANGED <<armed, audio_started, watchdog>> ELSE Arms
    /\ UNCHANGED <<session, reader, turn, emitted, hangup>>

\* Another tool keeps the receive loop from reading.
OtherTool ==
    /\ \/ Talking /\ reader' = "tool"
       \/ reader = "tool" /\ reader' = "reads"
    /\ UNCHANGED <<session, watchdog, turn, goodbye, hangup>>

-----------------------------------------------------------------------------
(* _hangup_fallback_watchdog_loop.                                          *)

Watching == watchdog = "loops" /\ armed /\ ~emitted /\ ~hangup_ready_emitted

\* No audio came since the hang-up was armed.
FallbackNoAudio ==
    /\ Watching /\ ~audio_started
    /\ watchdog' = "ready"
    /\ UNCHANGED <<session, reader, turn, goodbye, hangup>>

\* Audio came, and none for a while.
FallbackIdle ==
    /\ Watching /\ audio_started
    /\ in_audio_burst' = FALSE
    /\ watchdog' = IF in_audio_burst /\ cleanup_after_tts THEN "done" ELSE "ready"
    /\ UNCHANGED <<session, reader, has_output, goodbye, hangup>>

FallbackDone ==
    /\ watchdog = "done"
    /\ watchdog' = "ready" /\ hung_up' = TRUE
    /\ UNCHANGED <<session, reader, turn, goodbye, hangup_ready_emitted>>

FallbackReady ==
    /\ watchdog = "ready"
    /\ watchdog' = "over" /\ hung_up' = TRUE
    /\ hangup_ready_emitted' = TRUE /\ emitted' = TRUE
    /\ UNCHANGED <<session, reader, turn, armed, audio_started, hangup_after_response,
                   cleanup_after_tts>>

\* Somebody else has announced the end.
WatchdogLeaves ==
    /\ watchdog = "loops" /\ (emitted \/ (armed /\ hangup_ready_emitted))
    /\ watchdog' = "over" /\ emitted' = TRUE
    /\ UNCHANGED <<session, reader, turn, armed, audio_started, hangup_after_response,
                   cleanup_after_tts, hangup>>

-----------------------------------------------------------------------------
(* The end of the receive loop, the service and the call.                   *)

\* After the hang-up tool the end is left to the watchdog.
LeavesQuietly == hangup_after_response

\* async for ends without an exception at a normal closure; any other is told to the engine.
ReaderLoses ==
    /\ Reading /\ link \in {"lost", "closed"}
    /\ reader' = IF link = "lost" /\ ~LeavesQuietly THEN "disconnected" ELSE "over"
    /\ UNCHANGED <<session, watchdog, turn, goodbye, hangup>>

\* ProviderDisconnected: the engine hangs up.
Disconnected ==
    /\ reader = "disconnected"
    /\ reader' = "over" /\ hung_up' = TRUE
    /\ UNCHANGED <<session, watchdog, turn, goodbye, hangup_ready_emitted>>

Drop ==
    /\ link = "open" /\ stopping # "closed"
    /\ link' \in {"lost", "closed"}
    /\ UNCHANGED <<markers, stage, stopping, call, reader, watchdog, turn, goodbye, hangup>>

\* The caller hangs up, or is hung up.
CallEnds ==
    /\ call = "live" /\ call' = "over"
    /\ UNCHANGED <<markers, stage, link, stopping, reader, watchdog, turn, goodbye, hangup>>

-----------------------------------------------------------------------------
Engine == TurnDone \/ FarewellDone \/ Disconnected \/ FallbackDone \/ FallbackReady
Fallback == FallbackNoAudio \/ FallbackIdle \/ WatchdogLeaves

Next ==
    \/ Start \/ Connects \/ SetupComplete \/ StartFails \/ Stop \/ Stopped
    \/ CallerGoesOn \/ OutputText \/ AudioOutput \/ Interrupted \/ TurnComplete
    \/ HangupTool \/ OtherTool
    \/ Engine \/ Fallback
    \/ ReaderLoses \/ Drop \/ CallEnds

\* The delays and the watchdog's time-outs expire, and what was received before the loss of a
\* socket is finite.  The watchdog waits for the audio to pause: the model does not talk on
\* for ever.
Fairness ==
    /\ WF_vars(TurnDone) /\ WF_vars(FarewellDone) /\ WF_vars(Disconnected)
    /\ WF_vars(FallbackDone) /\ WF_vars(FallbackReady) /\ WF_vars(Fallback)
    /\ SF_vars(ReaderLoses) /\ WF_vars(reader = "tool" /\ OtherTool)

Spec == Init /\ [][Next]_vars /\ Fairness

-----------------------------------------------------------------------------
(* Correctness.                                                             *)

\* A goodbye ends the call, whether the model says it, says it without audio, says nothing or
\* loses its connection, unless the caller goes on talking (_hangup_fallback_watchdog_loop).
GoodbyeEnds == (armed /\ stopping = "no") ~> (hung_up \/ ~armed \/ stopping # "no")

\* A connection that is lost does not leave the caller with nobody (google_live.py,
\* _emit_provider_disconnected: "so we don't leave dead air").
LostEnds == (link = "lost" /\ stopping = "no") ~> (hung_up \/ stopping # "no")

\* Nobody decides to hang up on a caller who went on talking: when an announcement begins, the
\* session says that the call is ending.
Announcing == {"done", "ready"}
CallerSpared ==
    [][ \/ watchdog = "loops" /\ watchdog' \in Announcing
        \/ reader = "reads" /\ reader' \in Announcing
        => cleanup_after_tts' ]_vars

\* Refuted.  An announcement already made is not taken back with the goodbye
\* (google_live.py:1710, the caller must not be cut off); the watchdog and the end of the turn
\* may both announce the hang-up (google_live.py:1959, "Stop the watchdog from double-firing");
\* a connection made while stop_session runs stays open.
DisarmedSpared ==
    [][ armed /\ ~armed' /\ stopping' # "closed" => watchdog \notin Announcing ]_vars
ReadyOnce == ~(watchdog = "ready" /\ reader = "ready")
ConnectionClosed == stopping = "closed" => link # "open"
=============================================================================
