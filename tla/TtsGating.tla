----------------------------- MODULE TtsGating -----------------------------
(***************************************************************************)
(* File playback and TTS gating of the AI engine: SessionStore             *)
(* (src/core/session_store.py), ConversationCoordinator                    *)
(* (src/core/conversation_coordinator.py), PlaybackManager                 *)
(* (src/core/playback_manager.py), and the engine handlers that act on the *)
(* gate: barge-in, ClearTtsGating, PlaybackFinished and call cleanup.      *)
(*                                                                         *)
(* The engine is one asyncio event loop.  The store's lock is never held   *)
(* over a suspension, so store and coordinator calls run to completion; a  *)
(* coroutine yields only where it awaits an ARI request or a timer.  Each  *)
(* action below is the code between two such points.  Asterisk, the        *)
(* network and the caller are the environment.                             *)
(***************************************************************************)
EXTENDS Integers, FiniteSets

CONSTANTS Calls,        \* call identifiers (caller channel identifiers)
          Playbacks,    \* playback identifiers; each is generated once
          CallOf,       \* the call whose identifier a playback id embeds
          Bargers,      \* concurrent runs of the barge-in action
          NoCall        \* not a call

ASSUME NoCallType == NoCall \notin Calls
ASSUME CallOfType == CallOf \in [Playbacks -> Calls]

VARIABLES
  phase,      \* phase[c]: how far the life of the call has come
  stored,     \* the calls whose session is in SessionStore._sessions_by_call_id
  session,    \* session[c]: the CallSession object, shared by every holder
  refs,       \* SessionStore._playbacks
  gated,      \* ConversationCoordinator._gated_calls
  captured,   \* ConversationCoordinator._capture_enabled_calls
  play,       \* play[p]: where the play_audio coroutine of p stands
  fallback,   \* the playbacks with a pending _gating_fallback_task
  barge,      \* barge[b]: a run of _apply_barge_in_action
  ari,        \* ari[p]: the playback as Asterisk sees it
  events      \* PlaybackFinished events on their way to the engine

vars == <<phase, stored, session, refs, gated, captured, play, fallback, barge, ari, events>>
store == <<phase, stored, session, gated, captured>>
asterisk == <<ari, events>>

CallSession == [tts_tokens : SUBSET Playbacks, tts_active_count : Nat,
                tts_playing : BOOLEAN, audio_capture_enabled : BOOLEAN,
                media_rx_confirmed : BOOLEAN]

(* listed: the playbacks the run set out to stop; todo: those still to stop; *)
(* force: its caller re-enables capture once it is done.                     *)
Idle == [call |-> NoCall, listed |-> {}, todo |-> {}, force |-> FALSE]
Barge == [call : Calls \cup {NoCall}, listed : SUBSET Playbacks,
          todo : SUBSET Playbacks, force : BOOLEAN]

TypeOK ==
  /\ phase \in [Calls -> {"new", "live", "cleaning", "cancelled", "ended"}]
  /\ stored \subseteq Calls
  /\ session \in [Calls -> CallSession]
  /\ refs \subseteq Playbacks
  /\ gated \subseteq Calls
  /\ captured \subseteq Calls
  /\ play \in [Playbacks -> {"idle", "requested", "started", "failed", "aborted"}]
  /\ fallback \subseteq Playbacks
  /\ barge \in [Bargers -> Barge]
  /\ ari \in [Playbacks -> {"none", "queued", "playing", "over"}]
  /\ events \subseteq Playbacks

(* A call is served from its registration until its session is removed. *)
Served(c) == phase[c] \in {"live", "cleaning", "cancelled"}

PlaybacksOf(c) == {p \in refs : CallOf[p] = c}

-----------------------------------------------------------------------------
(* CallSession under set_gating_token and clear_gating_token.              *)

set_gating_token(s, p) ==
  LET tokens == s.tts_tokens \cup {p}
      count == Cardinality(tokens)
      start == s.tts_active_count = 0 /\ count > 0
  IN  [tts_tokens |-> tokens,
       tts_active_count |-> count,
       tts_playing |-> IF start \/ count > 0 THEN TRUE ELSE s.tts_playing,
       audio_capture_enabled |-> IF start \/ count > 0 THEN FALSE ELSE s.audio_capture_enabled,
       media_rx_confirmed |-> s.media_rx_confirmed]

(* Fault: the end of any playback opens the gate. *)
clear_gating_token_OpenAlways(s, P) ==
  LET tokens == s.tts_tokens \ P
  IN  [s EXCEPT !.tts_tokens = tokens, !.tts_active_count = Cardinality(tokens),
                !.tts_playing = FALSE, !.audio_capture_enabled = TRUE]

(* Fault: an off-by-one in the test for the last token. *)
clear_gating_token_OffByOne(s, P) ==
  LET tokens == s.tts_tokens \ P
      count == Cardinality(tokens)
      end == s.tts_active_count > 1 /\ count = 0
  IN  [s EXCEPT !.tts_tokens = tokens, !.tts_active_count = count,
                !.tts_playing = @ /\ ~end, !.audio_capture_enabled = @ \/ end]

(* clear_gating_token for each playback of P in turn, with nothing between.  *)
clear_gating_token(s, P) ==
  LET tokens == s.tts_tokens \ P
      count == Cardinality(tokens)
      end == s.tts_active_count > 0 /\ count = 0
  IN  [tts_tokens |-> tokens,
       tts_active_count |-> count,
       tts_playing |-> IF end THEN FALSE ELSE IF count > 0 THEN TRUE ELSE s.tts_playing,
       audio_capture_enabled |->
         IF end THEN TRUE ELSE IF count > 0 THEN FALSE ELSE s.audio_capture_enabled,
       media_rx_confirmed |-> s.media_rx_confirmed]

-----------------------------------------------------------------------------
(* The coordinator's gauges, and its operations on a stored session.       *)

Put(S, c, b) == IF b THEN S \cup {c} ELSE S \ {c}

(* upsert_call and sync_from_session (or register_call) of the object s. *)
SaveSession(c, s) ==
  /\ session' = [session EXCEPT ![c] = s]
  /\ stored' = stored \cup {c}
  /\ gated' = Put(gated, c, s.tts_playing)
  /\ captured' = Put(captured, c, s.audio_capture_enabled)

on_tts_start(c, p) ==
  IF c \in stored
  THEN /\ session' = [session EXCEPT ![c] = set_gating_token(@, p)]
       /\ gated' = gated \cup {c}
       /\ captured' = captured \ {c}
  ELSE UNCHANGED <<session, gated, captured>>

on_tts_end(c, P) ==
  IF c \in stored
  THEN LET s == clear_gating_token(session[c], P)
       IN  /\ session' = [session EXCEPT ![c] = s]
           /\ gated' = Put(gated, c, s.tts_playing)
           /\ captured' = Put(captured, c, s.audio_capture_enabled)
  ELSE UNCHANGED <<session, gated, captured>>

-----------------------------------------------------------------------------
(* Calls and audio.                                                        *)

(* _handle_caller_stasis_start_hybrid creates the session, capture enabled. *)
RegisterCall(c) ==
  /\ phase[c] = "new"
  /\ phase' = [phase EXCEPT ![c] = "live"]
  /\ SaveSession(c, session[c])
  /\ UNCHANGED <<refs, play, fallback, barge, asterisk>>

(* The first inbound audio frame of a call. *)
MediaRx(c) ==
  /\ c \in stored
  /\ ~session[c].media_rx_confirmed
  /\ SaveSession(c, [session[c] EXCEPT !.media_rx_confirmed = TRUE])
  /\ UNCHANGED <<phase, refs, play, fallback, barge, asterisk>>

(* ClearTtsGating from the provider: every token of the call is released. *)
ClearTtsGating(c) ==
  /\ c \in stored
  /\ session[c].tts_tokens # {}
  /\ on_tts_end(c, session[c].tts_tokens)
  /\ UNCHANGED <<phase, stored, refs, play, fallback, barge, asterisk>>

-----------------------------------------------------------------------------
(* PlaybackManager.                                                        *)

(* play_audio up to the ARI request: gate, track, ask Asterisk to play. *)
PlayAudio(p) ==
  /\ play[p] = "idle"
  /\ CallOf[p] \in stored
  /\ on_tts_start(CallOf[p], p)
  /\ refs' = refs \cup {p}
  /\ play' = [play EXCEPT ![p] = "requested"]
  /\ ari' = [ari EXCEPT ![p] = "queued"]
  /\ UNCHANGED <<phase, stored, fallback, barge, events>>

(* play_audio for a session without a bridge: gated and released at once. *)
PlayRejected(p) ==
  LET c == CallOf[p]
      s == clear_gating_token(set_gating_token(session[c], p), {p})
  IN  /\ play[p] = "idle"
      /\ c \in stored
      /\ SaveSession(c, s)
      /\ play' = [play EXCEPT ![p] = "failed"]
      /\ UNCHANGED <<phase, refs, fallback, barge, asterisk>>

(* Fault: no fallback timer is started. *)
PlayStarted_NoTimer(p) ==
  /\ play[p] = "requested"
  /\ ari[p] \in {"playing", "over"}
  /\ play' = [play EXCEPT ![p] = "started"]
  /\ UNCHANGED <<store, refs, fallback, barge, asterisk>>

(* Asterisk's answer arrives: the fallback timer starts. *)
PlayStarted(p) ==
  /\ play[p] = "requested"
  /\ ari[p] \in {"playing", "over"}
  /\ play' = [play EXCEPT ![p] = "started"]
  /\ fallback' = fallback \cup {p}
  /\ UNCHANGED <<store, refs, barge, asterisk>>

(* The request fails or its answer is lost: the playback may be playing. *)
PlayFailed(p) ==
  /\ play[p] = "requested"
  /\ play' = [play EXCEPT ![p] = "failed"]
  /\ refs' = refs \ {p}
  /\ on_tts_end(CallOf[p], {p})
  /\ ari' = [ari EXCEPT ![p] = IF @ = "queued" THEN "over" ELSE @]
  /\ UNCHANGED <<phase, stored, fallback, barge, events>>

(* on_playback_finished and _gating_fallback_task: whoever pops the        *)
(* reference releases the token; the other finds nothing to do.            *)
PopPlayback(p) ==
  IF p \in refs
  THEN /\ refs' = refs \ {p}
       /\ on_tts_end(CallOf[p], {p})
  ELSE UNCHANGED <<refs, session, gated, captured>>

(* Fault: the reference is dropped and its token kept. *)
PlaybackFinished_KeepToken(p) ==
  /\ p \in events
  /\ events' = events \ {p}
  /\ refs' = refs \ {p}
  /\ UNCHANGED <<store, play, fallback, barge, ari>>

PlaybackFinished(p) ==
  /\ p \in events
  /\ events' = events \ {p}
  /\ PopPlayback(p)
  /\ UNCHANGED <<phase, stored, play, fallback, barge, ari>>

(* Fault: the timer releases the token and keeps the reference. *)
GatingFallback_KeepRef(p) ==
  /\ p \in fallback
  /\ fallback' = fallback \ {p}
  /\ on_tts_end(CallOf[p], {p})
  /\ UNCHANGED <<phase, stored, refs, play, barge, asterisk>>

GatingFallback(p) ==
  /\ p \in fallback
  /\ fallback' = fallback \ {p}
  /\ PopPlayback(p)
  /\ UNCHANGED <<phase, stored, play, barge, asterisk>>

-----------------------------------------------------------------------------
(* _apply_barge_in_action and the handlers that call it.                   *)

(* When each source of a barge-in acts on a call. *)
BargeSources == {"pipeline_vad", "local_vad", "talkdetect", "provider_event"}

Detects(source, c) ==
  LET s == session[c]
  IN  CASE source \in {"pipeline_vad", "local_vad"} ->
             s.media_rx_confirmed /\ ~s.audio_capture_enabled
        [] source = "talkdetect" -> ~s.audio_capture_enabled \/ s.tts_playing
        [] source = "provider_event" ->
             s.media_rx_confirmed /\ (PlaybacksOf(c) # {} \/ s.tts_playing)

(* The run's last stretch: every token of the session object is released if *)
(* the session is still stored, and the object is saved whether it is or    *)
(* not; a pipeline's voice detector then sets the capture flag itself.      *)
ReleaseAndSave(c, s0, force) ==
  LET s == IF c \in stored THEN clear_gating_token(s0, s0.tts_tokens) ELSE s0
  IN  /\ session' = [session EXCEPT ![c] = IF force THEN [s EXCEPT !.audio_capture_enabled = TRUE] ELSE s]
      /\ stored' = stored \cup {c}
      /\ gated' = Put(gated, c, s.tts_playing)
      /\ captured' = Put(captured, c, s.audio_capture_enabled)

(* The run starts: it lists the playbacks to stop, and goes straight to its *)
(* end when there are none.                                                 *)
BargeIn(b, c, source) ==
  LET s == [session[c] EXCEPT !.media_rx_confirmed = TRUE]
      force == source = "pipeline_vad"
      P == PlaybacksOf(c)
  IN  /\ barge[b] = Idle
      /\ c \in stored
      /\ Detects(source, c)
      /\ IF P = {}
         THEN ReleaseAndSave(c, s, force) /\ UNCHANGED barge
         ELSE /\ barge' = [barge EXCEPT ![b] = [call |-> c, listed |-> P, todo |-> P, force |-> force]]
              /\ SaveSession(c, s)
      /\ UNCHANGED <<phase, refs, play, fallback, asterisk>>

(* One stop request: it ends a playback that is playing, unless it fails;   *)
(* Asterisk knows nothing of one that has not begun.                        *)
BargeStop(b, p) ==
  /\ p \in barge[b].todo
  /\ barge' = [barge EXCEPT ![b].todo = @ \ {p}]
  /\ \/ ari[p] = "playing" /\ ari' = [ari EXCEPT ![p] = "over"] /\ events' = events \cup {p}
     \/ UNCHANGED asterisk
  /\ UNCHANGED <<store, refs, play, fallback>>

BargeFinish(b) ==
  /\ barge[b] # Idle
  /\ barge[b].todo = {}
  /\ ReleaseAndSave(barge[b].call, session[barge[b].call], barge[b].force)
  /\ barge' = [barge EXCEPT ![b] = Idle]
  /\ UNCHANGED <<phase, refs, play, fallback, asterisk>>

-----------------------------------------------------------------------------
(* _cleanup_call, at its three points that matter to the gate.             *)

(* The guards: one cleanup per call, whoever asks for the next one.  The    *)
(* session stays stored while provider, bridge and channels are torn down.  *)
CleanupBegin(c) ==
  /\ c \in stored
  /\ phase[c] = "live"
  /\ phase' = [phase EXCEPT ![c] = "cleaning"]
  /\ UNCHANGED <<stored, session, refs, gated, captured, play, fallback, barge, asterisk>>

(* The pipeline task is cancelled, and with it the play_audio calls S it was *)
(* waiting in: CancelledError skips their cleanup.                           *)
CleanupCancel(c, S) ==
  /\ phase[c] = "cleaning"
  /\ S \subseteq {p \in Playbacks : CallOf[p] = c /\ play[p] = "requested"}
  /\ phase' = [phase EXCEPT ![c] = "cancelled"]
  /\ play' = [p \in Playbacks |-> IF p \in S THEN "aborted" ELSE play[p]]
  /\ UNCHANGED <<stored, session, refs, gated, captured, fallback, barge, asterisk>>

(* Fault: the coordinator is not told. *)
CleanupRemove_KeepGauges(c) ==
  /\ phase[c] = "cancelled"
  /\ phase' = [phase EXCEPT ![c] = "ended"]
  /\ stored' = stored \ {c}
  /\ UNCHANGED <<session, refs, gated, captured, play, fallback, barge, asterisk>>

(* remove_call and unregister_call. *)
CleanupRemove(c) ==
  /\ phase[c] = "cancelled"
  /\ phase' = [phase EXCEPT ![c] = "ended"]
  /\ stored' = stored \ {c}
  /\ gated' = gated \ {c}
  /\ captured' = captured \ {c}
  /\ UNCHANGED <<session, refs, play, fallback, barge, asterisk>>

-----------------------------------------------------------------------------
(* Asterisk and the event socket.                                          *)

AsteriskPlays(p) ==
  /\ ari[p] = "queued"
  /\ ari' = [ari EXCEPT ![p] = "playing"]
  /\ UNCHANGED <<store, refs, play, fallback, barge, events>>

AsteriskFinishes(p) ==
  /\ ari[p] = "playing"
  /\ ari' = [ari EXCEPT ![p] = "over"]
  /\ events' = events \cup {p}
  /\ UNCHANGED <<store, refs, play, fallback, barge>>

(* The socket drops; ari_client reconnects and what was sent is gone. *)
EventsLost ==
  /\ events # {}
  /\ events' = {}
  /\ UNCHANGED <<store, refs, play, fallback, barge, ari>>

-----------------------------------------------------------------------------
Init ==
  /\ phase = [c \in Calls |-> "new"]
  /\ stored = {}
  /\ session = [c \in Calls |-> [tts_tokens |-> {}, tts_active_count |-> 0,
                                 tts_playing |-> FALSE, audio_capture_enabled |-> TRUE,
                                 media_rx_confirmed |-> FALSE]]
  /\ refs = {}
  /\ gated = {}
  /\ captured = {}
  /\ play = [p \in Playbacks |-> "idle"]
  /\ fallback = {}
  /\ barge = [b \in Bargers |-> Idle]
  /\ ari = [p \in Playbacks |-> "none"]
  /\ events = {}

CallStep(c) ==
  \/ RegisterCall(c)
  \/ MediaRx(c)
  \/ ClearTtsGating(c)
  \/ CleanupBegin(c)
  \/ \E S \in SUBSET Playbacks : CleanupCancel(c, S)
  \/ CleanupRemove(c)

PlaybackStep(p) ==
  \/ PlayAudio(p)
  \/ PlayRejected(p)
  \/ PlayStarted(p)
  \/ PlayFailed(p)
  \/ PlaybackFinished(p)
  \/ GatingFallback(p)

BargeStep(b) ==
  \/ \E c \in Calls, source \in BargeSources : BargeIn(b, c, source)
  \/ \E p \in Playbacks : BargeStop(b, p)
  \/ BargeFinish(b)

AsteriskStep == (\E p \in Playbacks : AsteriskPlays(p) \/ AsteriskFinishes(p)) \/ EventsLost

Next ==
  \/ \E c \in Calls : CallStep(c)
  \/ \E p \in Playbacks : PlaybackStep(p)
  \/ \E b \in Bargers : BargeStep(b)
  \/ AsteriskStep

Safety == Init /\ [][Next]_vars

(* An ARI request is answered or times out, a timer fires, a coroutine that *)
(* can run is scheduled.  Nothing is assumed of Asterisk, of the delivery   *)
(* of its events, nor that anybody hangs up or speaks.                      *)
Fairness ==
  /\ \A p \in Playbacks : WF_vars(PlayStarted(p) \/ PlayFailed(p)) /\ WF_vars(GatingFallback(p))
  /\ \A b \in Bargers : WF_vars((\E p \in Playbacks : BargeStop(b, p)) \/ BargeFinish(b))
  /\ \A c \in Calls : WF_vars((\E S \in SUBSET Playbacks : CleanupCancel(c, S)) \/ CleanupRemove(c))

Spec == Safety /\ Fairness

-----------------------------------------------------------------------------
(* PROPERTIES                                                              *)

(* The gate follows the tokens (set_gating_token, clear_gating_token and    *)
(* every direct write of the flags): the counter is the number of tokens,   *)
(* TTS is marked as playing exactly while there are some, and the caller of *)
(* a served call is heard exactly while there are none, whichever of the    *)
(* playbacks, timers, events and barge-ins came first.                      *)
GateFollowsTokens ==
  \A c \in Calls :
    LET s == session[c]
    IN  /\ s.tts_active_count = Cardinality(s.tts_tokens)
        /\ s.tts_playing <=> s.tts_tokens # {}
        /\ Served(c) => (s.audio_capture_enabled <=> s.tts_tokens = {})

(* The coordinator's gauges agree with the sessions they describe: for a    *)
(* served call they repeat the flags of its session, and a call that is not *)
(* stored has none.                                                         *)
GaugesFollowSessions ==
  \A c \in Calls :
    /\ Served(c) => /\ c \in gated <=> session[c].tts_playing
                    /\ c \in captured <=> session[c].audio_capture_enabled
    /\ c \notin stored => c \notin gated \cup captured

(* No token is orphaned: while the engine serves a call and has not         *)
(* cancelled its tasks, each token of the session belongs to a tracked      *)
(* playback of that call whose play_audio is still waiting for Asterisk, or *)
(* whose fallback timer is pending; so one of them will release it.         *)
TokenHasReleaser ==
  \A c \in Calls : phase[c] \in {"live", "cleaning"} =>
    \A p \in session[c].tts_tokens :
      /\ CallOf[p] = c
      /\ p \in refs
      /\ play[p] = "requested" \/ p \in fallback

(* A served call's token is withdrawn only together with the reference of   *)
(* its own playback, or together with all the tokens of the call (barge-in, *)
(* ClearTtsGating): the end of one playback never lets another one be       *)
(* captured.                                                                *)
TokensWithdrawnByOwner ==
  [][\A c \in Calls : Served(c) =>
       \A p \in session[c].tts_tokens \ session'[c].tts_tokens :
         p \in refs' => session'[c].tts_tokens = {}]_vars

(* The caller of a live call is never muted for good: every token goes,     *)
(* even when PlaybackFinished never arrives.                                *)
GateReopens ==
  \A p \in Playbacks :
    (phase[CallOf[p]] = "live" /\ p \in session[CallOf[p]].tts_tokens)
      ~> (p \notin session[CallOf[p]].tts_tokens \/ phase[CallOf[p]] # "live")

(* A playback reference does not outlive its playback for good, unless the  *)
(* cleanup of the call cancelled the play_audio that made it.               *)
ReferencesPurged ==
  \A p \in Playbacks : (p \in refs) ~> (p \notin refs \/ play[p] = "aborted")

(* The gate of the served calls, as the abstract module sees it. *)
Gate == INSTANCE HalfDuplexGate WITH
  status <- [c \in Calls |-> IF Served(c) THEN "live" ELSE IF phase[c] = "ended" THEN "over" ELSE "new"],
  speaking <- {p \in Playbacks : Served(CallOf[p]) /\ p \in session[CallOf[p]].tts_tokens},
  open <- {c \in Calls : Served(c) /\ session[c].audio_capture_enabled}

GateSafety == Gate!Safety
GateSpec == Gate!Spec

(* conversation_coordinator.py:94, on_tts_start: "Disable audio capture for *)
(* the duration of a TTS playback."  So a barge-in, which stops playbacks,  *)
(* gives up the tokens of those it stopped and of no other: a reply that    *)
(* begins while the stop requests are out keeps its own.                    *)
CaptureOffForTheDuration ==
  [][\A b \in Bargers :
       (barge[b] # Idle /\ barge'[b] = Idle /\ Served(barge[b].call)) =>
         session[barge[b].call].tts_tokens \subseteq barge[b].listed]_vars

(* engine.py:5866, _cleanup_call: "Finally remove the session."  The        *)
(* session of an ended call is gone, and so are its gauges.                 *)
EndedCallsForgotten == \A c \in Calls : phase[c] = "ended" => c \notin stored
=============================================================================
