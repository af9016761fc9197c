---------------------------- MODULE MCProviders ----------------------------
(***************************************************************************)
(* The providers for TLC.  A call has one, so a behaviour picks one.  The  *)
(* local provider is looked at twice: at its connections, and at what its  *)
(* LLM says while one connection is lost.                                  *)
(***************************************************************************)
EXTENDS OpenAIRealtime

CONSTANTS Gateways, Auths, Modes, LocalAttempts, Rounds, Scenarios, Markers

VARIABLES
    pick, local_phase, local_websocket, local_left, local_fallback,
    gateway, auth, mode, scenario, port, sock, at, my, listener, on, busy, sender, rounds,
    text, due, results, done, flagged, hung,
    markers, stage, link, reader, watchdog, stopping, in_audio_burst, has_output, armed,
    audio_started, emitted, hangup_after_response, hangup_ready_emitted, cleanup_after_tts,
    hung_up, call

Links == [sockets |-> 3, texts |-> 0, faults |-> {"drop", "stop", "refuse"}]
Talk  == [sockets |-> 2, texts |-> 1, faults |-> {"drop"}]
LinksAndTalk == {Links, Talk}

LP == INSTANCE LocalProvider WITH
    Attempts <- LocalAttempts, phase <- local_phase,
    websocket <- local_websocket, left <- local_left, fallback <- local_fallback

GL == INSTANCE GoogleLive

ASSUME LocalGiven == LP!LocalAssumption

local == <<local_phase, local_websocket, local_left, local_fallback, gateway, auth, mode,
           scenario, port, sock, at, my, listener, on, busy, sender, rounds, text, due, results,
           done, flagged, hung>>

google == <<markers, stage, link, reader, watchdog, stopping, in_audio_burst, has_output, armed,
            audio_started, emitted, hangup_after_response, hangup_ready_emitted,
            cleanup_after_tts, hung_up, call>>

Only(instance) == gateway /\ mode = "tts" /\ scenario = instance /\ port

MCInit ==
    /\ pick \in {"realtime", "local", "google"} /\ Init /\ LP!Init /\ GL!Init
    /\ pick # "local" => Only(Talk)
    /\ pick # "google" => markers
    /\ IF scenario = Links THEN gateway /\ auth /\ mode = "tts" ELSE ~auth

MCNext ==
    /\ UNCHANGED pick
    /\ \/ pick = "realtime" /\ Next /\ UNCHANGED <<local, google>>
       \/ pick = "local" /\ LP!Next /\ UNCHANGED <<vars, google>>
       \/ pick = "google" /\ GL!Next /\ UNCHANGED <<vars, local>>

MCSpec ==
    /\ MCInit /\ [][MCNext]_<<pick, vars, local, google>>
    /\ Fairness /\ LP!Fairness /\ GL!Fairness

ResultOnce == LP!ResultOnce
Recovers == LP!Recovers
GoodbyeHangsUp == LP!GoodbyeHangsUp
\* A goodbye ends the call, also when the socket is lost over it.
GoodbyeEnds == GL!GoodbyeEnds /\ GL!LostEnds
CallerSpared == GL!CallerSpared
=============================================================================
