--------------------------- MODULE OpenAIRealtime ---------------------------
(***************************************************************************)
(* providers/openai_realtime.py: one session of the OpenAI Realtime        *)
(* provider.  The receive loop handles the events of the socket one by     *)
(* one; tool calls, the farewell's time-out, the greeting's fallback and   *)
(* reconnections are tasks of their own.  The service is the environment:  *)
(* it makes one response at a time, on request or when the caller spoke,   *)
(* and cancels it on request.  Left out: audio formats, transcripts,       *)
(* latencies and the egress pacer, off unless egress_pacer_enabled.        *)
(***************************************************************************)
EXTENDS Naturals

CONSTANTS Apis,          \* api_version, drawn in Init
          MaxSockets,    \* bound: connections made
          MaxResponses,  \* bound: responses of the service
          Attempts,      \* of a reconnection, 5 in the code
          Faults         \* what may go wrong: "drop", "refuse", "tool"

ASSUME RealtimeAssumption ==
    /\ Apis \subseteq {"ga", "beta"} /\ Faults \subseteq {"drop", "refuse", "tool"}
    /\ MaxSockets \in Nat /\ MaxResponses \in Nat /\ Attempts \in Nat \ {0}

VARIABLES
    api,
    phase,      \* "idle", "connecting", "waiting" (for session.created), "acking", "up",
                \* "stopping" (_closing), "closed" (_closed) or "failed" (to start)
    websocket,  \* the socket of the provider, or 0
    open,       \* sockets that are open
    loops,      \* sockets with a receive loop
    made,       \* sockets made
    retry,      \* _reconnect_task: "none", "connecting" or "backoff"
    left,       \* attempts it has left
    active,     \* the service's response under way, or 0
    asked,      \* response.create requests the service has not taken up
    cancelling, \* response.cancel was sent for the active response
    created,    \* responses created
    current,    \* _current_response_id, or 0
    greeting,   \* _greeting_response_id, or 0
    greeted,    \* _greeting_completed
    fallback,   \* _greeting_vad_task is running
    hangup,     \* _hangup_after_response
    farewell,   \* _farewell_response_id, or 0
    waiting,    \* _farewell_waiting_for_audio_done
    timer,      \* _farewell_timeout_task is running
    burst,      \* _in_audio_burst
    heard,      \* the current response is in _audio_seen_response_ids
    tool,       \* a function call: "none", "hangup" or "other" in execution, "farewell" or
                \* "result" to be answered
    toolsocket, \* the socket in its context
    speaking,   \* the engine got AgentAudio and no AgentAudioDone since
    ready       \* HangupReady events emitted

session  == <<api, phase>>
sockets  == <<websocket, open, loops, made, retry, left>>
service  == <<active, asked, cancelling, created>>
greetings == <<greeting, greeted, fallback>>
goodbye  == <<hangup, farewell, waiting, timer, ready>>
audio    == <<burst, speaking>>
response == <<current, heard>>
tools    == <<tool, toolsocket>>
vars     == <<session, sockets, service, response, greetings, goodbye, audio, tools>>

Live == phase \notin {"idle", "closed"}  \* _call_id is set
Open == websocket \in open

Init ==
    /\ api \in Apis /\ phase = "idle"
    /\ websocket = 0 /\ open = {} /\ loops = {} /\ made = 0 /\ retry = "none" /\ left = 0
    /\ active = 0 /\ asked = {} /\ cancelling = FALSE /\ created = 0
    /\ current = 0 /\ greeting = 0 /\ greeted = FALSE /\ fallback = FALSE
    /\ hangup = FALSE /\ farewell = 0 /\ waiting = FALSE /\ timer = FALSE /\ ready = 0
    /\ burst = FALSE /\ speaking = FALSE /\ heard = FALSE
    /\ tool = "none" /\ toolsocket = 0

\* A request is sent on the provider's socket, if it is open.
Asks(q) == asked' = IF Open THEN asked \cup {q} ELSE asked

-----------------------------------------------------------------------------
(* Audio to the engine.                                                     *)

\* The burst is over: AgentAudioDone if it was known, HangupReady if the farewell was
\* waited for.
EndsBurst(known) ==
    /\ burst' = IF Live THEN FALSE ELSE burst
    /\ speaking' = (speaking /\ ~(Live /\ known))
    /\ IF Live /\ waiting /\ farewell # 0
       THEN /\ timer' = FALSE /\ waiting' = FALSE /\ farewell' = 0
            /\ ready' = ready + 1
       ELSE UNCHANGED <<timer, waiting, farewell, ready>>

EmitAudioDone == EndsBurst(burst)
QuietAudio == UNCHANGED <<audio, timer, waiting, farewell, ready>>

\* Variant: the mark is cleared first with every protocol.
Known_Cleared == FALSE

\* response.audio.done of the beta protocol clears the mark of the burst first.
Known == burst /\ api = "ga"

-----------------------------------------------------------------------------
(* start_session and stop_session.                                          *)

NewSocket ==
    /\ made < MaxSockets /\ made' = made + 1
    /\ websocket' = made' /\ open' = open \cup {made'}

Start ==
    /\ phase = "idle" /\ phase' = "connecting"
    /\ UNCHANGED <<api, sockets, service, response, greetings, goodbye, audio, tools>>

Connected ==
    /\ phase = "connecting" /\ phase' = "waiting" /\ NewSocket
    /\ UNCHANGED <<api, loops, retry, left, service, response, greetings, goodbye, audio, tools>>

\* The connection fails, or session.created does not come: the caller gets an exception.
NotStarted ==
    /\ phase \in {"connecting", "waiting"} /\ "refuse" \in Faults /\ phase' = "failed"
    /\ UNCHANGED <<api, sockets, service, response, greetings, goodbye, audio, tools>>

\* session.created came: the configuration is sent and the receive loop starts.
Begun ==
    /\ phase = "waiting" /\ Open
    /\ phase' = "acking" /\ loops' = loops \cup {websocket}
    /\ UNCHANGED <<api, websocket, open, made, retry, left, service, response, greetings,
                   goodbye, audio, tools>>

\* session.updated came, or two seconds passed.
Greets(explicit) ==
    /\ phase = "acking" /\ phase' = "up"
    /\ Asks(IF explicit THEN "greeting" ELSE "initial")
    /\ fallback' = (explicit /\ Open)
    /\ UNCHANGED <<api, sockets, active, cancelling, created, response, greeting, greeted,
                   goodbye, audio, tools>>

\* stop_session cancels the receive loop, which ends its burst, then the other tasks; it
\* awaits each of them.
StopBegins ==
    /\ Live /\ phase # "stopping" /\ phase' = "stopping"
    /\ loops' = loops \ {websocket}
    /\ IF websocket \in loops THEN EmitAudioDone ELSE QuietAudio
    /\ UNCHANGED <<api, websocket, open, made, retry, left, service, response, greetings,
                   hangup, tools>>

\* The reconnection is not cancelled.
Stopped ==
    /\ phase = "stopping" /\ phase' = "closed"
    /\ timer' = FALSE /\ fallback' = FALSE /\ tool' = "none"
    /\ open' = open \ {websocket} /\ websocket' = 0
    /\ active' = 0 /\ asked' = {} /\ cancelling' = FALSE
    /\ EmitAudioDone
    /\ UNCHANGED <<api, loops, made, retry, left, created, response, greeting, greeted, hangup,
                   toolsocket>>

-----------------------------------------------------------------------------
(* The receive loop, one action per event.                                  *)

Receives == Open /\ websocket \in loops
\* Variant: no time-out is started for the farewell.
StartsTimer_Never == FALSE

\* _start_farewell_timeout.
StartsTimer == TRUE

\* A response begins, on request or because the caller spoke.  The first one is the
\* greeting; the next one after the hangup tool ran is the farewell.
ResponseCreated(q) ==
    /\ Receives /\ active = 0 /\ created < MaxResponses /\ q \in asked \cup {"vad"}
    /\ created' = created + 1 /\ active' = created' /\ asked' = asked \ {q}
    /\ current' = created' /\ heard' = FALSE
    /\ LET first == ~greeted /\ greeting = 0
           last  == ~first /\ hangup
       IN  /\ greeting' = IF first THEN created' ELSE greeting
           /\ farewell' = IF last THEN created' ELSE farewell
           /\ waiting' = (waiting \/ last)
           /\ timer' = IF last THEN StartsTimer ELSE timer
    /\ UNCHANGED <<session, sockets, cancelling, greeted, fallback, hangup, ready, audio, tools>>

\* The service refuses a request while a response is under way: an error event, logged.
Refused(q) ==
    /\ Receives /\ active # 0 /\ q \in asked /\ asked' = asked \ {q}
    /\ UNCHANGED <<session, sockets, active, cancelling, created, response, greetings, goodbye,
                   audio, tools>>

AudioDelta ==
    /\ Receives /\ active # 0
    /\ heard' = (heard \/ current # 0)
    /\ burst' = TRUE /\ speaking' = (speaking \/ Live)
    /\ UNCHANGED <<session, sockets, service, current, greetings, goodbye, tools>>

AudioDone ==
    /\ Receives /\ active # 0 /\ heard /\ EndsBurst(Known)
    /\ UNCHANGED <<session, sockets, service, response, greetings, hangup, tools>>

FunctionCall(k) ==
    /\ Receives /\ active # 0 /\ tool = "none"
    /\ tool' = k /\ toolsocket' = websocket
    /\ UNCHANGED <<session, sockets, service, response, greetings, goodbye, audio>>

\* response.done, or response.cancelled after response.cancel.  HangupReady is sent at once
\* for a farewell without audio.
ResponseEnds(how) ==
    /\ Receives /\ active # 0
    /\ (how = "cancelled" => cancelling)
    /\ active' = 0 /\ cancelling' = FALSE /\ current' = 0 /\ heard' = FALSE
    /\ greeted' = (greeted \/ (how = "done" /\ current = greeting))
    /\ EmitAudioDone
    /\ hangup' = (hangup /\ ~(farewell' # 0 /\ current = farewell' /\ how = "done"))
    /\ UNCHANGED <<session, sockets, asked, created, greeting, fallback, tools>>

\* input_audio_buffer.speech_started interrupts what the caller hears, but for the greeting;
\* in the beta protocol a response whose audio has just begun may go on, a stutter here.
SpeechStarted ==
    /\ Receives /\ ~(~greeted /\ greeting # 0 /\ current \in {0, greeting})
    /\ cancelling' = (cancelling \/ (current # 0 /\ active # 0))
    /\ EmitAudioDone
    /\ UNCHANGED <<session, sockets, active, asked, created, response, greetings, hangup, tools>>

-----------------------------------------------------------------------------
(* The tasks.                                                               *)

\* A tool ran.  The hangup tool makes the next response the farewell.
ToolRan ==
    /\ tool \in {"hangup", "other"}
    /\ tool' = IF tool = "hangup" THEN "farewell" ELSE "result"
    /\ hangup' = (hangup \/ tool = "hangup")
    /\ UNCHANGED <<session, sockets, service, response, greetings, farewell, waiting, timer, ready,
                   audio, toolsocket>>

\* An exception: the service gets the error and no request.
ToolFails ==
    /\ "tool" \in Faults /\ tool \in {"hangup", "other"} /\ tool' = "none"
    /\ UNCHANGED <<session, sockets, service, response, greetings, goodbye, audio, toolsocket>>

\* The result goes to the socket of the context, the farewell to the provider's.
ToolAnswers ==
    /\ tool \in {"farewell", "result"} /\ tool' = "none"
    /\ IF tool = "farewell" \/ toolsocket = websocket THEN Asks(tool) ELSE UNCHANGED asked
    /\ UNCHANGED <<session, sockets, active, cancelling, created, response, greetings, goodbye,
                   audio, toolsocket>>

\* Five seconds after the farewell began.
FarewellTimeout ==
    /\ timer /\ timer' = FALSE /\ ready' = ready + 1
    /\ UNCHANGED <<session, sockets, service, response, greetings, hangup, farewell, waiting,
                   audio, tools>>

\* Five seconds after the greeting was asked for.
GreetingFallback ==
    /\ fallback /\ fallback' = FALSE /\ greeted' = TRUE
    /\ UNCHANGED <<session, sockets, service, response, greeting, goodbye, audio, tools>>

-----------------------------------------------------------------------------
(* Lost connections.                                                        *)

\* The service's end of the session goes with the connection.
Drop ==
    /\ "drop" \in Faults /\ Open /\ open' = open \ {websocket}
    /\ active' = 0 /\ asked' = {} /\ cancelling' = FALSE
    /\ UNCHANGED <<session, websocket, loops, made, retry, left, created, response, greetings,
                   goodbye, audio, tools>>

Retries == phase \in {"acking", "up"} /\ retry = "none"

\* The receive loop of a closed socket ends its burst and starts the reconnection.
LoopEnds(s) ==
    /\ s \in loops \ open /\ loops' = loops \ {s}
    /\ EmitAudioDone
    /\ IF Retries THEN retry' = "backoff" /\ left' = Attempts ELSE UNCHANGED <<retry, left>>
    /\ UNCHANGED <<session, websocket, open, made, service, response, greetings, hangup, tools>>

\* An attempt begins, unless the session ended.
RetryBegins ==
    /\ retry = "backoff"
    /\ retry' = IF phase \in {"stopping", "closed"} THEN "none" ELSE "connecting"
    /\ UNCHANGED <<session, websocket, open, loops, made, left, service, response, greetings,
                   goodbye, audio, tools>>

\* It succeeds, whatever became of the session meanwhile.
RetryConnects ==
    /\ retry = "connecting" /\ NewSocket
    /\ retry' = "none" /\ burst' = FALSE /\ loops' = loops \cup {websocket'}
    /\ UNCHANGED <<session, left, service, response, greetings, goodbye, speaking, tools>>

RetryFails ==
    /\ retry = "connecting" /\ "refuse" \in Faults
    /\ left' = left - 1 /\ retry' = IF left = 1 THEN "none" ELSE "backoff"
    /\ UNCHANGED <<session, websocket, open, loops, made, service, response, greetings, goodbye,
                   audio, tools>>

Next ==
    \/ Start \/ Connected \/ NotStarted \/ Begun \/ StopBegins \/ Stopped
    \/ \E explicit \in BOOLEAN : Greets(explicit)
    \/ \E q \in asked \cup {"vad"} : ResponseCreated(q)
    \/ \E q \in asked : Refused(q)
    \/ AudioDelta \/ AudioDone \/ SpeechStarted
    \/ \E k \in {"hangup", "other"} : FunctionCall(k)
    \/ \E how \in {"done", "cancelled"} : ResponseEnds(how)
    \/ ToolRan \/ ToolFails \/ ToolAnswers \/ FarewellTimeout \/ GreetingFallback
    \/ Drop \/ RetryBegins \/ RetryConnects \/ RetryFails
    \/ \E s \in loops : LoopEnds(s)

\* Timers expire, cancelled tasks end, and a closed socket ends its loop.
Fairness ==
    /\ WF_vars(FarewellTimeout) /\ WF_vars(Stopped)
    /\ \A s \in 1..MaxSockets : WF_vars(LoopEnds(s))

Spec == Init /\ [][Next]_vars /\ Fairness

-----------------------------------------------------------------------------
(* Correctness.                                                             *)

\* A burst is closed with its response, so that the next one has a stream of its own, and with
\* the session, however it ends.  With the beta protocol, the default of config.py, it is not:
\* response.audio.done clears _in_audio_burst before _emit_audio_done looks at it.
BurstsClosed == (Receives /\ active = 0) \/ phase = "closed" => ~speaking

\* A farewell that began ends the call: its audio, its time-out, a barge-in, a lost
\* connection or the end of the session says HangupReady.
FarewellEnds == waiting ~> ready > 0

\* The engine is told once: the time-out and the end of the farewell exclude each other.
HangupReadyOnce == ready <= 1

\* A session that ended leaves no connection to the service.
ConnectionClosed == phase = "closed" => open = {}
=============================================================================
