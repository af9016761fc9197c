--------------------------- MODULE LocalProvider ---------------------------
(***************************************************************************)
(* providers/local.py: one call's session with the local AI server.  The   *)
(* starter, the receive loop, the send loop and the background task all    *)
(* reconnect with _reconnect, possibly at once; a success of one replaces  *)
(* both loops.  A text of the server's LLM goes through the structured     *)
(* tool gateway, whose answer and time-out race, or through the parser;    *)
(* its result may be the hang-up tool.  Left out: audio formats, prompts,  *)
(* status, barge-in acknowledgements (nothing waits for them).             *)
(***************************************************************************)
EXTENDS Naturals

CONSTANTS Gateways,    \* _is_structured_tool_gateway_active(), drawn in Init
          Auths,       \* an auth_token is configured, drawn in Init
          Modes,       \* farewell mode, drawn in Init: "tts" or "asterisk"
          Attempts,    \* of a reconnection, 8 in the code
          Rounds,      \* of the background task, 12 minutes of 30 s in the code
          Scenarios    \* bounds, drawn in Init: the connections made, the texts of the LLM, and
                       \* what may go wrong: "drop", "stop" (the server), "refuse", "auth"

\* Assumed by the module that gives the constants their values.
LocalAssumption ==
    /\ Gateways \subseteq BOOLEAN /\ Auths \subseteq BOOLEAN /\ Modes \subseteq {"tts", "asterisk"}
    /\ \A s \in Scenarios : s.sockets \in Nat /\ s.texts \in Nat
                             /\ s.faults \subseteq {"drop", "stop", "refuse", "auth"}
    /\ Attempts \in Nat \ {0} /\ Rounds \in Nat

VARIABLES
    gateway, auth, mode, scenario,
    port,       \* the server's port is open
    phase,      \* "idle", "starting", "started", "greeting", "up", "stopped" (the call is
                \* being cleaned up) or "failed" (to start)
    websocket,  \* the provider's socket, or 0
    sock,       \* each socket: "none", "open", "lost" or "closed" (normally)
    at,         \* where each _reconnect is: "none", "probe", "connect", "auth", "backoff"
    left,       \* attempts it has left
    my,         \* the socket it authenticates
    listener,   \* _listener_task: "none", "reads" or "over"; it may be reconnecting
    on,         \* the socket it reads
    busy,       \* the text it is processing, or 0
    sender,     \* _sender_task runs
    rounds,     \* of the background task, 0 when it is not running
    text,       \* each text: "none", "gateway", "repair", "farewell" or "over"
    due,        \* the socket on which each text's gateway answer will come, or 0
    results,    \* history: results of each text
    done,       \* _emit_done: "none", "sleep" or "hanging" (in the engine's delay)
    flagged,    \* the session's cleanup_after_tts
    fallback,   \* _hangup_fallback is asleep
    hung        \* the engine hung the caller up

config  == <<gateway, auth, mode, scenario>>
sockets == <<port, websocket, sock>>
retry   == <<at, left, my>>
loops   == <<listener, on, busy, sender, rounds>>
texts   == <<text, due, results>>
goodbye == <<done, flagged, fallback, hung>>
vars    == <<config, phase, sockets, retry, loops, texts, goodbye>>

Sockets == 1 .. scenario.sockets
Texts   == 1 .. scenario.texts
Failures  == scenario.faults
Roles   == {"starter", "listener", "sender", "background"}
IsOpen(s) == s # 0 /\ sock[s] = "open"

Init ==
    /\ gateway \in Gateways /\ auth \in Auths /\ mode \in Modes /\ scenario \in Scenarios
    /\ port \in (IF "stop" \in Failures THEN BOOLEAN ELSE {TRUE}) /\ phase = "idle"
    /\ websocket = 0 /\ sock = [s \in Sockets |-> "none"]
    /\ at = [r \in Roles |-> "none"] /\ left = [r \in Roles |-> 0] /\ my = [r \in Roles |-> 0]
    /\ listener = "none" /\ on = 0 /\ busy = 0 /\ sender = FALSE /\ rounds = 0
    /\ text = [k \in Texts |-> "none"] /\ due = [k \in Texts |-> 0]
    /\ results = [k \in Texts |-> 0]
    /\ done = "none" /\ flagged = FALSE /\ fallback = FALSE /\ hung = FALSE

-----------------------------------------------------------------------------
(* _reconnect, by the role r.                                               *)

To(r, step) == at' = [at EXCEPT ![r] = step]

\* A coroutine that is over leaves no attempts and no socket of its own.
Forgets(gone) ==
    /\ at' = [x \in Roles |-> IF x \in gone THEN "none" ELSE at[x]]
    /\ left' = [x \in Roles |-> IF x \in gone THEN 0 ELSE left[x]]
    /\ my' = [x \in Roles |-> IF x \in gone THEN 0 ELSE my[x]]

\* The greeting goes on whatever _reconnect says.
StarterReturns(r, next) ==
    phase' = IF r = "starter" /\ phase = "starting" THEN next
             ELSE IF r = "starter" /\ phase = "greeting" THEN "up" ELSE phase

\* The port is probed; once it is open the attempts begin.
Probes(r) ==
    /\ at[r] = "probe" /\ port
    /\ To(r, "connect") /\ left' = [left EXCEPT ![r] = Attempts]
    /\ UNCHANGED <<config, phase, sockets, my, loops, texts, goodbye>>

\* The loops are cancelled, whatever they are at, and started on the provider's socket.
\* A socket on which another role waits for its authentication cannot be read.
LoopsRestart(ws, r) ==
    /\ sender' = TRUE /\ busy' = 0
    /\ IF \E x \in {"starter", "background"} \ {r} : at[x] = "auth" /\ my[x] = ws
       THEN listener' = "over" /\ on' = 0
       ELSE listener' = "reads" /\ on' = ws
    /\ text' = IF busy = 0 THEN text ELSE [text EXCEPT ![busy] = "over"]
    /\ Forgets({r, "listener", "sender"})
    /\ rounds' = IF r = "background" THEN 0 ELSE rounds
    /\ StarterReturns(r, "started")

\* A connection: the provider's socket at once, before it is authenticated.
Connects(r) ==
    /\ at[r] = "connect" /\ port
    /\ \E s \in Sockets :
         /\ sock[s] = "none" /\ \A t \in Sockets : t < s => sock[t] # "none"
         /\ sock' = [sock EXCEPT ![s] = "open"] /\ websocket' = s
         /\ IF auth
            THEN To(r, "auth") /\ my' = [my EXCEPT ![r] = s]
                 /\ UNCHANGED <<left, phase, loops, text>>
            ELSE LoopsRestart(s, r)
    /\ UNCHANGED <<config, port, due, results, goodbye>>

Authenticated(r) ==
    /\ at[r] = "auth" /\ IsOpen(my[r])
    /\ LoopsRestart(websocket, r)
    /\ UNCHANGED <<config, sockets, due, results, goodbye>>

\* What a role does when it gives up.
GivesUp(r) ==
    /\ Forgets({r})
    /\ IF r = "listener" THEN listener' = "over" /\ on' = 0 ELSE UNCHANGED <<listener, on>>
    /\ rounds' = IF r = "listener" /\ rounds = 0 THEN Rounds
                 ELSE IF r = "background" THEN rounds - 1 ELSE rounds
    /\ UNCHANGED <<busy, sender>>

\* The port is closed: the starter goes on without a server.
Unavailable(r) ==
    /\ at[r] \in {"probe", "connect"} /\ ~port
    /\ GivesUp(r)
    /\ StarterReturns(r, "started")
    /\ UNCHANGED <<config, sockets, texts, goodbye>>

\* An attempt fails: refused or timed out, or not authenticated.
AttemptFails(r) ==
    /\ \/ at[r] = "connect" /\ port /\ "refuse" \in Failures
       \/ at[r] = "auth" /\ (~IsOpen(my[r]) \/ "auth" \in Failures)
    /\ IF left[r] > 1
       THEN /\ To(r, "backoff") /\ left' = [left EXCEPT ![r] = @ - 1]
            /\ UNCHANGED <<my, phase, loops>>
       ELSE /\ GivesUp(r)
            /\ StarterReturns(r, "failed")
    /\ UNCHANGED <<config, sockets, texts, goodbye>>

BacksOff(r) ==
    /\ at[r] = "backoff"
    /\ To(r, "connect")
    /\ UNCHANGED <<config, phase, sockets, left, my, loops, texts, goodbye>>

Reconnects(r) ==
    Probes(r) \/ Connects(r) \/ Authenticated(r) \/ Unavailable(r) \/ AttemptFails(r) \/ BacksOff(r)

-----------------------------------------------------------------------------
(* Who reconnects.                                                          *)

Start ==
    /\ phase = "idle"
    /\ phase' = "starting" /\ To("starter", "probe")
    /\ UNCHANGED <<config, sockets, left, my, loops, texts, goodbye>>

\* play_initial_greeting, after the status and the prompt.
Greets ==
    /\ phase = "started"
    /\ IF IsOpen(websocket) THEN phase' = "up" /\ UNCHANGED at
                            ELSE phase' = "greeting" /\ To("starter", "probe")
    /\ UNCHANGED <<config, sockets, left, my, loops, texts, goodbye>>

Reading == listener = "reads" /\ at["listener"] = "none" /\ busy = 0

\* The receive loop's socket is gone.  A normal closure ends the loop.
ListenerLoses ==
    /\ Reading /\ sock[on] \in {"lost", "closed"}
    /\ IF sock[on] = "lost" THEN To("listener", "probe") /\ UNCHANGED loops
       ELSE listener' = "over" /\ on' = 0 /\ UNCHANGED <<at, busy, sender, rounds>>
    /\ UNCHANGED <<config, phase, sockets, left, my, texts, goodbye>>

\* The caller's audio cannot be sent, whether the closure was normal or not.
Unsendable_Abnormal(s) == sock[s] = "lost"
Unsendable(s) == sock[s] \in {"lost", "closed"}

SenderLoses ==
    /\ sender /\ at["sender"] = "none" /\ Unsendable(websocket)
    /\ To("sender", "probe")
    /\ UNCHANGED <<config, phase, sockets, left, my, loops, texts, goodbye>>

BackgroundWakes ==
    /\ rounds > 0 /\ at["background"] = "none"
    /\ To("background", "probe")
    /\ UNCHANGED <<config, phase, sockets, left, my, loops, texts, goodbye>>

\* stop_session: the socket and the tasks stay, for another call.
Stop ==
    /\ phase \in {"starting", "started", "greeting", "up"}
    /\ phase' = "stopped"
    /\ text' = [k \in Texts |-> IF text[k] = "gateway" THEN "over" ELSE text[k]]
    /\ UNCHANGED <<config, sockets, retry, loops, due, results, goodbye>>

-----------------------------------------------------------------------------
(* The LLM's texts.                                                         *)

\* The engine starts _hangup_fallback with a goodbye that the provider speaks.
Arms_Never == FALSE
Arms == mode = "tts"

\* _emit_local_llm_result and the engine's ToolCall: the text is over, or the goodbye
\* sound plays, in the coroutine of the emitter.
Emits(k) ==
    /\ results' = [results EXCEPT ![k] = @ + 1]
    /\ \/ text' = [text EXCEPT ![k] = "over"] /\ UNCHANGED <<flagged, fallback>>
       \/ /\ phase # "stopped" /\ flagged' = TRUE
          /\ fallback' = (fallback \/ Arms)
          /\ text' = [text EXCEPT ![k] = IF mode = "tts" THEN "over" ELSE "farewell"]

\* _process_llm_text_fallback, up to a repair turn of the LLM.
Falls(k) ==
    \/ Emits(k)
    \/ text' = [text EXCEPT ![k] = "repair"] /\ UNCHANGED <<results, flagged, fallback>>

\* The listener is busy with k for as long as it has not ended.
Occupied(k) == busy' = IF text'[k] = "over" THEN 0 ELSE k

\* What was received before the loss of the socket is still read.
TextArrives(k) ==
    /\ Reading /\ text[k] = "none"
    /\ IF gateway /\ IsOpen(websocket)
       THEN /\ text' = [text EXCEPT ![k] = "gateway"] /\ due' = [due EXCEPT ![k] = websocket]
            /\ UNCHANGED <<busy, results, flagged, fallback>>
       ELSE Falls(k) /\ Occupied(k) /\ UNCHANGED due
    /\ UNCHANGED <<config, phase, sockets, retry, listener, on, sender, rounds, done, hung>>

\* llm_tool_response: one whose request is no longer pending is dropped.
Pending_Any(k) == TRUE
Pending(k) == text[k] = "gateway"

GatewayAnswers(k) ==
    /\ Reading /\ due[k] = on
    /\ due' = [due EXCEPT ![k] = 0]
    /\ IF Pending(k) THEN Emits(k) /\ Occupied(k)
       ELSE UNCHANGED <<text, results, flagged, fallback, busy>>
    /\ UNCHANGED <<config, phase, sockets, retry, listener, on, sender, rounds, done, hung>>

\* _timeout_fallback.
GatewayTimesOut(k) ==
    /\ text[k] = "gateway"
    /\ Falls(k)
    /\ UNCHANGED <<config, phase, sockets, retry, loops, due, done, hung>>

\* The repair turn is over, answered or timed out.
Repaired(k) ==
    /\ text[k] = "repair"
    /\ Emits(k) /\ (IF busy = k THEN Occupied(k) ELSE UNCHANGED busy)
    /\ UNCHANGED <<config, phase, sockets, retry, listener, on, sender, rounds, due, done, hung>>

\* The goodbye sound was played.
SoundPlayed(k) ==
    /\ text[k] = "farewell"
    /\ text' = [text EXCEPT ![k] = "over"] /\ busy' = (IF busy = k THEN 0 ELSE busy)
    /\ hung' = TRUE
    /\ UNCHANGED <<config, phase, sockets, retry, listener, on, sender, rounds, due, results,
                   done, flagged, fallback>>

-----------------------------------------------------------------------------
(* Audio and the hang-up.                                                   *)

\* A reply's audio: its end is announced later, the previous one's no more.
AudioArrives ==
    /\ Reading /\ done' = "sleep"
    /\ UNCHANGED <<config, phase, sockets, retry, loops, texts, flagged, fallback, hung>>

\* AgentAudioDone: the engine hangs up after a delay if the session says so.
AudioDone ==
    /\ done = "sleep" /\ done' = IF flagged /\ phase # "stopped" THEN "hanging" ELSE "none"
    /\ UNCHANGED <<config, phase, sockets, retry, loops, texts, flagged, fallback, hung>>

HangsUp ==
    /\ done = "hanging" /\ done' = "none" /\ hung' = TRUE
    /\ UNCHANGED <<config, phase, sockets, retry, loops, texts, flagged, fallback>>

FallbackHangsUp ==
    /\ fallback /\ fallback' = FALSE /\ hung' = (hung \/ phase # "stopped")
    /\ UNCHANGED <<config, phase, sockets, retry, loops, texts, done, flagged>>

-----------------------------------------------------------------------------
(* The server.                                                              *)

\* The loss of a socket that nobody uses any more changes nothing.
Drop(s) ==
    /\ "drop" \in Failures /\ sock[s] = "open" /\ s \in {websocket, on} \cup {my[r] : r \in Roles}
    /\ \E how \in {"lost", "closed"} : sock' = [sock EXCEPT ![s] = how]
    /\ UNCHANGED <<config, phase, port, websocket, retry, loops, texts, goodbye>>

ServerStops ==
    /\ "stop" \in Failures /\ port
    /\ port' = FALSE
    /\ \E how \in {"lost", "closed"} :
         sock' = [s \in Sockets |-> IF sock[s] = "open" THEN how ELSE sock[s]]
    /\ UNCHANGED <<config, phase, websocket, retry, loops, texts, goodbye>>

ServerStarts ==
    /\ ~port /\ port' = TRUE
    /\ UNCHANGED <<config, phase, websocket, sock, retry, loops, texts, goodbye>>

-----------------------------------------------------------------------------
Next ==
    \/ \E r \in Roles : Reconnects(r)
    \/ Start \/ Greets \/ ListenerLoses \/ SenderLoses \/ BackgroundWakes \/ Stop
    \/ \E k \in Texts : TextArrives(k) \/ GatewayAnswers(k) \/ GatewayTimesOut(k) \/ Repaired(k)
                        \/ SoundPlayed(k)
    \/ AudioArrives \/ AudioDone \/ HangsUp \/ FallbackHangsUp
    \/ (\E s \in Sockets : Drop(s)) \/ ServerStops \/ ServerStarts

\* The reconnections go on and the timer expires, the caller's audio keeps coming, and a
\* server whose port stays open accepts a connection at last.
Fairness ==
    /\ WF_vars(\E r \in Roles : Reconnects(r)) /\ SF_vars(\E r \in Roles : Connects(r))
    /\ WF_vars(SenderLoses) /\ WF_vars(FallbackHangsUp)

Spec == Init /\ [][Next]_vars /\ Fairness

-----------------------------------------------------------------------------
(* Correctness.                                                             *)

\* A text of the LLM is acted upon once, whichever of the gateway's answer, its time-out and
\* a reconnection come (_pending_llm_tool_responses).
ResultOnce == \A k \in Texts : results[k] <= 1

\* While the call goes on, a provider that was connected hears its server again as long as
\* the server is there: no closure, no race of the four reconnections and no cancellation of
\* one by another leaves it without loops.
Hears == listener = "reads" /\ on = websocket /\ IsOpen(websocket)
Exhausted == (\A s \in Sockets : sock[s] # "none") /\ \E r \in Roles : at[r] = "connect"
Recovers == (phase = "up" /\ sender) ~> (Hears \/ ~port \/ phase = "stopped" \/ Exhausted)

\* A goodbye in "tts" mode ends the call even if its audio never comes or is cut off.
GoodbyeHangsUp ==
    (flagged /\ mode = "tts") ~> (hung \/ phase = "stopped")

\* Only a provider that was disconnected is reconnected in the background (local.py:924,
\* "Only runs when we were previously connected and got disconnected").  Violated: the send
\* loop may have reconnected since, and the task does not look.
HealthyKept == [][ Hears => websocket' = websocket ]_vars

=============================================================================
