-------------------------- MODULE ProvidersProofs --------------------------
(***************************************************************************)
(* The providers of a call, each under its own specification, for any      *)
(* sockets, attempts, texts and faults.  OpenAI Realtime: with the GA      *)
(* protocol what the engine hears is closed with its response, and a       *)
(* farewell that is waited for has its timer.  The local provider: a text  *)
(* of the LLM is acted upon once, its goodbye is watched, and its server   *)
(* is heard again.  Google Live: who goes on talking is not hung up on,    *)
(* and no goodbye or lost connection is left to nobody.                    *)
(***************************************************************************)
EXTENDS MCProviders, TLAPS

-----------------------------------------------------------------------------
(* OpenAI Realtime: the inductive invariant, part by part.                  *)

(* Sockets are numbered in the order they are made. *)
Numbered ==
    /\ made \in Nat /\ websocket \in 0 .. made
    /\ open \subseteq 1 .. made /\ loops \subseteq 1 .. made

(* Until the session is stopped, one receive loop at most: the socket's.    *)
(* A reconnection begins when it has ended.                                 *)
OneLoop ==
    /\ phase \in {"idle", "connecting", "waiting", "acking", "up", "stopping", "closed", "failed"}
    /\ phase \in {"idle", "connecting", "waiting", "failed"} => loops = {} /\ retry = "none"
    /\ phase \in {"acking", "up"} => loops \subseteq {websocket}
    /\ retry # "none" => websocket \notin loops

(* With the GA protocol the provider knows of the burst that the engine     *)
(* hears, and has closed it before it reconnects.                           *)
BurstKnown ==
    speaking => burst /\ phase \in {"acking", "up", "stopping"} /\ retry = "none"

IInv == Numbered /\ OneLoop /\ (api = "ga" => BurstKnown /\ BurstsClosed)

-----------------------------------------------------------------------------
(* Sockets and loops.                                                       *)

LEMMA NumberedKeeps ==
    ASSUME Numbered, Next
    PROVE  Numbered'
<1> USE DEF Numbered, session, sockets
<1>1. ASSUME NewSocket, UNCHANGED loops \/ loops' = loops \cup {websocket'}
      PROVE  Numbered'
  <2>1. made' \in Nat /\ made' \in 0 .. made' /\ 1 .. made \subseteq 1 .. made' /\ made' \in 1 .. made'
    BY <1>1 DEF NewSocket
  <2> QED
    BY <1>1, <2>1 DEF NewSocket
<1>2. CASE Connected \/ RetryConnects
  BY <1>1, <1>2 DEF Connected, RetryConnects
<1>3. CASE Begun
  BY <1>3 DEF Begun, Open
<1>4. CASE Start \/ NotStarted \/ \E explicit \in BOOLEAN : Greets(explicit)
  BY <1>4 DEF Start, NotStarted, Greets
<1>9. CASE StopBegins \/ Stopped
  <2>1. loops' \subseteq loops /\ open' \subseteq open /\ made' = made /\ websocket' \in {websocket, 0}
    BY <1>9 DEF StopBegins, Stopped
  <2> QED
    BY <2>1
<1>5. ASSUME NEW q, ResponseCreated(q) \/ Refused(q)
      PROVE  Numbered'
  BY <1>5 DEF ResponseCreated, Refused
<1>6. ASSUME NEW k, FunctionCall(k) \/ ResponseEnds(k) \/ LoopEnds(k)
      PROVE  Numbered'
  BY <1>6 DEF FunctionCall, ResponseEnds, LoopEnds
<1>7. CASE AudioDelta \/ AudioDone \/ SpeechStarted \/ ToolRan \/ ToolFails \/ ToolAnswers
           \/ FarewellTimeout \/ GreetingFallback
  BY <1>7 DEF AudioDelta, AudioDone, SpeechStarted, ToolRan, ToolFails, ToolAnswers,
       FarewellTimeout, GreetingFallback
<1>8. CASE Drop \/ RetryBegins \/ RetryFails
  BY <1>8 DEF Drop, RetryBegins, RetryFails
<1> QED
  BY <1>2, <1>3, <1>4, <1>5, <1>6, <1>7, <1>8, <1>9 DEF Next

(* The loop of a socket starts when no other is left, or when the session is *)
(* being stopped.                                                            *)
LEMMA OneLoopKeeps ==
    ASSUME IInv, Next
    PROVE  OneLoop'
<1> USE DEF IInv, OneLoop, session, sockets
<1>1. CASE Start \/ Connected \/ NotStarted \/ Begun
  BY <1>1 DEF Start, Connected, NotStarted, Begun, NewSocket
<1>2. CASE StopBegins \/ \E explicit \in BOOLEAN : Greets(explicit)
  BY <1>2 DEF StopBegins, Greets
<1>8. CASE Stopped
  BY <1>8 DEF Stopped, Numbered
<1>3. ASSUME NEW q, ResponseCreated(q) \/ Refused(q)
      PROVE  OneLoop'
  BY <1>3 DEF ResponseCreated, Refused
<1>4. ASSUME NEW k, FunctionCall(k) \/ ResponseEnds(k) \/ LoopEnds(k)
      PROVE  OneLoop'
  BY <1>4 DEF FunctionCall, ResponseEnds, LoopEnds, Retries
<1>5. CASE AudioDelta \/ AudioDone \/ SpeechStarted \/ ToolRan \/ ToolFails \/ ToolAnswers
           \/ FarewellTimeout \/ GreetingFallback
  BY <1>5 DEF AudioDelta, AudioDone, SpeechStarted, ToolRan, ToolFails, ToolAnswers,
       FarewellTimeout, GreetingFallback
<1>6. CASE Drop \/ RetryBegins \/ RetryFails
  BY <1>6 DEF Drop, RetryBegins, RetryFails
<1>7. CASE RetryConnects
  BY <1>7 DEF RetryConnects, NewSocket
<1> QED
  BY <1>1, <1>2, <1>3, <1>4, <1>5, <1>6, <1>7, <1>8 DEF Next

-----------------------------------------------------------------------------
(* Audio to the engine.                                                     *)

(* What ends a burst within a session leaves the engine in silence. *)
LEMMA BurstEnds ==
    ASSUME speaking => burst, NEW known, burst => known, EndsBurst(known)
    PROVE  speaking' => speaking /\ ~Live /\ burst'
BY DEF EndsBurst

LEMMA HeardKeeps ==
    ASSUME IInv, Next, api' = "ga"
    PROVE  BurstKnown' /\ BurstsClosed'
<1>0. api = "ga" /\ BurstKnown /\ BurstsClosed
  <2>1. api' = api
    BY DEF Next, Start, Connected, NotStarted, Begun, StopBegins, Stopped, Greets, ResponseCreated,
       Refused, AudioDelta, AudioDone, SpeechStarted, FunctionCall, ResponseEnds, ToolRan,
       ToolFails, ToolAnswers, FarewellTimeout, GreetingFallback, Drop, RetryBegins,
       RetryConnects, RetryFails, LoopEnds, session
  <2> QED
    BY <2>1 DEF IInv
<1>1. ASSUME EmitAudioDone
      PROVE  speaking' => speaking /\ ~Live /\ burst'
  BY <1>0, <1>1, BurstEnds DEF EmitAudioDone, BurstKnown
<1> USE <1>0 DEF IInv, BurstKnown, BurstsClosed, Receives, Open, Live, session, sockets, service, audio
<1>2. CASE Start \/ Connected \/ NotStarted \/ Begun
  BY <1>2 DEF Start, Connected, NotStarted, Begun
<1>3. CASE \E explicit \in BOOLEAN : Greets(explicit)
  BY <1>3 DEF Greets, Asks
<1>4. CASE StopBegins
  BY <1>1, <1>4 DEF StopBegins, QuietAudio
<1>5. CASE Stopped
  BY <1>1, <1>5 DEF Stopped
<1>6. ASSUME NEW q, ResponseCreated(q) \/ Refused(q)
      PROVE  BurstKnown' /\ BurstsClosed'
  BY <1>6 DEF ResponseCreated, Refused
<1>7. CASE AudioDelta
  BY <1>7 DEF AudioDelta, OneLoop
<1>8. CASE AudioDone
  <2>1. speaking' => speaking /\ ~Live /\ burst'
    BY <1>8, BurstEnds DEF AudioDone, Known
  <2> QED
    BY <1>8, <2>1 DEF AudioDone
<1>9. CASE SpeechStarted
  BY <1>1, <1>9 DEF SpeechStarted
<1>10. ASSUME NEW how, ResponseEnds(how)
       PROVE  BurstKnown' /\ BurstsClosed'
  BY <1>1, <1>10 DEF ResponseEnds
<1>11. ASSUME NEW s, LoopEnds(s)
       PROVE  BurstKnown' /\ BurstsClosed'
  BY <1>1, <1>11 DEF LoopEnds, Retries
<1>12. CASE ToolRan \/ ToolFails \/ ToolAnswers \/ \E k \in {"hangup", "other"} : FunctionCall(k)
  BY <1>12 DEF ToolRan, ToolFails, ToolAnswers, FunctionCall, Asks
<1>13. CASE FarewellTimeout \/ GreetingFallback
  BY <1>13 DEF FarewellTimeout, GreetingFallback
<1>14. CASE Drop
  BY <1>14 DEF Drop
<1>15. CASE RetryBegins \/ RetryConnects \/ RetryFails
  BY <1>15 DEF RetryBegins, RetryConnects, RetryFails
<1> QED
  BY <1>2, <1>3, <1>4, <1>5, <1>6, <1>7, <1>8, <1>9, <1>10, <1>11, <1>12, <1>13, <1>14, <1>15 DEF Next

-----------------------------------------------------------------------------
(* The theorems.                                                            *)

THEOREM Safety == Spec => []IInv
<1>1. Init => IInv
  BY DEF Init, IInv, Numbered, OneLoop, BurstKnown, BurstsClosed
<1>2. IInv /\ [Next]_vars => IInv'
  <2>1. ASSUME IInv, Next PROVE IInv'
    BY <2>1, NumberedKeeps, OneLoopKeeps, HeardKeeps DEF IInv
  <2>2. ASSUME IInv, UNCHANGED vars PROVE IInv'
    BY <2>2 DEF IInv, Numbered, OneLoop, BurstKnown, BurstsClosed, Receives, Open, vars, session,
       sockets, service, audio
  <2> QED
    BY <2>1, <2>2
<1> QED
  BY <1>1, <1>2, PTL DEF Spec

(* With the GA protocol AgentAudioDone follows AgentAudio whenever a         *)
(* response, a connection or the session is over.                            *)
THEOREM BurstsAreClosed == Spec => [](api = "ga" => BurstsClosed)
<1>1. IInv => (api = "ga" => BurstsClosed)
  BY DEF IInv
<1> QED
  BY <1>1, Safety, PTL

-----------------------------------------------------------------------------
(* OpenAI Realtime: a farewell that is waited for.                          *)

(* Who waits for a farewell has a timer, or the engine has been told.       *)
FarewellTimed == waiting => timer \/ ready > 0

FarewellInv ==
    /\ created \in Nat /\ ready \in Nat
    /\ waiting => farewell # 0
    /\ timer => waiting
    /\ FarewellTimed

LEMMA BurstEndKeeps ==
    ASSUME FarewellInv, NEW known, EndsBurst(known), created' = created
    PROVE  FarewellInv'
<1> USE DEF FarewellInv, FarewellTimed
<1>1. CASE Live /\ waiting /\ farewell # 0
  <2>1. timer' = FALSE /\ waiting' = FALSE /\ farewell' = 0 /\ ready' = ready + 1
    BY <1>1 DEF EndsBurst
  <2> QED
    BY <2>1
<1>2. CASE ~(Live /\ waiting /\ farewell # 0)
  <2>1. UNCHANGED <<timer, waiting, farewell, ready>>
    BY <1>2 DEF EndsBurst
  <2> QED
    BY <2>1
<1> QED
  BY <1>1, <1>2

LEMMA FarewellKeeps ==
    ASSUME FarewellInv, Next
    PROVE  FarewellInv'
<1> USE DEF FarewellInv, FarewellTimed, goodbye, service, response, audio
<1>1. ASSUME NEW q, ResponseCreated(q)
      PROVE  FarewellInv'
  <2>1. created' = created + 1 /\ ready' = ready
    BY <1>1 DEF ResponseCreated
  <2>2. CASE ~(~greeted /\ greeting = 0) /\ hangup
    <3>1. farewell' = created' /\ waiting' = TRUE /\ timer' = TRUE
      BY <1>1, <2>2 DEF ResponseCreated, StartsTimer
    <3> QED
      BY <2>1, <3>1
  <2>3. CASE ~(~(~greeted /\ greeting = 0) /\ hangup)
    <3>1. farewell' = farewell /\ (waiting' <=> waiting) /\ timer' = timer
      BY <1>1, <2>3 DEF ResponseCreated
    <3> QED
      BY <2>1, <3>1
  <2> QED
    BY <2>2, <2>3
<1>2. CASE AudioDone \/ StopBegins \/ Stopped \/ SpeechStarted
  <2>1. /\ created' = created
        /\ (\E known : EndsBurst(known)) \/ UNCHANGED <<timer, waiting, farewell, ready>>
    BY <1>2 DEF AudioDone, StopBegins, Stopped, SpeechStarted, EmitAudioDone, QuietAudio
  <2> QED
    BY <2>1, BurstEndKeeps
<1>3. ASSUME NEW k, ResponseEnds(k) \/ LoopEnds(k)
      PROVE  FarewellInv'
  <2>1. created' = created /\ \E known : EndsBurst(known)
    BY <1>3 DEF ResponseEnds, LoopEnds, EmitAudioDone
  <2> QED
    BY <2>1, BurstEndKeeps
<1>4. CASE FarewellTimeout
  <2>1. timer' = FALSE /\ ready' = ready + 1 /\ UNCHANGED <<waiting, farewell, created>>
    BY <1>4 DEF FarewellTimeout
  <2> QED
    BY <2>1
<1>5. ASSUME UNCHANGED <<created, ready, waiting, farewell, timer>>
      PROVE  FarewellInv'
  BY <1>5
<1>6. CASE Start \/ Connected \/ NotStarted \/ Begun \/ \E explicit \in BOOLEAN : Greets(explicit)
  BY <1>5, <1>6 DEF Start, Connected, NotStarted, Begun, Greets
<1>7. ASSUME NEW q, Refused(q) \/ FunctionCall(q)
      PROVE  FarewellInv'
  BY <1>5, <1>7 DEF Refused, FunctionCall
<1>8. CASE AudioDelta \/ ToolRan \/ ToolFails \/ ToolAnswers \/ GreetingFallback
  BY <1>5, <1>8 DEF AudioDelta, ToolRan, ToolFails, ToolAnswers, GreetingFallback
<1>9. CASE Drop \/ RetryBegins \/ RetryConnects \/ RetryFails
  BY <1>5, <1>9 DEF Drop, RetryBegins, RetryConnects, RetryFails
<1> QED
  BY <1>1, <1>2, <1>3, <1>4, <1>6, <1>7, <1>8, <1>9 DEF Next

(* A farewell is never waited for in vain: until the engine was told to hang *)
(* up its timer runs, whatever became of its response, the caller's          *)
(* interruptions, the connection and the session.                            *)
THEOREM FarewellsTimed == Spec => []FarewellTimed
<1>1. Init => FarewellInv
  BY DEF Init, FarewellInv, FarewellTimed
<1>2. FarewellInv /\ [Next]_vars => FarewellInv'
  <2>1. ASSUME FarewellInv, UNCHANGED vars
        PROVE  FarewellInv'
    BY <2>1 DEF FarewellInv, FarewellTimed, vars, service, goodbye
  <2> QED
    BY <2>1, FarewellKeeps
<1>3. FarewellInv => FarewellTimed
  BY DEF FarewellInv
<1> QED
  BY <1>1, <1>2, <1>3, PTL DEF Spec

-----------------------------------------------------------------------------
(* The local provider: the LLM's texts.                                     *)

LocalTypes ==
    /\ busy \in LP!Texts \cup {0}
    /\ text \in [LP!Texts -> {"none", "gateway", "repair", "farewell", "over"}]
    /\ results \in [LP!Texts -> Nat]

(* A text that waits for the gateway, or for a repaired answer, has had no  *)
(* result yet.                                                              *)
NoResultYet ==
    \A k \in LP!Texts : IF text[k] \in {"none", "gateway", "repair"} THEN results[k] = 0 ELSE results[k] <= 1

TextInv == LocalTypes /\ NoResultYet

LEMMA TextStart == LP!Init => TextInv
BY DEF LP!Init, LP!Texts, TextInv, LocalTypes, NoResultYet

(* Whoever acts upon a text found it without a result. *)
LEMMA EmitsOnce ==
    ASSUME TextInv, NEW k \in LP!Texts, text[k] \in {"none", "gateway", "repair"},
           UNCHANGED scenario, busy' \in {busy, 0, k}, LP!Emits(k) \/ LP!Falls(k)
    PROVE  TextInv'
<1> USE DEF TextInv, LocalTypes, NoResultYet
<1>0. LP!Texts' = LP!Texts
  BY DEF LP!Texts
<1>1. CASE LP!Emits(k)
  <2>1. /\ results' = [results EXCEPT ![k] = @ + 1]
        /\ text' = [text EXCEPT ![k] = "over"] \/ text' = [text EXCEPT ![k] = "farewell"]
    BY <1>1 DEF LP!Emits
  <2>2. results[k] = 0 /\ results'[k] = 1
    BY <2>1
  <2>3. LocalTypes'
    BY <1>0, <2>1
  <2> QED
    BY <1>0, <2>1, <2>2, <2>3
<1>2. CASE text' = [text EXCEPT ![k] = "repair"] /\ UNCHANGED results
  BY <1>0, <1>2
<1> QED
  BY <1>1, <1>2 DEF LP!Falls

(* A reconnection may cancel what is done with a text: it is then over.     *)
LEMMA ReconnectsKeeps ==
    ASSUME TextInv, NEW r \in LP!Roles, LP!Reconnects(r)
    PROVE  TextInv'
<1>1. /\ UNCHANGED <<scenario, results>> /\ busy' \in {busy, 0}
      /\ text' = text \/ (busy # 0 /\ text' = [text EXCEPT ![busy] = "over"])
  BY DEF LP!Reconnects, LP!Probes, LP!Connects, LP!Authenticated, LP!Unavailable, LP!AttemptFails,
     LP!BacksOff, LP!LoopsRestart, LP!GivesUp, LP!config, LP!loops, LP!texts
<1>2. LP!Texts' = LP!Texts
  BY <1>1 DEF LP!Texts
<1>3. CASE text' = text
  BY <1>1, <1>2, <1>3 DEF TextInv, LocalTypes, NoResultYet
<1>4. CASE busy \in LP!Texts /\ text' = [text EXCEPT ![busy] = "over"]
  BY <1>1, <1>2, <1>4 DEF TextInv, LocalTypes, NoResultYet
<1> QED
  BY <1>1, <1>3, <1>4 DEF TextInv, LocalTypes

LEMMA TextStep == TextInv /\ [LP!Next]_LP!vars => TextInv'
<1> SUFFICES ASSUME TextInv, [LP!Next]_LP!vars
             PROVE  TextInv'
  OBVIOUS
<1>1. ASSUME NEW k \in LP!Texts, LP!TextArrives(k)
      PROVE  TextInv'
  <2>1. CASE text' = [text EXCEPT ![k] = "gateway"] /\ UNCHANGED <<busy, results>>
    BY <1>1, <2>1 DEF TextInv, LocalTypes, NoResultYet, LP!Texts, LP!TextArrives, LP!config
  <2>2. CASE LP!Falls(k) /\ LP!Occupied(k)
    BY <1>1, <2>2, EmitsOnce DEF LP!TextArrives, LP!Occupied, LP!config
  <2> QED
    BY <1>1, <2>1, <2>2 DEF LP!TextArrives
<1>2. ASSUME NEW k \in LP!Texts, LP!GatewayAnswers(k)
      PROVE  TextInv'
  <2>1. CASE LP!Pending(k)
    BY <1>2, <2>1, EmitsOnce DEF LP!GatewayAnswers, LP!Pending, LP!Occupied, LP!config
  <2>2. CASE ~LP!Pending(k)
    BY <1>2, <2>2 DEF TextInv, LocalTypes, NoResultYet, LP!Texts, LP!GatewayAnswers, LP!config
  <2> QED
    BY <2>1, <2>2
<1>3. ASSUME NEW k \in LP!Texts, LP!GatewayTimesOut(k)
      PROVE  TextInv'
  BY <1>3, EmitsOnce DEF LP!GatewayTimesOut, LP!config, LP!loops
<1>4. ASSUME NEW k \in LP!Texts, LP!Repaired(k)
      PROVE  TextInv'
  BY <1>4, EmitsOnce DEF LP!Repaired, LP!Occupied, LP!config
<1>5. ASSUME NEW k \in LP!Texts, LP!SoundPlayed(k)
      PROVE  TextInv'
  BY <1>5 DEF TextInv, LocalTypes, NoResultYet, LP!Texts, LP!SoundPlayed, LP!config
<1>6. CASE LP!Stop
  BY <1>6 DEF TextInv, LocalTypes, NoResultYet, LP!Texts, LP!Stop, LP!config, LP!loops
<1>7. CASE \/ LP!Start \/ LP!Greets \/ LP!ListenerLoses \/ LP!SenderLoses \/ LP!BackgroundWakes
           \/ LP!AudioArrives \/ LP!AudioDone \/ LP!HangsUp \/ LP!FallbackHangsUp
           \/ (\E s \in LP!Sockets : LP!Drop(s)) \/ LP!ServerStops \/ LP!ServerStarts
           \/ UNCHANGED LP!vars
  <2>1. UNCHANGED <<scenario, busy, text, results>>
    BY <1>7 DEF LP!Start, LP!Greets, LP!ListenerLoses, LP!SenderLoses, LP!BackgroundWakes,
       LP!AudioArrives, LP!AudioDone, LP!HangsUp, LP!FallbackHangsUp, LP!Drop, LP!ServerStops,
       LP!ServerStarts, LP!vars, LP!config, LP!loops, LP!texts
  <2> QED
    BY <2>1 DEF TextInv, LocalTypes, NoResultYet, LP!Texts
<1> QED
  BY <1>1, <1>2, <1>3, <1>4, <1>5, <1>6, <1>7, ReconnectsKeeps DEF LP!Next

(* Whichever of the gateway's answer, its time-out, a repair turn and the   *)
(* reconnections of four tasks come first, a text is acted upon once.       *)
THEOREM TextsActedOnOnce == LP!Spec => []ResultOnce
<1>1. TextInv => ResultOnce
  BY DEF TextInv, LocalTypes, NoResultYet, ResultOnce, LP!ResultOnce
<1> QED
  BY <1>1, TextStart, TextStep, PTL DEF LP!Spec

-----------------------------------------------------------------------------
(* The local provider: who ends its goodbye.                                *)

(* A goodbye that the server speaks has the engine's timer beside it.       *)
GoodbyeWatched == flagged /\ mode = "tts" => local_fallback \/ hung \/ local_phase = "stopped"

LEMMA WatchedStep == GoodbyeWatched /\ [LP!Next]_LP!vars => GoodbyeWatched'
<1> SUFFICES ASSUME GoodbyeWatched, [LP!Next]_LP!vars
             PROVE  GoodbyeWatched'
  OBVIOUS
<1> USE DEF GoodbyeWatched
<1>1. ASSUME UNCHANGED <<mode, hung, flagged, local_fallback>>, local_phase = "stopped" => local_phase' = "stopped"
      PROVE  GoodbyeWatched'
  BY <1>1
<1>2. ASSUME NEW k, LP!Emits(k) \/ LP!Falls(k), UNCHANGED <<mode, hung, local_phase>>
      PROVE  GoodbyeWatched'
  BY <1>2 DEF LP!Emits, LP!Falls, LP!Arms
<1>3. ASSUME NEW r, LP!Reconnects(r)
      PROVE  GoodbyeWatched'
  <2>1. UNCHANGED <<mode, hung, flagged, local_fallback>>
    BY <1>3 DEF LP!Reconnects, LP!Probes, LP!Connects, LP!Authenticated, LP!Unavailable, LP!AttemptFails,
       LP!BacksOff, LP!config, LP!goodbye
  <2>2. local_phase = "stopped" => local_phase' = "stopped"
    BY <1>3 DEF LP!Reconnects, LP!Probes, LP!Connects, LP!Authenticated, LP!Unavailable, LP!AttemptFails,
       LP!BacksOff, LP!LoopsRestart, LP!StarterReturns
  <2> QED
    BY <1>1, <2>1, <2>2
<1>4. CASE \/ LP!Start \/ LP!Greets \/ LP!ListenerLoses \/ LP!SenderLoses \/ LP!BackgroundWakes \/ LP!Stop
           \/ LP!AudioArrives \/ LP!AudioDone \/ (\E s \in LP!Sockets : LP!Drop(s))
           \/ LP!ServerStops \/ LP!ServerStarts \/ UNCHANGED LP!vars
  BY <1>1, <1>4 DEF LP!Start, LP!Greets, LP!ListenerLoses, LP!SenderLoses, LP!BackgroundWakes, LP!Stop,
     LP!AudioArrives, LP!AudioDone, LP!Drop, LP!ServerStops, LP!ServerStarts, LP!vars, LP!config, LP!goodbye
<1>5. CASE LP!HangsUp \/ LP!FallbackHangsUp
  BY <1>5 DEF LP!HangsUp, LP!FallbackHangsUp, LP!config
<1>6. ASSUME NEW k, \/ LP!TextArrives(k) \/ LP!GatewayAnswers(k) \/ LP!GatewayTimesOut(k) \/ LP!Repaired(k)
                    \/ LP!SoundPlayed(k)
      PROVE  GoodbyeWatched'
  <2>1. CASE LP!SoundPlayed(k)
    BY <2>1 DEF LP!SoundPlayed, LP!config
  <2>2. CASE LP!TextArrives(k) \/ LP!GatewayAnswers(k) \/ LP!GatewayTimesOut(k) \/ LP!Repaired(k)
    <3>1. UNCHANGED <<mode, hung, local_phase>>
      BY <2>2 DEF LP!TextArrives, LP!GatewayAnswers, LP!GatewayTimesOut, LP!Repaired, LP!config
    <3>2. LP!Emits(k) \/ LP!Falls(k) \/ UNCHANGED <<flagged, local_fallback>>
      BY <2>2 DEF LP!TextArrives, LP!GatewayAnswers, LP!GatewayTimesOut, LP!Repaired
    <3> QED
      BY <1>2, <3>1, <3>2
  <2> QED
    BY <1>6, <2>1, <2>2
<1> QED
  BY <1>3, <1>4, <1>5, <1>6 DEF LP!Next

(* Once the LLM has said goodbye the caller is hung up, or the engine's     *)
(* timer is running, until the call is over: audio that never comes or is   *)
(* replaced, lost sockets and reconnections do not leave the caller alone.  *)
THEOREM GoodbyesWatched == LP!Spec => []GoodbyeWatched
<1>1. LP!Init => GoodbyeWatched
  BY DEF LP!Init, GoodbyeWatched
<1> QED
  BY <1>1, WatchedStep, PTL DEF LP!Spec

-----------------------------------------------------------------------------
(* The local provider: who brings its server back.                          *)

Authenticating(ws) == \E r \in LP!Roles : at[r] = "auth" /\ my[r] = ws

(* A provider that was connected hears its server, or somebody is           *)
(* authenticating its socket, or the socket is closed and the send loop,    *)
(* if not already reconnecting, will notice with the next audio.            *)
RecoveryUnderWay ==
    sender => LP!Hears \/ LP!Unsendable(local_websocket) \/ Authenticating(local_websocket)

LinkTypes ==
    /\ scenario.sockets \in Nat
    /\ local_websocket \in LP!Sockets \cup {0} /\ on \in LP!Sockets \cup {0}
    /\ sock \in [LP!Sockets -> {"none", "open", "lost", "closed"}]
    /\ at \in [LP!Roles -> {"none", "probe", "connect", "auth", "backoff"}]
    /\ my \in [LP!Roles -> LP!Sockets \cup {0}]

(* Whose socket was made, and who reads it; a receive loop that reconnects  *)
(* has lost the one it read.                                                *)
LinkKnown ==
    /\ sender => local_websocket # 0
    /\ local_websocket # 0 => sock[local_websocket] # "none"
    /\ on # 0 => sock[on] # "none"
    /\ \A r \in LP!Roles : at[r] = "auth" => local_websocket # 0 /\ my[r] # 0 /\ sock[my[r]] # "none"
    /\ at["listener"] # "none" => ~LP!IsOpen(on)
    /\ LP!IsOpen(local_websocket) =>
         (listener = "reads" /\ on = local_websocket) \/ Authenticating(local_websocket)

LinkInv == LinkTypes /\ LinkKnown

(* The starter reconnects while it starts the session or greets. *)
StarterKnown == local_phase \in {"idle", "started"} => at["starter"] = "none"

LEMMA LinkStart == LP!Init => LinkInv
<1> SUFFICES ASSUME LP!Init
             PROVE  LinkInv
  OBVIOUS
<1>1. LinkTypes
  BY LocalGiven DEF LP!LocalAssumption, LP!Init, LinkTypes
<1>2. LinkKnown
  BY DEF LP!Init, LinkKnown, LP!IsOpen, LP!Roles
<1> QED
  BY <1>1, <1>2 DEF LinkInv

(* Both loops are started on the provider's socket, which the loops of a    *)
(* role that still waits for its authentication cannot read.                *)
LEMMA RestartKeeps ==
    ASSUME LinkTypes, NEW r \in LP!Roles, NEW ws \in LP!Sockets, LP!LoopsRestart(ws, r),
           local_websocket' = ws, UNCHANGED scenario,
           sock' \in [LP!Sockets -> {"none", "open", "lost", "closed"}], sock'[ws] # "none",
           \A x \in LP!Roles : at[x] = "auth" => my[x] # 0 /\ sock'[my[x]] # "none"
    PROVE  LinkInv'
<1> DEFINE gone == {r, "listener", "sender"}
<1> USE DEF LP!Roles
<1>0. LP!Sockets' = LP!Sockets /\ ws # 0 /\ 0 \notin LP!Sockets
  BY DEF LP!Sockets, LinkTypes
<1>1. /\ at' = [x \in LP!Roles |-> IF x \in gone THEN "none" ELSE at[x]]
      /\ my' = [x \in LP!Roles |-> IF x \in gone THEN 0 ELSE my[x]]
  BY DEF LP!LoopsRestart, LP!Forgets
<1>2. \/ /\ \E x \in {"starter", "background"} \ {r} : at[x] = "auth" /\ my[x] = ws
         /\ on' = 0
      \/ listener' = "reads" /\ on' = ws
  BY DEF LP!LoopsRestart
<1>3. LinkTypes'
  BY <1>0, <1>1, <1>2 DEF LinkTypes
<1>4. at'["listener"] = "none"
  BY <1>1
<1>5. \A x \in LP!Roles : at'[x] = "auth" => my'[x] # 0 /\ sock'[my'[x]] # "none"
  BY <1>1
<1>6. (listener' = "reads" /\ on' = ws) \/ \E x \in LP!Roles : at'[x] = "auth" /\ my'[x] = ws
  BY <1>1, <1>2
<1>7. on' # 0 => sock'[on'] # "none"
  BY <1>2
<1> QED
  BY <1>0, <1>3, <1>4, <1>5, <1>6, <1>7 DEF LinkInv, LinkKnown, Authenticating, LP!IsOpen

(* One role begins, goes on or gives up, and no socket changes.             *)
LEMMA RoleKeeps ==
    ASSUME LinkInv, UNCHANGED <<scenario, local_websocket, sock, sender>>, NEW r \in LP!Roles,
           at' \in [LP!Roles -> {"none", "probe", "connect", "auth", "backoff"}],
           my' \in [LP!Roles -> LP!Sockets \cup {0}],
           \A x \in LP!Roles : x # r => at'[x] = at[x] /\ my'[x] = my[x],
           at'[r] # "auth", at[r] = "auth" => ~LP!IsOpen(my[r]),
           r = "listener" /\ at'[r] # "none" => ~LP!IsOpen(on),
           UNCHANGED <<listener, on>> \/ (r = "listener" /\ on' = 0 /\ ~LP!IsOpen(on))
    PROVE  LinkInv'
<1> USE DEF LinkInv
<1>0. LP!Sockets' = LP!Sockets
  BY DEF LP!Sockets
<1>1. LinkTypes'
  BY <1>0 DEF LinkTypes
<1>2. at'["listener"] # "none" => ~LP!IsOpen(on)'
  BY DEF LinkKnown, LP!IsOpen, LP!Roles
<1>3. ASSUME LP!IsOpen(local_websocket)'
      PROVE  (listener' = "reads" /\ on' = local_websocket') \/ Authenticating(local_websocket)'
  <2>1. CASE listener = "reads" /\ on = local_websocket
    BY <1>3, <2>1 DEF LP!IsOpen
  <2>2. CASE Authenticating(local_websocket)
    BY <1>3, <2>2 DEF Authenticating, LP!IsOpen
  <2> QED
    BY <1>3, <2>1, <2>2 DEF LinkKnown, LP!IsOpen
<1> QED
  BY <1>1, <1>2, <1>3 DEF LinkKnown

LEMMA ReconnectsLink ==
    ASSUME LinkInv, NEW r \in LP!Roles, LP!Reconnects(r), "auth" \notin LP!Failures
    PROVE  LinkInv'
<1>1. ASSUME LP!GivesUp(r), UNCHANGED <<scenario, local_websocket, sock>>,
             at[r] # "none", at[r] = "auth" => ~LP!IsOpen(my[r])
      PROVE  LinkInv'
  <2>1. /\ at' = [x \in LP!Roles |-> IF x \in {r} THEN "none" ELSE at[x]]
        /\ my' = [x \in LP!Roles |-> IF x \in {r} THEN 0 ELSE my[x]]
        /\ UNCHANGED sender
        /\ UNCHANGED <<listener, on>> \/ (r = "listener" /\ on' = 0)
    BY <1>1 DEF LP!GivesUp, LP!Forgets
  <2>2. r = "listener" => ~LP!IsOpen(on)
    BY <1>1 DEF LinkInv, LinkKnown
  <2>3. /\ at' \in [LP!Roles -> {"none", "probe", "connect", "auth", "backoff"}]
        /\ my' \in [LP!Roles -> LP!Sockets \cup {0}]
        /\ \A x \in LP!Roles : x # r => at'[x] = at[x] /\ my'[x] = my[x]
        /\ at'[r] = "none"
    BY <2>1 DEF LinkInv, LinkTypes
  <2> QED
    BY <1>1, <2>1, <2>2, <2>3, RoleKeeps
<1>2. ASSUME NEW step \in {"connect", "backoff"}, LP!To(r, step),
             UNCHANGED <<scenario, local_websocket, sock, my, sender, listener, on>>,
             at[r] # "none", at[r] = "auth" => ~LP!IsOpen(my[r])
      PROVE  LinkInv'
  <2>1. at' = [at EXCEPT ![r] = step]
    BY <1>2 DEF LP!To
  <2>2. /\ at' \in [LP!Roles -> {"none", "probe", "connect", "auth", "backoff"}]
        /\ my' \in [LP!Roles -> LP!Sockets \cup {0}]
        /\ \A x \in LP!Roles : x # r => at'[x] = at[x] /\ my'[x] = my[x]
        /\ at'[r] = step
    BY <1>2, <2>1 DEF LinkInv, LinkTypes
  <2>3. r = "listener" => ~LP!IsOpen(on)
    BY <1>2 DEF LinkInv, LinkKnown
  <2> QED
    BY <1>2, <2>2, <2>3, RoleKeeps
<1>3. CASE LP!Probes(r) \/ LP!BacksOff(r)
  BY <1>2, <1>3 DEF LP!Probes, LP!BacksOff, LP!config, LP!sockets, LP!loops
<1>4. CASE LP!Unavailable(r)
  BY <1>1, <1>4 DEF LP!Unavailable, LP!config, LP!sockets
<1>5. CASE LP!AttemptFails(r)
  <2>1. at[r] # "none" /\ (at[r] = "auth" => ~LP!IsOpen(my[r]))
    BY <1>5 DEF LP!AttemptFails
  <2>2. UNCHANGED <<scenario, local_websocket, sock>>
    BY <1>5 DEF LP!AttemptFails, LP!config, LP!sockets
  <2>3. LP!GivesUp(r) \/ (LP!To(r, "backoff") /\ UNCHANGED <<my, sender, listener, on>>)
    BY <1>5 DEF LP!AttemptFails, LP!loops
  <2> QED
    BY <1>1, <1>2, <2>1, <2>2, <2>3
<1>6. CASE LP!Authenticated(r)
  <2>1. /\ LP!LoopsRestart(local_websocket, r) /\ UNCHANGED <<scenario, local_websocket, sock>>
        /\ at[r] = "auth"
    BY <1>6 DEF LP!Authenticated, LP!config, LP!sockets
  <2>2. /\ local_websocket \in LP!Sockets /\ sock[local_websocket] # "none" /\ LinkTypes
        /\ \A x \in LP!Roles : at[x] = "auth" => my[x] # 0 /\ sock[my[x]] # "none"
    BY <2>1 DEF LinkInv, LinkKnown, LinkTypes
  <2>3. sock' \in [LP!Sockets -> {"none", "open", "lost", "closed"}] /\ sock' = sock
    BY <2>1, <2>2 DEF LinkTypes
  <2> QED
    BY <2>1, <2>2, <2>3, RestartKeeps
<1>7. CASE LP!Connects(r)
  <2>1. PICK s \in LP!Sockets :
          /\ sock[s] = "none" /\ sock' = [sock EXCEPT ![s] = "open"] /\ local_websocket' = s
          /\ IF auth
             THEN LP!To(r, "auth") /\ my' = [my EXCEPT ![r] = s] /\ UNCHANGED <<sender, listener, on>>
             ELSE LP!LoopsRestart(s, r)
    BY <1>7 DEF LP!Connects, LP!loops
  <2>2. UNCHANGED scenario /\ LP!Sockets' = LP!Sockets /\ 0 \notin LP!Sockets /\ s # 0
    BY <1>7 DEF LP!Connects, LP!config, LP!Sockets, LinkInv, LinkTypes
  <2>3. /\ sock' \in [LP!Sockets -> {"none", "open", "lost", "closed"}] /\ sock'[s] = "open"
        /\ \A t \in LP!Sockets : t # s => sock'[t] = sock[t]
    BY <2>1 DEF LinkInv, LinkTypes
  <2>4. \A x \in LP!Roles : at[x] = "auth" => my[x] # 0 /\ my[x] # s /\ sock'[my[x]] # "none"
    BY <2>1, <2>3 DEF LinkInv, LinkKnown, LinkTypes
  <2>5. CASE auth
    <3>1. at' = [at EXCEPT ![r] = "auth"] /\ my' = [my EXCEPT ![r] = s] /\ UNCHANGED <<sender, listener, on>>
      BY <2>1, <2>5 DEF LP!To
    <3>2. LinkTypes'
      BY <2>1, <2>2, <2>3, <3>1 DEF LinkInv, LinkTypes
    <3>3. at'[r] = "auth" /\ my'[r] = s /\ \A x \in LP!Roles : x # r => at'[x] = at[x] /\ my'[x] = my[x]
      BY <3>1 DEF LinkInv, LinkTypes
    <3>4. \A x \in LP!Roles : at'[x] = "auth" => local_websocket' # 0 /\ my'[x] # 0 /\ sock'[my'[x]] # "none"
      BY <2>1, <2>2, <2>3, <2>4, <3>3
    <3>5. at'["listener"] # "none" => ~LP!IsOpen(on)'
      <4>1. at["listener"] # "none" => ~LP!IsOpen(on)
        BY DEF LinkInv, LinkKnown
      <4>2. at'["listener"] # "none" => at["listener"] # "none"
        BY <1>7, <3>3 DEF LP!Connects, LP!Roles
      <4>3. on # 0 => on # s /\ sock'[on] = sock[on]
        BY <2>1, <2>3 DEF LinkInv, LinkKnown, LinkTypes
      <4> QED
        BY <3>1, <4>1, <4>2, <4>3 DEF LP!IsOpen
    <3>7. on' # 0 => sock'[on'] # "none"
      BY <2>3, <3>1 DEF LinkInv, LinkKnown, LinkTypes
    <3>6. Authenticating(local_websocket)'
      BY <2>1, <3>3 DEF Authenticating
    <3> QED
      BY <2>1, <2>2, <2>3, <3>2, <3>4, <3>5, <3>6, <3>7 DEF LinkInv, LinkKnown
  <2>6. CASE ~auth
    BY <2>1, <2>2, <2>3, <2>4, <2>6, RestartKeeps DEF LinkInv
  <2> QED
    BY <2>5, <2>6
<1> QED
  BY <1>3, <1>4, <1>5, <1>6, <1>7 DEF LP!Reconnects

LEMMA StarterStep ==
    ASSUME LinkTypes, StarterKnown, [LP!Next]_LP!vars
    PROVE  StarterKnown'
<1> USE DEF StarterKnown
<1>1. ASSUME at' = at, local_phase' \in {local_phase, "up", "stopped"}
      PROVE  StarterKnown'
  BY <1>1
<1>2. ASSUME NEW r \in LP!Roles, NEW step, at[r] # "none", at' = [at EXCEPT ![r] = step], local_phase' = local_phase
      PROVE  StarterKnown'
  BY <1>2 DEF LinkTypes, LP!Roles
<1>3. ASSUME NEW r \in LP!Roles, NEW gone \in SUBSET LP!Roles, r \in gone,
             at' = [x \in LP!Roles |-> IF x \in gone THEN "none" ELSE at[x]],
             local_phase' = local_phase \/ r = "starter"
      PROVE  StarterKnown'
  BY <1>3 DEF LP!Roles
<1>4. ASSUME NEW r \in LP!Roles, LP!Probes(r) \/ LP!BacksOff(r)
      PROVE  StarterKnown'
  <2>1. PICK step : at' = [at EXCEPT ![r] = step] /\ at[r] # "none" /\ local_phase' = local_phase
    BY <1>4 DEF LP!Probes, LP!BacksOff, LP!To
  <2> QED
    BY <2>1, <1>2
<1>5. ASSUME NEW r \in LP!Roles, NEW ws, LP!LoopsRestart(ws, r)
      PROVE  StarterKnown'
  <2>1. {r, "listener", "sender"} \in SUBSET LP!Roles
    BY <1>5 DEF LP!Roles
  <2>2. at' = [x \in LP!Roles |-> IF x \in {r, "listener", "sender"} THEN "none" ELSE at[x]]
    BY <1>5 DEF LP!LoopsRestart, LP!Forgets
  <2>3. local_phase' = local_phase \/ r = "starter"
    BY <1>5 DEF LP!LoopsRestart, LP!StarterReturns
  <2> QED
    BY <1>3, <2>1, <2>2, <2>3
<1>6. ASSUME NEW r \in LP!Roles, NEW next, LP!GivesUp(r), LP!StarterReturns(r, next)
      PROVE  StarterKnown'
  <2>1. at' = [x \in LP!Roles |-> IF x \in {r} THEN "none" ELSE at[x]]
    BY <1>6 DEF LP!GivesUp, LP!Forgets
  <2>2. local_phase' = local_phase \/ r = "starter"
    BY <1>6 DEF LP!StarterReturns
  <2> QED
    BY <1>3, <2>1, <2>2
<1>7. ASSUME NEW r \in LP!Roles, LP!Connects(r)
      PROVE  StarterKnown'
  <2>1. \/ at' = [at EXCEPT ![r] = "auth"] /\ at[r] # "none" /\ local_phase' = local_phase
        \/ \E ws \in LP!Sockets : LP!LoopsRestart(ws, r)
    BY <1>7 DEF LP!Connects, LP!To
  <2> QED
    BY <2>1, <1>2, <1>5
<1>8. ASSUME NEW r \in LP!Roles, LP!Authenticated(r) \/ LP!Unavailable(r)
      PROVE  StarterKnown'
  BY <1>8, <1>5, <1>6 DEF LP!Authenticated, LP!Unavailable
<1>9. ASSUME NEW r \in LP!Roles, LP!AttemptFails(r)
      PROVE  StarterKnown'
  <2>1. \/ at' = [at EXCEPT ![r] = "backoff"] /\ at[r] # "none" /\ local_phase' = local_phase
        \/ LP!GivesUp(r) /\ LP!StarterReturns(r, "failed")
    BY <1>9 DEF LP!AttemptFails, LP!To
  <2> QED
    BY <2>1, <1>2, <1>6
<1>10. CASE LP!Start \/ LP!Greets
  BY <1>10, <1>1 DEF LP!Start, LP!Greets
<1>11. CASE LP!ListenerLoses \/ LP!SenderLoses \/ LP!BackgroundWakes
  <2>1. /\ local_phase' = local_phase
        /\ \/ at' = at
           \/ \E r \in {"listener", "sender", "background"} : at' = [at EXCEPT ![r] = "probe"]
    BY <1>11 DEF LP!ListenerLoses, LP!SenderLoses, LP!BackgroundWakes, LP!To, LP!loops
  <2> QED
    BY <2>1 DEF LinkTypes, LP!Roles
<1>12. CASE \/ LP!Stop \/ LP!AudioArrives \/ LP!AudioDone \/ LP!HangsUp \/ LP!FallbackHangsUp
            \/ (\E s \in LP!Sockets : LP!Drop(s)) \/ LP!ServerStops \/ LP!ServerStarts \/ UNCHANGED LP!vars
  BY <1>1, <1>12 DEF LP!Stop, LP!AudioArrives, LP!AudioDone, LP!HangsUp, LP!FallbackHangsUp, LP!Drop,
     LP!ServerStops, LP!ServerStarts, LP!vars, LP!retry
<1>13. ASSUME NEW k, \/ LP!TextArrives(k) \/ LP!GatewayAnswers(k) \/ LP!GatewayTimesOut(k) \/ LP!Repaired(k)
                     \/ LP!SoundPlayed(k)
      PROVE  StarterKnown'
  BY <1>1, <1>13 DEF LP!TextArrives, LP!GatewayAnswers, LP!GatewayTimesOut, LP!Repaired, LP!SoundPlayed, LP!retry
<1> QED
  BY <1>4, <1>7, <1>8, <1>9, <1>10, <1>11, <1>12, <1>13 DEF LP!Next, LP!Reconnects

LEMMA LinkStep ==
    ASSUME LinkInv, StarterKnown, [LP!Next]_LP!vars, "auth" \notin LP!Failures
    PROVE  LinkInv'
<1>0. LP!Sockets' = LP!Sockets \/ ~UNCHANGED scenario
  BY DEF LP!Sockets
<1>1. ASSUME UNCHANGED <<scenario, local_websocket, sock, at, my, listener, on, sender>>
      PROVE  LinkInv'
  BY <1>0, <1>1 DEF LinkInv, LinkTypes, LinkKnown, LP!IsOpen, Authenticating
<1>2. CASE LP!Start \/ LP!Greets \/ LP!SenderLoses \/ LP!BackgroundWakes
  <2>1. UNCHANGED <<scenario, local_websocket, sock, my, listener, on, sender>>
    BY <1>2 DEF LP!Start, LP!Greets, LP!SenderLoses, LP!BackgroundWakes, LP!config, LP!sockets, LP!loops
  <2>2. CASE at' = at
    BY <1>1, <2>1, <2>2
  <2>3. ASSUME NEW r \in {"starter", "sender", "background"}, at' = [at EXCEPT ![r] = "probe"], at[r] # "auth"
        PROVE  LinkInv'
    <3>1. /\ at' \in [LP!Roles -> {"none", "probe", "connect", "auth", "backoff"}]
          /\ my' \in [LP!Roles -> LP!Sockets \cup {0}]
          /\ \A x \in LP!Roles : x # r => at'[x] = at[x] /\ my'[x] = my[x]
          /\ at'[r] = "probe" /\ r \in LP!Roles
      BY <2>1, <2>3 DEF LinkInv, LinkTypes, LP!Roles
    <3> QED
      BY <2>1, <2>3, <3>1, RoleKeeps
  <2>4. at' = at \/ \E r \in {"starter", "sender", "background"} : at' = [at EXCEPT ![r] = "probe"] /\ at[r] # "auth"
    BY <1>2 DEF StarterKnown, LP!Start, LP!Greets, LP!SenderLoses, LP!BackgroundWakes, LP!To
  <2> QED
    BY <2>2, <2>3, <2>4
<1>3. CASE LP!ListenerLoses
  <2>1. /\ UNCHANGED <<scenario, local_websocket, sock, my, sender>> /\ "listener" \in LP!Roles
        /\ at["listener"] = "none" /\ sock[on] \in {"lost", "closed"}
        /\ \/ at' = [at EXCEPT !["listener"] = "probe"] /\ UNCHANGED <<listener, on>>
           \/ UNCHANGED at /\ on' = 0
    BY <1>3 DEF LP!ListenerLoses, LP!Reading, LP!To, LP!config, LP!sockets, LP!loops, LP!Roles
  <2>2. ~LP!IsOpen(on)
    BY <2>1 DEF LP!IsOpen
  <2>3. /\ at' \in [LP!Roles -> {"none", "probe", "connect", "auth", "backoff"}]
        /\ my' \in [LP!Roles -> LP!Sockets \cup {0}]
        /\ \A x \in LP!Roles : x # "listener" => at'[x] = at[x] /\ my'[x] = my[x]
        /\ at'["listener"] \in {"none", "probe"}
    BY <2>1 DEF LinkInv, LinkTypes
  <2> QED
    BY <2>1, <2>2, <2>3, RoleKeeps
<1>4. ASSUME NEW S \in SUBSET LP!Sockets, NEW how \in {"lost", "closed"},
             sock' = [s \in LP!Sockets |-> IF s \in S /\ sock[s] = "open" THEN how ELSE sock[s]],
             UNCHANGED <<scenario, local_websocket, at, my, listener, on, sender>>
      PROVE  LinkInv'
  <2>1. \A s \in LP!Sockets : sock'[s] = "open" => sock[s] = "open"
    BY <1>4
  <2>2. \A s \in LP!Sockets : sock[s] # "none" => sock'[s] # "none"
    BY <1>4
  <2>3. LinkTypes'
    BY <1>0, <1>4 DEF LinkInv, LinkTypes
  <2> QED
    BY <1>4, <2>1, <2>2, <2>3 DEF LinkInv, LinkKnown, LinkTypes, LP!IsOpen, Authenticating
<1>5. CASE (\E s \in LP!Sockets : LP!Drop(s)) \/ LP!ServerStops
  <2>1. UNCHANGED <<scenario, local_websocket, at, my, listener, on, sender>>
    BY <1>5 DEF LP!Drop, LP!ServerStops, LP!config, LP!retry, LP!loops
  <2>2. ASSUME NEW s \in LP!Sockets, LP!Drop(s)
        PROVE  LinkInv'
    <3>1. PICK how \in {"lost", "closed"} : sock' = [sock EXCEPT ![s] = how]
      BY <2>2 DEF LP!Drop
    <3>2. sock' = [t \in LP!Sockets |-> IF t \in {s} /\ sock[t] = "open" THEN how ELSE sock[t]]
      BY <2>2, <3>1 DEF LP!Drop, LinkInv, LinkTypes
    <3> QED
      BY <1>4, <2>1, <3>2
  <2>3. CASE LP!ServerStops
    <3>1. PICK how \in {"lost", "closed"} :
            sock' = [s \in LP!Sockets |-> IF sock[s] = "open" THEN how ELSE sock[s]]
      BY <2>3 DEF LP!ServerStops
    <3>2. sock' = [t \in LP!Sockets |-> IF t \in LP!Sockets /\ sock[t] = "open" THEN how ELSE sock[t]]
      BY <3>1
    <3> QED
      BY <1>4, <2>1, <3>2
  <2> QED
    BY <1>5, <2>2, <2>3
<1>6. CASE \/ LP!Stop \/ LP!AudioArrives \/ LP!AudioDone \/ LP!HangsUp \/ LP!FallbackHangsUp
           \/ LP!ServerStarts \/ UNCHANGED LP!vars
  BY <1>1, <1>6 DEF LP!Stop, LP!AudioArrives, LP!AudioDone, LP!HangsUp, LP!FallbackHangsUp, LP!ServerStarts,
     LP!vars, LP!config, LP!sockets, LP!retry, LP!loops
<1>7. ASSUME NEW k, \/ LP!TextArrives(k) \/ LP!GatewayAnswers(k) \/ LP!GatewayTimesOut(k) \/ LP!Repaired(k)
                    \/ LP!SoundPlayed(k)
      PROVE  LinkInv'
  BY <1>1, <1>7 DEF LP!TextArrives, LP!GatewayAnswers, LP!GatewayTimesOut, LP!Repaired, LP!SoundPlayed,
     LP!config, LP!sockets, LP!retry, LP!loops
<1> QED
  BY <1>2, <1>3, <1>5, <1>6, <1>7, ReconnectsLink DEF LP!Next

(* Unless an authentication is refused, a provider that was connected is    *)
(* never left with a live socket that nobody reads or is about to: whatever *)
(* the order in which four tasks reconnect, cancel and give up.             *)
THEOREM ServersHeard == LP!Spec => []("auth" \notin LP!Failures => RecoveryUnderWay)
<1> DEFINE Kept == "auth" \notin LP!Failures => LinkInv /\ StarterKnown
<1>1. LP!Init => Kept
  BY LinkStart DEF LP!Init, StarterKnown, LP!Roles
<1>2. Kept /\ [LP!Next]_LP!vars => Kept'
  <2> SUFFICES ASSUME Kept, [LP!Next]_LP!vars, ("auth" \notin LP!Failures)'
               PROVE  LinkInv' /\ StarterKnown'
    OBVIOUS
  <2>1. UNCHANGED scenario
    BY DEF LP!Next, LP!Reconnects, LP!Probes, LP!Connects, LP!Authenticated, LP!Unavailable, LP!AttemptFails,
       LP!BacksOff, LP!Start, LP!Greets, LP!ListenerLoses, LP!SenderLoses, LP!BackgroundWakes, LP!Stop,
       LP!TextArrives, LP!GatewayAnswers, LP!GatewayTimesOut, LP!Repaired, LP!SoundPlayed, LP!AudioArrives,
       LP!AudioDone, LP!HangsUp, LP!FallbackHangsUp, LP!Drop, LP!ServerStops, LP!ServerStarts,
       LP!vars, LP!config
  <2> QED
    BY <2>1, LinkStep, StarterStep DEF LP!Failures, LinkInv
<1>3. Kept => ("auth" \notin LP!Failures => RecoveryUnderWay)
  <2> SUFFICES ASSUME LinkInv, sender
               PROVE  LP!Hears \/ LP!Unsendable(local_websocket) \/ Authenticating(local_websocket)
    BY DEF RecoveryUnderWay
  <2>1. local_websocket \in LP!Sockets /\ sock[local_websocket] \in {"open", "lost", "closed"}
    BY DEF LinkInv, LinkKnown, LinkTypes
  <2> QED
    BY <2>1 DEF LinkInv, LinkKnown, LP!IsOpen, LP!Hears, LP!Unsendable
<1> HIDE DEF Kept
<1> QED
  BY <1>1, <1>2, <1>3, PTL DEF LP!Spec

-----------------------------------------------------------------------------
(* Google Live: the goodbye.                                                *)

(* Both marks of the provider stand for the session's. *)
EndingKnown == armed \/ hangup_after_response => cleanup_after_tts

LEMMA EndingStep == EndingKnown /\ [GL!Next]_GL!vars => EndingKnown'
<1> SUFFICES ASSUME EndingKnown, [GL!Next]_GL!vars
             PROVE  EndingKnown'
  OBVIOUS
<1> USE DEF EndingKnown
<1>1. CASE GL!CallerGoesOn \/ GL!HangupTool \/ GL!Stopped
  BY <1>1 DEF GL!CallerGoesOn, GL!DisarmOf, GL!HangupTool, GL!Stopped
<1>2. CASE GL!TurnComplete
  BY <1>2 DEF GL!TurnComplete, GL!TurnEnds
<1>3. CASE GL!Engine
  BY <1>3 DEF GL!Engine, GL!TurnDone, GL!TurnEnds, GL!FarewellDone, GL!Disconnected, GL!FallbackDone,
     GL!FallbackReady, GL!goodbye
<1>4. CASE \/ GL!Start \/ GL!Connects \/ GL!SetupComplete \/ GL!StartFails \/ GL!Stop
           \/ GL!OutputText \/ GL!Interrupted \/ GL!OtherTool \/ GL!ReaderLoses \/ GL!Drop
           \/ GL!CallEnds \/ GL!FallbackNoAudio \/ GL!FallbackIdle \/ UNCHANGED GL!vars
  <2>1. UNCHANGED GL!goodbye
    BY <1>4 DEF GL!Start, GL!Connects, GL!SetupComplete, GL!StartFails, GL!Stop, GL!OutputText,
       GL!Interrupted, GL!OtherTool, GL!ReaderLoses, GL!Drop, GL!CallEnds, GL!FallbackNoAudio,
       GL!FallbackIdle, GL!vars
  <2> QED
    BY <2>1 DEF GL!goodbye
<1>5. CASE GL!AudioOutput \/ GL!WatchdogLeaves
  BY <1>5 DEF GL!AudioOutput, GL!WatchdogLeaves
<1> QED
  BY <1>1, <1>2, <1>3, <1>4, <1>5 DEF GL!Next, GL!Fallback

(* An announcement of the hang-up, by the watchdog or by the end of a turn, *)
(* begins only while the session says that the call is ending: the caller   *)
(* who took the goodbye back is spared.                                     *)
THEOREM CallersSpared == GL!Spec => CallerSpared
<1> DEFINE Spared == \/ watchdog = "loops" /\ watchdog' \in GL!Announcing
                     \/ reader = "reads" /\ reader' \in GL!Announcing
                     => cleanup_after_tts'
<1>1. GL!Init => EndingKnown
  BY DEF GL!Init, EndingKnown
<1>2. EndingKnown /\ [GL!Next]_GL!vars => Spared
  <2> SUFFICES ASSUME EndingKnown, GL!Next
               PROVE  Spared
    BY DEF GL!vars, GL!Announcing
  <2>1. CASE GL!TurnComplete
    BY <2>1 DEF EndingKnown, GL!TurnComplete, GL!TurnEnds, GL!Announcing
  <2>2. CASE GL!FallbackNoAudio \/ GL!FallbackIdle
    BY <2>2 DEF EndingKnown, GL!FallbackNoAudio, GL!FallbackIdle, GL!Watching, GL!Announcing,
       GL!goodbye
  <2>3. CASE GL!Engine \/ GL!WatchdogLeaves
    BY <2>3 DEF GL!Engine, GL!TurnDone, GL!TurnEnds, GL!FarewellDone, GL!Disconnected,
       GL!FallbackDone, GL!FallbackReady, GL!WatchdogLeaves, GL!Announcing
  <2>4. CASE \/ GL!Start \/ GL!Connects \/ GL!SetupComplete \/ GL!StartFails \/ GL!Stop \/ GL!Stopped
             \/ GL!CallerGoesOn \/ GL!OutputText \/ GL!AudioOutput \/ GL!Interrupted
             \/ GL!HangupTool \/ GL!OtherTool \/ GL!ReaderLoses \/ GL!Drop \/ GL!CallEnds
    BY <2>4 DEF GL!Start, GL!Connects, GL!SetupComplete, GL!StartFails, GL!Stop, GL!Stopped,
       GL!CallerGoesOn, GL!OutputText, GL!AudioOutput, GL!Interrupted, GL!HangupTool, GL!Arms,
       GL!OtherTool, GL!ReaderLoses, GL!Drop, GL!CallEnds, GL!Announcing
  <2> QED
    BY <2>1, <2>2, <2>3, <2>4 DEF GL!Next, GL!Fallback
<1> QED
  BY <1>1, <1>2, EndingStep, PTL DEF GL!Spec, CallerSpared, GL!CallerSpared

-----------------------------------------------------------------------------
(* Google Live: who ends the goodbye.                                       *)

(* An announced goodbye has its watchdog, until the caller is hung up.      *)
HangupWatched == armed /\ stopping = "no" => hung_up \/ watchdog \in {"loops", "done", "ready"}

(* A lost connection has its receive loop, which will tell the engine, or   *)
(* an announced goodbye.                                                    *)
LossNoticed == link = "lost" /\ stopping = "no" => hung_up \/ armed \/ reader \notin {"none", "over"}

(* The tool's goodbye is an announced one; whoever marks the goodbye as     *)
(* said has hung up; a session's open connection is read, and the loop that *)
(* tells the engine of its loss has lost it.                                *)
GoodbyeKnown ==
    /\ watchdog \in {"none", "loops", "done", "ready", "over"}
    /\ hangup_after_response => armed
    /\ emitted \/ hangup_ready_emitted => hung_up
    /\ link = "open" /\ stopping = "no" => reader \notin {"none", "over"}
    /\ reader = "disconnected" => link # "open"

GoogleInv == EndingKnown /\ GoodbyeKnown /\ HangupWatched /\ LossNoticed

LEMMA GoogleStep ==
    ASSUME GoogleInv, [GL!Next]_GL!vars
    PROVE  GoodbyeKnown' /\ HangupWatched' /\ LossNoticed'
<1> USE DEF GoogleInv, GoodbyeKnown, HangupWatched, LossNoticed
<1>1. CASE \/ GL!Start \/ GL!Connects \/ GL!SetupComplete \/ GL!StartFails \/ GL!Stop \/ GL!CallEnds
           \/ GL!Drop
  BY <1>1 DEF GL!Start, GL!Connects, GL!SetupComplete, GL!StartFails, GL!Stop, GL!StopBegins, GL!CallEnds,
     GL!Drop, GL!goodbye, GL!hangup
<1>2. CASE GL!Stopped
  BY <1>2 DEF GL!Stopped, GL!hangup
<1>3. CASE GL!CallerGoesOn
  <2>1. /\ reader = "reads" /\ ~hangup_after_response
        /\ UNCHANGED <<hangup_after_response, link, stopping, reader, watchdog, emitted, hangup_ready_emitted,
                       hung_up>>
        /\ ~armed'
    BY <1>3 DEF GL!CallerGoesOn, GL!DisarmOf, GL!Talking, GL!Reading, GL!session, GL!hangup
  <2> QED
    BY <2>1
<1>10. CASE GL!HangupTool
  <2>1. /\ reader = "reads" /\ armed'
        /\ UNCHANGED <<link, stopping, reader, emitted, hangup_ready_emitted, hung_up>>
        /\ (armed /\ watchdog' = watchdog) \/ watchdog' \in {"loops", "done", "ready"}
    BY <1>10 DEF GL!HangupTool, GL!Arms, GL!Talking, GL!Reading, GL!session, GL!hangup
  <2> QED
    BY <2>1
<1>11. CASE GL!OtherTool
  BY <1>11 DEF GL!OtherTool, GL!Talking, GL!Reading, GL!session, GL!goodbye, GL!hangup
<1>4. CASE GL!OutputText \/ GL!AudioOutput \/ GL!Interrupted \/ UNCHANGED GL!vars
  BY <1>4 DEF GL!OutputText, GL!AudioOutput, GL!Interrupted, GL!session, GL!goodbye, GL!hangup, GL!vars
<1>5. CASE GL!TurnComplete
  <2>1. reader = "reads" /\ reader' \in {"reads", "done", "ready"} /\ UNCHANGED <<GL!session, GL!hangup>>
    BY <1>5 DEF GL!TurnComplete, GL!TurnEnds, GL!Talking, GL!Reading
  <2>2. HangupWatched' /\ watchdog' \in {"none", "loops", "done", "ready", "over"}
    <3>1. CASE UNCHANGED <<armed, watchdog>>
      BY <2>1, <3>1 DEF GL!session, GL!hangup
    <3>2. CASE GL!Arms
      <4>1. watchdog' \in {"loops", "done", "ready"}
        BY <3>2 DEF GL!Arms
      <4> QED
        BY <4>1
    <3> QED
      BY <1>5, <3>1, <3>2 DEF GL!TurnComplete
  <2>3. (hangup_after_response' => hangup_after_response) /\ (armed => armed')
    BY <1>5 DEF GL!TurnComplete, GL!TurnEnds, GL!Arms
  <2>4. emitted' => emitted
    <3>1. armed' => cleanup_after_tts'
      BY <1>5, EndingStep DEF EndingKnown, GL!Next
    <3> QED
      BY <1>5, <3>1 DEF GL!TurnComplete, GL!TurnEnds, GL!Leaves
  <2> QED
    BY <2>1, <2>2, <2>3, <2>4 DEF GL!session, GL!hangup
<1>6. CASE GL!TurnDone \/ GL!FarewellDone \/ GL!Disconnected
  <2>1. hung_up'
    BY <1>6 DEF GL!TurnDone, GL!FarewellDone, GL!Disconnected
  <2>2. (hangup_after_response' => hangup_after_response) /\ UNCHANGED <<link, stopping, armed, watchdog>>
    <3>1. CASE GL!TurnDone
      BY <3>1 DEF GL!TurnDone, GL!TurnEnds, GL!session
    <3>2. CASE GL!FarewellDone \/ GL!Disconnected
      BY <3>2 DEF GL!FarewellDone, GL!Disconnected, GL!session, GL!goodbye
    <3> QED
      BY <1>6, <3>1, <3>2
  <2>3. reader' # "disconnected" /\ (reader' \in {"none", "over"} => reader = "disconnected")
    BY <1>6 DEF GL!TurnDone, GL!TurnEnds, GL!FarewellDone, GL!Disconnected
  <2> QED
    BY <2>1, <2>2, <2>3
<1>7. CASE GL!FallbackDone \/ GL!FallbackReady
  BY <1>7 DEF GL!FallbackDone, GL!FallbackReady, GL!session, GL!goodbye
<1>8. CASE GL!Fallback
  BY <1>8 DEF GL!Fallback, GL!FallbackNoAudio, GL!FallbackIdle, GL!WatchdogLeaves, GL!session, GL!goodbye, GL!hangup
<1>9. CASE GL!ReaderLoses
  BY <1>9 DEF GL!ReaderLoses, GL!LeavesQuietly, GL!session, GL!goodbye, GL!hangup
<1> QED
  BY <1>1, <1>2, <1>3, <1>4, <1>5, <1>6, <1>7, <1>8, <1>9, <1>10, <1>11 DEF GL!Next, GL!Engine

(* No goodbye is left to nobody, and no lost connection leaves the caller   *)
(* in dead air unnoticed: until the caller is hung up or the session ends,  *)
(* the watchdog or the receive loop still has its announcement to make.     *)
THEOREM GoodbyesFollowed == GL!Spec => [](HangupWatched /\ LossNoticed)
<1>1. GL!Init => GoogleInv
  BY DEF GL!Init, GoogleInv, EndingKnown, GoodbyeKnown, HangupWatched, LossNoticed
<1>2. GoogleInv /\ [GL!Next]_GL!vars => GoogleInv'
  BY GoogleStep, EndingStep DEF GoogleInv
<1>3. GoogleInv => HangupWatched /\ LossNoticed
  BY DEF GoogleInv
<1> QED
  BY <1>1, <1>2, <1>3, PTL DEF GL!Spec
=============================================================================
