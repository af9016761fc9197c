-------------------------- MODULE AttendedTransfer --------------------------
(***************************************************************************)
(* Warm transfers of one caller: the tool (or the screening task) that     *)
(* holds the caller and dials an agent, the guard that gives up on an      *)
(* agent who does not answer, the handler that briefs an agent who did and *)
(* waits for a digit, the cancel_transfer tool, and the call's cleanup.    *)
(* All of them share session.current_action.  Leg k is the agent's channel *)
(* of the k-th request.                                                    *)
(***************************************************************************)
EXTENDS Naturals, FiniteSets

CONSTANTS Screening,  \* caller_recording screening: subset of BOOLEAN
          Helper,     \* delivery by helper media: subset of BOOLEAN
          MaxLegs     \* bound: requests of the call

ASSUME TransferAssumption ==
    Screening \subseteq BOOLEAN /\ Helper \subseteq BOOLEAN /\ MaxLegs \in Nat

VARIABLES
    screening, streaming,
    caller,    \* "up", "hungup" (its end event is on its way) or "gone"
    cleanup,   \* what _cleanup_call has done last
    read,      \* the agent's leg that it found in the action, or 0
    stored,    \* the session is in the SessionStore
    ai,        \* the AI's media and provider are in the call
    moh,       \* the caller hears music on hold
    capture,   \* audio_capture_enabled
    speaking,  \* a playback of the AI holds a gating token
    action,    \* session.current_action
    flow,      \* the request's coroutine: "collect", "hold", "dial", "register"
    leg,       \* the agent's channel: "none", "dialing", "up", "bridged" or "gone"
    ended,     \* legs whose end event is on its way
    mapped,    \* keys of _attended_transfer_agent_channel_to_call_id
    digit,     \* first digit recorded: "none", "accept" or "other"
    guard,     \* legs whose timeout guard is asleep
    giving,    \* legs whose guard hangs up before it clears the action
    helper,    \* legs with helper media
    h,         \* the answered-handlers' steps
    cancel,    \* cancel_transfer between reading and clearing the action
    odd        \* history: "double", "crossed", "deaf", "late", "refused"

shared   == <<caller, stored, ai, moh, capture, speaking, action>>
channels == <<leg, ended, mapped, digit, guard, helper>>
vars     == <<screening, streaming, shared, channels, flow, h, giving, cancel, odd, cleanup, read>>
fixed    == <<screening, streaming>>
ending   == <<cleanup, read>>

Legs == 1 .. MaxLegs
Off  == [on |-> FALSE, leg |-> 0, answered |-> FALSE, decision |-> "none", prior |-> "unset"]
Idle == 0  \* cancel

Init ==
    /\ screening \in Screening /\ streaming \in Helper
    /\ caller = "up" /\ stored = TRUE /\ ai = TRUE
    /\ moh = FALSE /\ capture = TRUE /\ speaking = FALSE /\ action = Off
    /\ flow = [k \in Legs |-> "none"] /\ leg = [k \in Legs |-> "none"]
    /\ ended = {} /\ mapped = {} /\ digit = [k \in Legs |-> "none"]
    /\ guard = {} /\ giving = {} /\ helper = {} /\ h = [k \in Legs |-> "none"]
    /\ cancel = Idle /\ odd = {} /\ cleanup = "none" /\ read = 0

-----------------------------------------------------------------------------
(* What several handlers do.                                                *)

Alive(k) == leg[k] \in {"dialing", "up", "bridged"}

\* _cleanup_call is past its reading of current_action; the bridge is gone by then.
ActionRead == cleanup \in {"read", "released", "freed", "over"}

\* hangup_channel(k), as the effect on the agent's channel and its end event.
LegHungUp(k) ==
    /\ leg' = IF k # 0 /\ Alive(k) THEN [leg EXCEPT ![k] = "gone"] ELSE leg
    /\ ended' = IF k # 0 /\ Alive(k) THEN ended \cup {k} ELSE ended

\* The mapping survives although the leg is given up.
Unregistered_Kept(k) == UNCHANGED <<mapped, digit>>

\* _unregister_attended_transfer_agent_channel.
Unregistered(k) ==
    /\ mapped' = mapped \ {k}
    /\ digit' = IF k = 0 THEN digit ELSE [digit EXCEPT ![k] = "none"]

Steps(k, step) == h' = [h EXCEPT ![k] = step]
NoLegChange == UNCHANGED <<leg, ended>>
NoMapChange == UNCHANGED <<mapped, digit>>

-----------------------------------------------------------------------------
(* The attended_transfer tool.                                              *)

\* Tools run one after the other; nothing stops a second request.
Asked(k) ==
    /\ stored /\ ai /\ flow[k] = "none" /\ \A j \in Legs : j < k => flow[j] # "none"
    /\ \A j \in Legs : flow[j] \notin {"hold", "dial", "register"}
    /\ action' = [Off EXCEPT !.on = TRUE]
    /\ flow' = [flow EXCEPT ![k] = IF screening THEN "collect" ELSE "hold"]
    /\ odd' = odd \cup (IF action.on \/ \E j \in Legs : h[j] \notin {"none", "done"}
                        THEN {"double"} ELSE {})
                  \cup (IF cancel # Idle \/ giving # {} THEN {"crossed"} ELSE {})
                  \cup (IF cleanup \in {"none", "begun"} THEN {} ELSE {"late"})
    /\ UNCHANGED <<fixed, ending, caller, stored, ai, moh, capture, speaking, channels, h, giving, cancel>>

\* The caller's name was recorded, timed out or was cancelled.
Collected(k) ==
    /\ flow[k] = "collect"
    /\ flow' = [flow EXCEPT ![k] = IF stored /\ action.on THEN "hold" ELSE "done"]
    /\ UNCHANGED <<fixed, ending, shared, channels, h, giving, cancel, odd>>

\* Music starts, or not; then the capture is switched off, whatever became of
\* the action meanwhile.
Holds(k) ==
    /\ flow[k] = "hold"
    /\ moh' \in {moh, caller = "up"}
    /\ IF stored
       THEN /\ action' = IF action.on THEN [action EXCEPT !.prior = IF capture THEN "on" ELSE "off"]
                                      ELSE action
            /\ capture' = FALSE
            /\ odd' = odd \cup (IF action.on THEN {} ELSE {"crossed"})
                          \cup (IF capture THEN {} ELSE {"deaf"})
       ELSE UNCHANGED <<action, capture, odd>>
    /\ flow' = [flow EXCEPT ![k] = "dial"]
    /\ UNCHANGED <<fixed, ending, caller, stored, ai, speaking, channels, h, giving, cancel>>

\* Asterisk dials; its answer to the request may come after the agent's.
Dials(k) ==
    /\ flow[k] = "dial"
    /\ leg' = [leg EXCEPT ![k] = "dialing"]
    /\ flow' = [flow EXCEPT ![k] = "register"]
    /\ UNCHANGED <<fixed, ending, shared, ended, mapped, digit, guard, helper, h, giving, cancel, odd>>

\* Only music stops when the agent cannot be dialled.
OriginateFails_CaptureLeft(k) ==
    /\ flow[k] = "dial"
    /\ moh' = FALSE
    /\ action' = IF stored /\ action.on THEN Off ELSE action
    /\ flow' = [flow EXCEPT ![k] = "done"]
    /\ odd' = IF ~action.on THEN odd \cup {"crossed"} ELSE odd
    /\ UNCHANGED <<fixed, ending, caller, stored, ai, capture, speaking, channels, h, giving, cancel>>

\* Music stops, the action goes and the capture is what it was before the hold.
OriginateFails(k) ==
    /\ flow[k] = "dial"
    /\ moh' = FALSE
    /\ IF stored /\ action.on
       THEN /\ action' = Off
            /\ capture' = IF action.prior = "unset" THEN capture ELSE action.prior = "on"
            /\ UNCHANGED odd
       ELSE /\ odd' = odd \cup {"crossed"} /\ UNCHANGED <<action, capture>>
    /\ flow' = [flow EXCEPT ![k] = "done"]
    /\ UNCHANGED <<fixed, ending, caller, stored, ai, speaking, channels, h, giving, cancel>>

\* The request ends without starting the guard.
Registers_NoGuard(k) ==
    /\ flow[k] = "register"
    /\ action' = IF stored /\ action.on THEN [action EXCEPT !.leg = k] ELSE action
    /\ mapped' = mapped \cup {k} /\ UNCHANGED guard
    /\ flow' = [flow EXCEPT ![k] = "done"]
    /\ UNCHANGED <<fixed, ending, caller, stored, ai, moh, capture, speaking, leg, ended, digit, helper,
                   h, giving, cancel, odd>>

\* The action learns its leg, the leg is mapped and its guard started.
Registers(k) ==
    /\ flow[k] = "register"
    /\ action' = IF stored /\ action.on THEN [action EXCEPT !.leg = k] ELSE action
    /\ mapped' = mapped \cup {k} /\ guard' = guard \cup {k}
    /\ flow' = [flow EXCEPT ![k] = "done"]
    /\ odd' = odd \cup (IF ~action.on \/ cancel # Idle THEN {"crossed"} ELSE {})
    /\ UNCHANGED <<fixed, ending, caller, stored, ai, moh, capture, speaking, leg, ended, digit, helper,
                   h, giving, cancel>>

\* dial_timeout_seconds and two more after the request: an agent who did not
\* answer is given up.
GuardFires(k) ==
    /\ k \in guard /\ guard' = guard \ {k}
    /\ IF stored /\ action.on /\ action.leg = k /\ ~action.answered
       THEN Unregistered(k) /\ LegHungUp(k) /\ giving' = giving \cup {k}
       ELSE /\ IF stored THEN NoMapChange ELSE Unregistered(k)
            /\ NoLegChange /\ UNCHANGED giving
    /\ UNCHANGED <<fixed, ending, shared, helper, flow, h, cancel, odd>>

\* After two requests to Asterisk the caller is resumed, whatever happened meanwhile.
GuardClears(k) ==
    /\ k \in giving /\ giving' = giving \ {k}
    /\ moh' = FALSE /\ action' = Off /\ capture' = TRUE /\ stored' = TRUE
    /\ UNCHANGED <<fixed, ending, caller, ai, speaking, channels, flow, h, cancel, odd>>

-----------------------------------------------------------------------------
(* cancel_transfer.  An answered transfer is not cancelled.                 *)

CancelReads ==
    /\ stored /\ ai /\ cancel = Idle /\ action.on /\ ~action.answered
    /\ cancel' = 1
    /\ IF action.leg = 0
       THEN NoMapChange /\ NoLegChange
       ELSE Unregistered(action.leg) /\ LegHungUp(action.leg)
    /\ UNCHANGED <<fixed, ending, shared, guard, helper, flow, h, giving, odd>>

\* The action is cleared after two requests to Asterisk, whatever it is by then.
CancelClears ==
    /\ cancel = 1 /\ cancel' = Idle
    /\ moh' = FALSE
    /\ action' = Off /\ capture' = TRUE
    /\ stored' = TRUE
    /\ odd' = odd \cup (IF action.answered \/ \E k \in Legs : flow[k] \notin {"none", "done"}
                         THEN {"crossed"} ELSE {})
    /\ UNCHANGED <<fixed, ending, caller, ai, speaking, channels, flow, h, giving>>

-----------------------------------------------------------------------------
(* The agent and the handler of its answer.                                 *)

AgentAnswers(k) ==
    /\ leg[k] = "dialing"
    /\ leg' = [leg EXCEPT ![k] = "up"] /\ Steps(k, "answered")
    /\ UNCHANGED <<fixed, ending, shared, ended, mapped, digit, guard, helper, flow, giving, cancel, odd>>

\* The agent hangs up, is busy or does not answer in time.
AgentEnds(k) ==
    /\ Alive(k)
    /\ LegHungUp(k)
    /\ UNCHANGED <<fixed, ending, shared, mapped, digit, guard, helper, flow, h, giving, cancel, odd>>

\* The first digit counts, at any time the leg is mapped.
AgentPresses(k) ==
    /\ leg[k] = "up" /\ k \in mapped /\ digit[k] = "none"
    /\ \E d \in {"accept", "other"} : digit' = [digit EXCEPT ![k] = d]
    /\ UNCHANGED <<fixed, ending, shared, leg, ended, mapped, guard, helper, flow, h, giving, cancel, odd>>

Answered(k) ==
    /\ h[k] = "answered"
    /\ IF stored /\ action.on
       THEN /\ mapped' = mapped \cup {k} /\ UNCHANGED digit /\ NoLegChange
            /\ odd' = odd \cup (IF action.leg \notin {0, k} THEN {"double"} ELSE {})
                          \cup (IF cancel # Idle \/ giving # {} THEN {"crossed"} ELSE {})
                          \cup (IF ActionRead THEN {"late"} ELSE {})
            /\ action' = [action EXCEPT !.answered = TRUE, !.leg = k]
            /\ Steps(k, IF streaming THEN "helper" ELSE "announce")
       ELSE /\ IF stored THEN Unregistered(k) ELSE NoMapChange
            /\ LegHungUp(k) /\ Steps(k, "done") /\ UNCHANGED <<action, odd>>
    /\ UNCHANGED <<fixed, ending, caller, stored, ai, moh, capture, speaking, guard, helper, flow, giving, cancel>>

\* Helper media comes up, the files are used instead, or the transfer is aborted.
HelperStarts(k) ==
    /\ h[k] = "helper"
    /\ \/ /\ helper' = helper \cup {k} /\ Steps(k, "announce")
          /\ odd' = IF ActionRead THEN odd \cup {"late"} ELSE odd
       \/ UNCHANGED <<helper, odd>> /\ (Steps(k, "announce") \/ Steps(k, "failed"))
    /\ UNCHANGED <<fixed, ending, shared, leg, ended, mapped, digit, guard, flow, giving, cancel>>

\* The announcement, the screening clip and the prompt are played, from files
\* when the stream fails; or they cannot be made or delivered.
Announced(k) ==
    /\ h[k] = "announce"
    /\ helper' \in {helper, helper \ {k}}
    /\ Steps(k, "failed") \/ Steps(k, "wait")
    /\ UNCHANGED <<fixed, ending, shared, leg, ended, mapped, digit, guard, flow, giving, cancel, odd>>

\* A digit, perhaps pressed early, or none in agent_accept_timeout_seconds.
\* Without its session the handler fails and leaves everything as it is.
Decides(k) ==
    /\ h[k] = "wait"
    /\ action' = IF stored /\ action.on
                 THEN [action EXCEPT !.decision = IF digit[k] = "accept" THEN "accepted" ELSE "declined"]
                 ELSE action
    /\ Steps(k, IF ~stored THEN "done" ELSE IF digit[k] = "accept" THEN "finalize" ELSE "declined")
    /\ UNCHANGED <<fixed, ending, caller, stored, ai, moh, capture, speaking, channels, flow, giving,
                   cancel, odd>>

-----------------------------------------------------------------------------
(* _attended_transfer_abort_and_resume and _finalize_bridge.                *)

\* A declined caller is told so, with the capture off meanwhile.
Aborts(k) ==
    /\ h[k] \in {"failed", "declined"}
    /\ helper' = helper \ {k}
    /\ Unregistered(k) /\ LegHungUp(k)
    /\ moh' = FALSE
    /\ capture' = IF h[k] = "declined" THEN FALSE ELSE capture
    /\ Steps(k, "resume")
    /\ UNCHANGED <<fixed, ending, caller, stored, ai, speaking, action, guard, flow, giving, cancel, odd>>

\* The action is gone but the caller stays unheard.
Resumes_CaptureLeft(k) ==
    /\ h[k] = "resume"
    /\ action' = Off /\ UNCHANGED capture
    /\ stored' = TRUE
    /\ Unregistered(k) /\ Steps(k, "done")
    /\ UNCHANGED <<fixed, ending, caller, ai, moh, speaking, leg, ended, guard, helper, flow, giving, cancel, odd>>

\* The session is stored again even if the call was cleaned up meanwhile.
Resumes(k) ==
    /\ h[k] = "resume"
    /\ action' = Off /\ capture' = TRUE
    /\ stored' = TRUE
    /\ Unregistered(k) /\ Steps(k, "done")
    /\ UNCHANGED <<fixed, ending, caller, ai, moh, speaking, leg, ended, guard, helper, flow, giving, cancel, odd>>

\* Music stops, the caller is told, the AI leaves the bridge for good.
Finalizes(k) ==
    /\ h[k] = "finalize"
    /\ moh' = FALSE /\ ai' = FALSE /\ helper' = helper \ {k}
    /\ Steps(k, "bridge")
    /\ UNCHANGED <<fixed, ending, caller, stored, capture, speaking, action, leg, ended, mapped, digit,
                   guard, flow, giving, cancel, odd>>

\* The agent joins the caller's bridge, unless Asterisk refuses: a channel or the bridge is
\* gone, or the request fails.  The answer is not looked at: the transfer is accepted.
Bridges(k) ==
    /\ h[k] = "bridge"
    /\ \/ leg[k] = "up" /\ ~ActionRead /\ leg' = [leg EXCEPT ![k] = "bridged"] /\ UNCHANGED odd
       \/ UNCHANGED leg /\ odd' = odd \cup {"refused"}
    /\ action' = IF action.on
                 THEN [action EXCEPT !.answered = TRUE, !.leg = k, !.decision = "accepted"]
                 ELSE action
    /\ stored' = TRUE
    /\ Steps(k, "done")
    /\ UNCHANGED <<fixed, ending, caller, ai, moh, capture, speaking, ended, mapped, digit, guard,
                   helper, flow, giving, cancel>>

-----------------------------------------------------------------------------
(* The AI's speech, and the caller's.                                       *)

Speaks ==
    /\ ai /\ stored /\ ~speaking
    /\ speaking' = TRUE /\ capture' = FALSE
    /\ UNCHANGED <<fixed, ending, caller, stored, ai, moh, action, channels, flow, h, giving, cancel, odd>>

\* The last token is released: the capture is on again.
SpeechEnds ==
    /\ speaking
    /\ speaking' = FALSE /\ capture' = TRUE
    /\ UNCHANGED <<fixed, ending, caller, stored, ai, moh, action, channels, flow, h, giving, cancel, odd>>

CallerHangsUp ==
    /\ caller = "up" /\ caller' = "hungup"
    /\ UNCHANGED <<fixed, ending, stored, ai, moh, capture, speaking, action, channels, flow, h,
                   giving, cancel, odd>>

-----------------------------------------------------------------------------
(* _cleanup_call, as far as transfers are concerned: it runs once per call, *)
(* and the others go on between its requests.                               *)

CallerEnded ==
    /\ caller = "hungup" /\ cleanup = "none" /\ cleanup' = "begun"
    /\ UNCHANGED <<fixed, shared, channels, flow, h, giving, cancel, odd, read>>

\* A mapped leg's end is the call's end.
LegEnded(k) ==
    /\ k \in ended /\ ended' = ended \ {k}
    /\ cleanup' = IF k \in mapped /\ stored /\ cleanup = "none" THEN "begun" ELSE cleanup
    /\ UNCHANGED <<fixed, shared, leg, mapped, digit, guard, helper, flow, h, giving, cancel, odd, read>>

\* The AI's stream is stopped, then the call's background tasks are cancelled: its guards
\* and, with screening, its requests.  A file may still be playing.
CleanupCancels ==
    /\ cleanup = "begun" /\ cleanup' = "cancelled"
    /\ speaking' \in {speaking, FALSE}
    /\ capture' = (capture \/ (speaking /\ ~speaking'))
    /\ guard' = {} /\ giving' = {}
    /\ flow' = [k \in Legs |-> IF screening /\ flow[k] # "none" THEN "done" ELSE flow[k]]
    /\ UNCHANGED <<fixed, caller, stored, ai, moh, action, leg, ended, mapped, digit, helper,
                   h, cancel, odd, read>>

\* The provider's session is stopped.
CleanupStops ==
    /\ cleanup = "cancelled" /\ cleanup' = "stopped" /\ ai' = FALSE
    /\ UNCHANGED <<fixed, caller, stored, moh, capture, speaking, action, channels, flow, h,
                   giving, cancel, odd, read>>

\* A tool that the provider or the pipeline was running dies with it, at any point, or goes on.
ToolsDie ==
    /\ cleanup \notin {"none", "begun", "cancelled"}
    /\ flow' = [k \in Legs |-> IF ~screening /\ flow[k] # "none" THEN "done" ELSE flow[k]]
    /\ cancel' = Idle
    /\ UNCHANGED <<fixed, ending, shared, channels, h, giving, odd>>

\* The bridge is destroyed, and the action's leg read; its helper media goes.
CleanupReads ==
    /\ cleanup = "stopped" /\ cleanup' = "read"
    /\ read' = action.leg /\ helper' = helper \ {action.leg}
    /\ UNCHANGED <<fixed, shared, leg, ended, mapped, digit, guard, flow, h, giving, cancel, odd>>

\* The agent's leg is left alone.
CleanupReleases_LegLeft ==
    /\ cleanup = "read" /\ cleanup' = "released"
    /\ UNCHANGED <<fixed, shared, channels, flow, h, giving, cancel, odd, read>>

\* The leg that was read is hung up, whatever the action is by then.
CleanupReleases ==
    /\ cleanup = "read" /\ cleanup' = "released"
    /\ LegHungUp(read)
    /\ UNCHANGED <<fixed, shared, mapped, digit, guard, helper, flow, h, giving, cancel, odd, read>>

CleanupFrees ==
    /\ cleanup = "released" /\ cleanup' = "freed"
    /\ caller' = "gone" /\ moh' = FALSE
    /\ UNCHANGED <<fixed, stored, ai, capture, speaking, action, channels, flow, h, giving,
                   cancel, odd, read>>

\* The handler of an agent who waits for a digit dies with the mapping.
Interrupted == [k \in Legs |-> IF h[k] = "wait" /\ k \in mapped THEN "done" ELSE h[k]]

\* After the tools and the history, the session and the mappings of the call go.
CleanupRemoves ==
    /\ cleanup = "freed" /\ cleanup' = "over"
    /\ stored' = FALSE
    /\ mapped' = {} /\ digit' = [k \in Legs |-> "none"]
    /\ h' = Interrupted
    /\ UNCHANGED <<fixed, caller, ai, moh, capture, speaking, action, leg, ended, guard, helper,
                   flow, giving, cancel, odd, read>>

-----------------------------------------------------------------------------

Flow(k) == Collected(k) \/ Holds(k) \/ Dials(k) \/ OriginateFails(k) \/ Registers(k)
Handler(k) ==
    \/ Answered(k) \/ HelperStarts(k) \/ Announced(k) \/ Decides(k)
    \/ Aborts(k) \/ Resumes(k) \/ Finalizes(k) \/ Bridges(k)
Agent(k) == AgentAnswers(k) \/ AgentEnds(k) \/ AgentPresses(k)
Cleanup ==
    \/ CleanupCancels \/ CleanupStops \/ CleanupReads
    \/ CleanupReleases \/ CleanupFrees \/ CleanupRemoves

Next ==
    \/ \E k \in Legs :
         Asked(k) \/ Flow(k) \/ GuardFires(k) \/ GuardClears(k) \/ Handler(k) \/ Agent(k) \/ LegEnded(k)
    \/ CancelReads \/ CancelClears
    \/ Speaks \/ SpeechEnds \/ CallerHangsUp \/ CallerEnded \/ Cleanup \/ ToolsDie

\* Requests are answered, timers expire, events are handled; nothing need end a tool.
Fairness ==
    /\ \A k \in Legs : WF_vars(Flow(k)) /\ WF_vars(GuardFires(k)) /\ WF_vars(GuardClears(k)) /\ WF_vars(Handler(k))
                       /\ WF_vars(LegEnded(k))
    /\ WF_vars(CancelClears) /\ WF_vars(CallerEnded) /\ WF_vars(Cleanup)

Spec == Init /\ [][Next]_vars /\ Fairness
-----------------------------------------------------------------------------
(* Properties.                                                              *)

Actions == [on : BOOLEAN, leg : 0 .. MaxLegs, answered : BOOLEAN,
            decision : {"none", "accepted", "declined"}, prior : {"unset", "on", "off"}]
FlowAt == {"none", "collect", "hold", "dial", "register", "done"}
LegAt  == {"none", "dialing", "up", "bridged", "gone"}
CleanupAt == {"none", "begun", "cancelled", "stopped", "read", "released", "freed", "over"}
HandlerAt == {"none", "answered", "helper", "announce", "wait",
              "failed", "declined", "resume", "finalize", "bridge", "done"}

TypeOK ==
    /\ screening \in BOOLEAN /\ streaming \in BOOLEAN
    /\ caller \in {"up", "hungup", "gone"} /\ stored \in BOOLEAN /\ ai \in BOOLEAN
    /\ moh \in BOOLEAN /\ capture \in BOOLEAN /\ speaking \in BOOLEAN
    /\ action \in Actions /\ flow \in [Legs -> FlowAt] /\ leg \in [Legs -> LegAt]
    /\ ended \subseteq Legs /\ mapped \subseteq Legs /\ guard \subseteq Legs /\ giving \subseteq Legs /\ helper \subseteq Legs
    /\ digit \in [Legs -> {"none", "accept", "other"}]
    /\ h \in [Legs -> HandlerAt]
    /\ cancel \in 0 .. 1 /\ odd \subseteq {"double", "crossed", "deaf", "late", "refused"}
    /\ cleanup \in CleanupAt /\ read \in 0 .. MaxLegs

\* No request was made while another was going on, and no agent answered, was
\* dialled or was refused while a cancellation or the guard was half done.
Orderly == odd \cap {"double", "crossed"} = {}

\* A caller who is not being transferred is not left on hold or unheard,
\* however the transfer ended: declined, timed out, cancelled or failed.
\* Excepted: requests that overlap, a cancellation the request does not notice, a hold
\* that began while the agent spoke, and a request made after the cleanup has cancelled
\* the call's tasks.
CallerResumed ==
    Orderly /\ odd \cap {"deaf", "late"} = {} /\ caller = "up" /\ stored /\ ai /\ ~action.on
        => ~moh /\ (capture \/ speaking)

\* When the cleanup is over no helper media is left behind, and an agent who is
\* still on the line is one whose answer has not been handled yet.  Excepted: an
\* agent accepted, or helper media started, after the cleanup has read the action, and
\* a request made after it has cancelled the call's tasks.
AgentReleased ==
    Orderly /\ "late" \notin odd /\ cleanup = "over" =>
        helper = {} /\ \A k \in Legs : leg[k] \in {"up", "bridged"} => h[k] = "answered"

\* An agent who was given up never takes the caller down: the end of a leg that
\* is not the transfer's (any more), or that its guard gives up, is not the call's
\* end (engine.py:3837, "unregister mapping before hanging up the agent leg").
GivenUpHarmless ==
    [][ \A k \in Legs : k \in ended /\ (action.leg # k \/ k \in giving) /\ Orderly
            => (ended' = ended \ {k} => cleanup' = cleanup) ]_vars

\* A transfer is always decided: accepted and joined, given up or cancelled, or the
\* call ends.  Excepted: the agent accepted but could not join (AcceptedIsBridged).
TransferDecided ==
    action.on ~> (~action.on \/ cleanup = "over" \/ (\E k \in Legs : leg[k] = "bridged")
                  \/ "refused" \in odd)

\* When the handler of an accepted transfer has ended, and the caller and the agent
\* are still there, the agent has joined the caller (docs/TOOL_CALLING_GUIDE.md:175,
\* "On accept: AI audio is removed and the engine bridges caller <-> destination
\* directly").  TLC refutes it: a refused addChannel is taken for a success.
AcceptedIsBridged ==
    \A k \in Legs :
        action.on /\ action.leg = k /\ action.decision = "accepted" /\ h[k] = "done"
            /\ cleanup = "none" /\ caller = "up" => leg[k] # "up"

\* When the call is over and its request and handler have ended, no agent is on the line
\* (engine.py:5493, "if either side hangs up, we can clean up the other leg").
\* TLC refutes it: an agent who answers after the cleanup has read the action is accepted,
\* and forgotten with the session.
OtherLegCleanedUp ==
    cleanup = "over" => \A k \in Legs : h[k] = "done" /\ flow[k] = "done" => leg[k] # "up"

\* A transfer that is not answered in time gives the caller back to the AI
\* (docs/TOOL_CALLING_GUIDE.md:176, "On decline/timeout: MOH stops and the AI
\* resumes with the caller").  Violated: Asterisk's own dial timeout comes before
\* the guard's, and the end of the mapped leg ends the call.
TimeoutResumesCaller ==
    [][ caller = "up" /\ caller' = "gone" => \E k \in Legs : h[k] # "none" ]_vars
=============================================================================
