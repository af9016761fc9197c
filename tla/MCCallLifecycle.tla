-------------------------- MODULE MCCallLifecycle --------------------------
(***************************************************************************)
(* How calls begin and end, for TLC: one call of the engine, and the       *)
(* campaign that places calls, with one lead and one attempt.  A behaviour *)
(* picks one; the other stays as it began.                                 *)
(***************************************************************************)
EXTENDS CallLifecycle

CONSTANTS Campaigns, Leads, Attempts, Operations, Faults, NoCampaign, NoLead, NoAttempt

VARIABLES
    pick, scenario, status, lead, attempt, sched, meta, channels, awaiting, handler, destroyer, session,
    outbound_chan, outbound_inbox, restarts

OD == INSTANCE OutboundDialer WITH
    CampaignOf <- [l \in Leads |-> CHOOSE c \in Campaigns : TRUE],
    Scenarios <- {[max_concurrent |-> [c \in Campaigns |-> 1], operations |-> Operations,
                   faults |-> Faults, rows |-> 1, restarts |-> 0]},
    chan <- outbound_chan, inbox <- outbound_inbox

campaign == <<scenario, status, lead, attempt, sched, meta, channels, awaiting, handler, destroyer, session,
              outbound_chan, outbound_inbox, restarts>>

MCInit ==
    /\ pick \in {"call", "campaign"} /\ Init /\ OD!Init
    /\ pick = "campaign" => transport = "externalmedia"
    /\ pick = "call" => (\A c \in Campaigns : status[c] = "paused") /\ (\A l \in Leads : lead[l] = "absent")

MCNext ==
    /\ UNCHANGED pick
    /\ \/ pick = "call" /\ Next /\ UNCHANGED campaign
       \/ pick = "campaign" /\ OD!Next /\ UNCHANGED vars

\* The fairness of each, for the behaviours that picked it.
CallFair ==
    /\ WF_vars(pick = "call" /\ Setup) /\ WF_vars(pick = "call" /\ Cleanup)
    /\ \A e \in CallerEvents : WF_vars(pick = "call" /\ CallerEnded(e))

CampaignFair ==
    /\ WF_campaign(pick = "campaign" /\ OD!SchedTurn)
    /\ SF_campaign(pick = "campaign" /\ OD!SchedProbe /\ sched'.pc = "stale")
    /\ \A a \in Attempts :
         /\ SF_campaign(/\ pick = "campaign"
                        /\ \E S \in SUBSET Attempts : a \in S /\ OD!SchedWatch(S))
         /\ WF_campaign(pick = "campaign" /\ OD!HandlerStep(a))
         /\ WF_campaign(/\ pick = "campaign" /\ outbound_chan[a] \in {"ringing", "dialplan"}
                        /\ OD!CalleeAnswers(a) \/ OD!DialplanReturns(a) \/ OD!CalleeGone(a))

MCSpec == MCInit /\ [][MCNext]_<<pick, vars, campaign>> /\ CallFair /\ CampaignFair

SlotFreed == OD!SlotFreed
DialingEnds == OD!DialingEnds
=============================================================================
