--------------------------- MODULE OutboundDialer ---------------------------
(***************************************************************************)
(* The outbound campaign dialer: OutboundStore                             *)
(* (src/core/outbound_store.py) and the scheduler, watchdog and handlers   *)
(* of the engine that share it with the Admin UI.                          *)
(*                                                                         *)
(* The store is SQLite and survives a restart of the engine; everything    *)
(* the engine remembers does not.  A store call is one transaction in a    *)
(* worker thread, so a coroutine is suspended at each of them and at each  *)
(* ARI request: an action is a coroutine's code from one suspension to the *)
(* next, with the store call or request that ends it.  The Admin UI is     *)
(* another process on the same database.                                   *)
(*                                                                         *)
(* Time is abstracted: a lease may have expired, and an attempt may be as  *)
(* old as the watchdog's limit, whenever the code's own timeouts do not    *)
(* exclude it.  Calling windows and the pause between calls only delay.    *)
(***************************************************************************)
EXTENDS Integers, FiniteSets, Sequences

CONSTANTS Campaigns, Leads,
          Attempts,        \* attempt identifiers, each generated once (bound)
          CampaignOf,      \* the campaign of each lead
          Scenarios,       \* drawn in Init: max_concurrent of each campaign, what the Admin
                           \* UI's users do, what goes wrong, and as bounds the rows of the
                           \* table of leads at first and the restarts of the engine
          NoCampaign, NoLead, NoAttempt

OperationKinds == {"status", "cancel", "ignore", "recycle", "import", "delete"}

(* ari: a request is not answered; events: the event socket loses events;   *)
(* history: call history is off or its record is not saved.                 *)
FaultKinds == {"ari", "events", "history"}

ASSUME CampaignOfType == CampaignOf \in [Leads -> Campaigns]
ASSUME ScenariosType ==
  \A s \in Scenarios :
    /\ s.max_concurrent \in [Campaigns -> 1 .. 5]
    /\ s.operations \subseteq OperationKinds
    /\ s.faults \subseteq FaultKinds
    /\ s.rows \in Nat /\ s.restarts \in Nat
ASSUME NoValues == NoCampaign \notin Campaigns /\ NoLead \notin Leads /\ NoAttempt \notin Attempts

VARIABLES
  scenario,    \* chosen once
  status,      \* outbound_campaigns.status
  lead,        \* outbound_leads.state; "absent" without a row
  attempt,     \* outbound_attempts: its lead, and whether ended_at_utc is null
  sched,       \* where _outbound_scheduler_loop stands, and on what
  meta,        \* _outbound_attempt_meta_by_attempt_id: has it a channel_id yet?
  channels,    \* _outbound_attempt_meta_by_channel_id
  awaiting,    \* _outbound_awaiting_amd_channel_ids
  handler,     \* handler[a]: where the StasisStart handler of a's channel stands
  destroyer,   \* attempts whose ChannelDestroyed handler is between its store calls
  session,     \* session[a]: the outbound CallSession and its cleanup
  chan,        \* chan[a]: the channel in Asterisk
  inbox,       \* inbox[a]: events of the channel on their way to the engine, in order
  restarts

store == <<status, lead, attempt>>
tracking == <<meta, channels, awaiting>>
tasks == <<handler, destroyer, session>>
asterisk == <<chan, inbox>>
bounds == <<scenario, restarts>>
vars == <<store, sched, tracking, tasks, asterisk, bounds>>

ActiveStates == {"pending", "leased", "dialing", "amd_pending", "in_progress"}
CalledStates == {"dialing", "amd_pending", "in_progress"}
LeadStates == {"absent"} \cup ActiveStates \cup {"completed", "failed", "canceled"}
Resting == [pc |-> "idle", campaign |-> NoCampaign, quiet |-> FALSE, lead |-> NoLead,
            attempt |-> NoAttempt, channel |-> FALSE, metas |-> {}]
Unused == [lead |-> NoLead, open |-> FALSE]
NoHandler == [pc |-> "none", known |-> FALSE]

AttemptRow == [lead : Leads \cup {NoLead}, open : BOOLEAN]
Turn == [pc : {"idle", "listed", "counted", "leased", "created", "marked", "unmarked", "originating",
               "refused", "stats", "completing", "watch", "probe", "stale", "stale_lead"},
         campaign : Campaigns \cup {NoCampaign}, quiet : BOOLEAN, lead : Leads \cup {NoLead},
         attempt : Attempts \cup {NoAttempt}, channel : BOOLEAN,
         metas : SUBSET [attempt : Attempts, channel : BOOLEAN]]
HandlerAt == [pc : {"none", "answered", "continuing", "refused", "refused_lead", "voicemail",
                    "voicemail_lead", "declined", "declined_lead", "human", "attaching"},
              known : BOOLEAN]
ChannelEvents == {"answered", "amd", "end", "destroyed"}

TypeOK ==
  /\ scenario \in Scenarios
  /\ status \in [Campaigns -> {"running", "paused", "stopped", "completed"}]
  /\ lead \in [Leads -> LeadStates]
  /\ attempt \in [Attempts -> AttemptRow]
  /\ sched \in Turn
  /\ meta \in [Attempts -> {"none", "created", "known", "ghost"}]
  /\ channels \subseteq Attempts
  /\ awaiting \subseteq Attempts
  /\ handler \in [Attempts -> HandlerAt]
  /\ destroyer \subseteq Attempts
  /\ session \in [Attempts -> {"none", "live", "cleaning", "saved", "removing"}]
  /\ chan \in [Attempts -> {"none", "ringing", "stasis", "dialplan", "gone"}]
  /\ inbox \in [Attempts -> Seq(ChannelEvents)]
  /\ restarts \in 0 .. scenario.restarts

-----------------------------------------------------------------------------
(* OutboundStore.                                                          *)

AttemptCampaign(a) == IF attempt[a].lead = NoLead THEN NoCampaign ELSE CampaignOf[attempt[a].lead]

LeadsOf(c) == {l \in Leads : CampaignOf[l] = c}

(* The states the campaign's leads are in. *)
campaign_stats(c) == {lead[l] : l \in LeadsOf(c)} \ {"absent"}

(* set_lead_state overwrites whatever state the row is in, if there is one. *)
set_lead_state(l, s) == lead' = [lead EXCEPT ![l] = IF @ = "absent" THEN @ ELSE s]

(* mark_lead_dialing succeeds on a leased lead only. *)
Leased(l) == lead[l] = "leased"
mark_lead_dialing(l) == lead' = [lead EXCEPT ![l] = IF Leased(l) THEN "dialing" ELSE @]

create_attempt(a, l) == attempt' = [attempt EXCEPT ![a] = [lead |-> l, open |-> TRUE]]

(* finish_attempt sets ended_at_utc, set before or not. *)
finish_attempt(a) == attempt' = [attempt EXCEPT ![a].open = FALSE]

(* Fault: a lease is taken to have expired although the call was placed. *)
Leasable_Dialing(c) == {l \in LeadsOf(c) : lead[l] \in {"pending", "leased", "dialing"}}

(* lease_pending_leads takes a pending lead, or one whose lease expired.    *)
Leasable(c) == {l \in LeadsOf(c) : lead[l] \in {"pending", "leased"}}

(* cleanup_stale_attempts_and_leads, on the open attempts S that are older  *)
(* than stale_seconds.                                                      *)
cleanup_stale_attempts_and_leads(S) ==
  /\ attempt' = [a \in Attempts |-> IF a \in S THEN [attempt[a] EXCEPT !.open = FALSE] ELSE attempt[a]]
  /\ lead' = [l \in Leads |-> IF lead[l] \in CalledStates \cup {"leased"} /\ \E a \in S : attempt[a].lead = l
                              THEN "failed" ELSE lead[l]]

-----------------------------------------------------------------------------
(* The Admin UI.                                                           *)

(* The page starts a campaign only with pending leads. *)
Startable(c) == "pending" \in campaign_stats(c)

(* Stopping may cancel the pending leads. *)
SetStatus(c, s) ==
  /\ "status" \in scenario.operations
  /\ s # status[c]
  /\ s = "running" => Startable(c)
  /\ status' = [status EXCEPT ![c] = s]
  /\ \/ UNCHANGED lead
     \/ /\ s = "stopped"
        /\ lead' = [l \in Leads |-> IF CampaignOf[l] = c /\ lead[l] = "pending" THEN "canceled" ELSE lead[l]]
  /\ UNCHANGED <<attempt, sched, tracking, tasks, asterisk, bounds>>

cancel_lead(l) ==
  /\ "cancel" \in scenario.operations
  /\ lead[l] \in {"pending", "leased", "dialing", "amd_pending"}
  /\ lead' = [lead EXCEPT ![l] = "canceled"]
  /\ UNCHANGED <<status, attempt, sched, tracking, tasks, asterisk, bounds>>

ignore_lead(l) ==
  /\ "ignore" \in scenario.operations
  /\ lead[l] \notin {"absent", "in_progress", "amd_pending"}
  /\ lead' = [lead EXCEPT ![l] = "canceled"]
  /\ UNCHANGED <<status, attempt, sched, tracking, tasks, asterisk, bounds>>

(* Redial keeps the attempts, reset deletes their rows; no state is refused. *)
recycle_lead(l, mode) ==
  /\ "recycle" \in scenario.operations
  /\ lead[l] # "absent"
  /\ lead' = [lead EXCEPT ![l] = "pending"]
  /\ attempt' = [a \in Attempts |-> IF mode = "reset" /\ attempt[a].lead = l
                                    THEN [attempt[a] EXCEPT !.open = FALSE] ELSE attempt[a]]
  /\ UNCHANGED <<status, sched, tracking, tasks, asterisk, bounds>>

(* A deleted lead never comes back: an import makes a new row. *)
import_leads_csv(l) ==
  /\ "import" \in scenario.operations
  /\ lead[l] = "absent"
  /\ \A a \in Attempts : attempt[a].lead # l
  /\ lead' = [lead EXCEPT ![l] = "pending"]
  /\ UNCHANGED <<status, attempt, sched, tracking, tasks, asterisk, bounds>>

delete_lead(l) ==
  /\ "delete" \in scenario.operations
  /\ lead[l] # "absent"
  /\ status[CampaignOf[l]] # "running"
  /\ lead' = [lead EXCEPT ![l] = "absent"]
  /\ attempt' = [a \in Attempts |-> IF attempt[a].lead = l THEN [attempt[a] EXCEPT !.open = FALSE] ELSE attempt[a]]
  /\ UNCHANGED <<status, sched, tracking, tasks, asterisk, bounds>>

-----------------------------------------------------------------------------
(* _outbound_scheduler_loop: one task, which first runs the watchdog and    *)
(* then takes each running campaign in turn.                               *)

Inflight(c) == {a \in Attempts : meta[a] \in {"created", "known"} /\ AttemptCampaign(a) = c}
Active(c) == {a \in Attempts : session[a] # "none" /\ AttemptCampaign(a) = c}

(* Fault: calls that have no session yet are not counted. *)
Capacity_Sessions(c) == scenario.max_concurrent[c] - Cardinality(Active(c))

(* A call that is being talked on is counted twice. *)
Capacity(c) == scenario.max_concurrent[c] - Cardinality(Inflight(c)) - Cardinality(Active(c))

SchedList(c) ==
  /\ sched = Resting
  /\ status[c] = "running"
  /\ sched' = [Resting EXCEPT !.pc = "listed", !.campaign = c]
  /\ UNCHANGED <<store, tracking, tasks, asterisk, bounds>>

(* Also when the instance has no attempt left (bound). *)
SchedFull ==
  /\ \/ sched.pc = "listed" /\ Capacity(sched.campaign) <= 0
     \/ sched.pc = "counted" /\ \A a \in Attempts : attempt[a].lead # NoLead
  /\ sched' = Resting
  /\ UNCHANGED <<store, tracking, tasks, asterisk, bounds>>

(* Fault: the calls under way are not looked at. *)
SchedCount_Eager ==
  /\ sched.pc = "listed"
  /\ Capacity(sched.campaign) > 0
  /\ sched' = [sched EXCEPT !.pc = "counted", !.quiet = TRUE]
  /\ UNCHANGED <<store, tracking, tasks, asterisk, bounds>>

(* There is room, and the scheduler remembers whether any call is under way. *)
SchedCount ==
  /\ sched.pc = "listed"
  /\ Capacity(sched.campaign) > 0
  /\ sched' = [sched EXCEPT !.pc = "counted",
                           !.quiet = Inflight(sched.campaign) = {} /\ Active(sched.campaign) = {}]
  /\ UNCHANGED <<store, tracking, tasks, asterisk, bounds>>

(* The campaign may have been paused since it was listed. *)
SchedLease(l) ==
  /\ sched.pc = "counted"
  /\ l \in Leasable(sched.campaign)
  /\ \E a \in Attempts : attempt[a].lead = NoLead
  /\ lead' = [lead EXCEPT ![l] = "leased"]
  /\ sched' = [sched EXCEPT !.pc = "leased", !.quiet = FALSE, !.lead = l]
  /\ UNCHANGED <<status, attempt, tracking, tasks, asterisk, bounds>>

(* Nothing to lease, except leases that have not expired yet. *)
SchedNoLead ==
  /\ sched.pc = "counted"
  /\ \A l \in Leasable(sched.campaign) : lead[l] = "leased"
  /\ sched' = IF sched.quiet THEN [sched EXCEPT !.pc = "stats", !.quiet = FALSE] ELSE Resting
  /\ UNCHANGED <<store, tracking, tasks, asterisk, bounds>>

(* _outbound_maybe_mark_campaign_completed: campaign_stats ... *)
SchedStats ==
  /\ sched.pc = "stats"
  /\ LET states == campaign_stats(sched.campaign)
     IN  sched' = IF states # {} /\ states \cap ActiveStates = {}
                  THEN [sched EXCEPT !.pc = "completing"] ELSE Resting
  /\ UNCHANGED <<store, tracking, tasks, asterisk, bounds>>

(* ... and set_campaign_status. *)
SchedComplete ==
  /\ sched.pc = "completing"
  /\ status' = [status EXCEPT ![sched.campaign] = "completed"]
  /\ sched' = Resting
  /\ UNCHANGED <<lead, attempt, tracking, tasks, asterisk, bounds>>

SchedCreate(a) ==
  /\ sched.pc = "leased"
  /\ attempt[a].lead = NoLead
  /\ create_attempt(a, sched.lead)
  /\ sched' = [sched EXCEPT !.pc = "created", !.attempt = a]
  /\ UNCHANGED <<status, lead, tracking, tasks, asterisk, bounds>>

SchedMark ==
  /\ sched.pc = "created"
  /\ meta' = [meta EXCEPT ![sched.attempt] = "created"]
  /\ mark_lead_dialing(sched.lead)
  /\ sched' = [sched EXCEPT !.pc = IF Leased(sched.lead) THEN "marked" ELSE "unmarked"]
  /\ UNCHANGED <<status, attempt, channels, awaiting, tasks, asterisk, bounds>>

(* Fault: the attempt is dropped but not closed. *)
SchedUnmarked_Open ==
  /\ sched.pc = "unmarked"
  /\ meta' = [meta EXCEPT ![sched.attempt] = "none"]
  /\ sched' = Resting
  /\ UNCHANGED <<store, channels, awaiting, tasks, asterisk, bounds>>

SchedUnmarked ==
  /\ sched.pc = "unmarked"
  /\ finish_attempt(sched.attempt)
  /\ meta' = [meta EXCEPT ![sched.attempt] = "none"]
  /\ sched' = Resting
  /\ UNCHANGED <<status, lead, channels, awaiting, tasks, asterisk, bounds>>

(* The originate request: Asterisk creates a channel or refuses. *)
SchedOriginate ==
  /\ sched.pc = "marked"
  /\ \/ chan' = [chan EXCEPT ![sched.attempt] = "ringing"]
     \/ UNCHANGED chan
  /\ sched' = [sched EXCEPT !.pc = "originating"]
  /\ UNCHANGED <<store, tracking, tasks, inbox, bounds>>

(* The response: the channel is recorded, under metadata that a handler may *)
(* have replaced or dropped meanwhile.                                      *)
SchedOriginated ==
  /\ sched.pc = "originating"
  /\ chan[sched.attempt] # "none"
  /\ meta' = [meta EXCEPT ![sched.attempt] = IF @ \in {"none", "ghost"} THEN "ghost" ELSE "known"]
  /\ channels' = channels \cup {sched.attempt}
  /\ sched' = Resting
  /\ UNCHANGED <<store, awaiting, tasks, asterisk, bounds>>

(* The request failed, or seems to have. *)
SchedRefused ==
  /\ sched.pc = "originating"
  /\ chan[sched.attempt] = "none" \/ "ari" \in scenario.faults
  /\ finish_attempt(sched.attempt)
  /\ sched' = [sched EXCEPT !.pc = "refused"]
  /\ UNCHANGED <<status, lead, tracking, tasks, asterisk, bounds>>

SchedRefusedLead ==
  /\ sched.pc = "refused"
  /\ set_lead_state(sched.lead, "failed")
  /\ meta' = [meta EXCEPT ![sched.attempt] = "none"]
  /\ sched' = Resting
  /\ UNCHANGED <<status, attempt, channels, awaiting, tasks, asterisk, bounds>>

(* The request times out: the exception ends the turn. *)
SchedRaises ==
  /\ "ari" \in scenario.faults
  /\ sched.pc = "originating"
  /\ sched' = Resting
  /\ UNCHANGED <<store, tracking, tasks, asterisk, bounds>>

-----------------------------------------------------------------------------
(* _outbound_cleanup_stale_attempts, the watchdog.                         *)

(* Fault: only attempts whose channel is known are looked at. *)
Stale_Known(a) ==
  /\ meta[a] = "known"
  /\ chan[a] # "ringing"
  /\ \A i \in DOMAIN inbox[a] : inbox[a][i] # "answered"
  /\ handler[a].pc \notin {"answered", "continuing"}

(* Older than the limit (90 s) an attempt is no longer ringing: Asterisk    *)
(* gives up after 60 s, and the answer is handled within seconds.           *)
Stale(a) ==
  /\ meta[a] \in {"created", "known"}
  /\ chan[a] # "ringing"
  /\ \A i \in DOMAIN inbox[a] : inbox[a][i] # "answered"
  /\ handler[a].pc \notin {"answered", "continuing"}

(* Hanging up ends the channel, and Asterisk tells the engine. *)
HangUp(a) ==
  /\ chan' = [chan EXCEPT ![a] = "gone"]
  /\ inbox' = [inbox EXCEPT ![a] = CASE chan[a] = "stasis" -> @ \o <<"end", "destroyed">>
                                    [] chan[a] = "dialplan" -> Append(@, "destroyed")
                                    [] OTHER -> @]

(* A turn of the watchdog copies the metadata, and works on the copy while  *)
(* handlers replace or drop the entries.                                    *)
SchedWatch(S) ==
  /\ sched = Resting
  /\ S # {}
  /\ \A a \in S : Stale(a)
  /\ sched' = [Resting EXCEPT !.pc = "watch",
                             !.metas = {[attempt |-> a, channel |-> meta[a] = "known"] : a \in S}]
  /\ UNCHANGED <<store, tracking, tasks, asterisk, bounds>>

NextMeta == IF sched.metas = {} THEN Resting ELSE [Resting EXCEPT !.pc = "watch", !.metas = sched.metas]

(* An attempt in the AMD hop or with a session is left alone. *)
Spared(m) == m.channel /\ (m.attempt \in awaiting \/ session[m.attempt] # "none")

SchedMeta(m) ==
  /\ sched.pc = "watch"
  /\ m \in sched.metas
  /\ sched' = IF Spared(m)
              THEN IF sched.metas = {m} THEN Resting ELSE [sched EXCEPT !.metas = @ \ {m}]
              ELSE [sched EXCEPT !.pc = IF m.channel THEN "probe" ELSE "stale", !.attempt = m.attempt,
                                 !.lead = attempt[m.attempt].lead, !.channel = m.channel, !.metas = @ \ {m}]
  /\ UNCHANGED <<store, tracking, tasks, asterisk, bounds>>

(* The channel is probed, and hung up if it exists. *)
SchedProbe ==
  LET a == sched.attempt
  IN  /\ sched.pc = "probe"
      /\ \/ /\ sched' = [sched EXCEPT !.pc = "stale"]
            /\ IF chan[a] = "gone" THEN UNCHANGED asterisk ELSE HangUp(a)
         \/ /\ "ari" \in scenario.faults
            /\ sched' \in {NextMeta, [sched EXCEPT !.pc = "stale"]}
            /\ UNCHANGED asterisk
      /\ UNCHANGED <<store, tracking, tasks, bounds>>

SchedStale ==
  /\ sched.pc = "stale"
  /\ finish_attempt(sched.attempt)
  /\ sched' = [sched EXCEPT !.pc = "stale_lead"]
  /\ UNCHANGED <<status, lead, tracking, tasks, asterisk, bounds>>

SchedStaleLead ==
  /\ sched.pc = "stale_lead"
  /\ set_lead_state(sched.lead, "failed")
  /\ meta' = [meta EXCEPT ![sched.attempt] = "none"]
  /\ channels' = IF sched.channel THEN channels \ {sched.attempt} ELSE channels
  /\ sched' = NextMeta
  /\ UNCHANGED <<status, attempt, awaiting, tasks, asterisk, bounds>>

-----------------------------------------------------------------------------
(* _handle_outbound_answered: the callee answered.                         *)

(* The attempt's metadata, as a handler that looks it up finds it. *)
MetaOf(a) == meta[a] \in {"created", "known"}

(* Events of a channel are handled in the order they were sent. *)
Receive(a, event) ==
  /\ inbox[a] # <<>>
  /\ Head(inbox[a]) = event
  /\ inbox' = [inbox EXCEPT ![a] = Tail(@)]

HandleAnswered(a) ==
  /\ Receive(a, "answered")
  /\ handler' = [handler EXCEPT ![a] = [pc |-> IF MetaOf(a) THEN "answered" ELSE "continuing", known |-> MetaOf(a)]]
  /\ IF MetaOf(a)
     THEN meta' = [meta EXCEPT ![a] = "known"] /\ channels' = channels \cup {a}
     ELSE UNCHANGED <<meta, channels>>
  /\ UNCHANGED <<store, sched, awaiting, destroyer, session, chan, bounds>>

AnsweredLead(a) ==
  /\ handler[a].pc = "answered"
  /\ set_lead_state(attempt[a].lead, "amd_pending")
  /\ handler' = [handler EXCEPT ![a].pc = "continuing"]
  /\ UNCHANGED <<status, attempt, sched, tracking, destroyer, session, asterisk, bounds>>

(* The channel goes on in the dialplan, for answering machine detection. *)
AnsweredContinue(a) ==
  /\ handler[a].pc = "continuing"
  /\ IF chan[a] = "stasis"
     THEN /\ awaiting' = awaiting \cup {a}
          /\ chan' = [chan EXCEPT ![a] = "dialplan"]
          /\ inbox' = [inbox EXCEPT ![a] = Append(@, "end")]
          /\ handler' = [handler EXCEPT ![a] = NoHandler]
     ELSE /\ awaiting' = awaiting \ {a}
          /\ handler' = [handler EXCEPT ![a] = IF @.known THEN [@ EXCEPT !.pc = "refused"] ELSE NoHandler]
          /\ UNCHANGED asterisk
  /\ UNCHANGED <<store, sched, meta, channels, destroyer, session, bounds>>

ContinueRefused(a) ==
  /\ handler[a].pc = "refused"
  /\ finish_attempt(a)
  /\ handler' = [handler EXCEPT ![a].pc = "refused_lead"]
  /\ UNCHANGED <<status, lead, sched, tracking, destroyer, session, asterisk, bounds>>

(* The metadata stays: the watchdog will drop it. *)
ContinueRefusedLead(a) ==
  /\ handler[a].pc = "refused_lead"
  /\ set_lead_state(attempt[a].lead, "failed")
  /\ handler' = [handler EXCEPT ![a] = NoHandler]
  /\ UNCHANGED <<status, attempt, sched, tracking, destroyer, session, asterisk, bounds>>

-----------------------------------------------------------------------------
(* _handle_outbound_amd_result: the dialplan returns the channel, with a    *)
(* machine, a human who declined or was silent, or a human.                *)

(* Fault: the channel still counts as being in the AMD hop. *)
HandleAmd_Awaiting(a, result) ==
  /\ Receive(a, "amd")
  /\ handler[a].pc = "none"
  /\ handler' = [handler EXCEPT ![a] = [pc |-> result, known |-> MetaOf(a) \/ (a \in channels /\ meta[a] = "none")]]
  /\ UNCHANGED <<store, sched, tracking, destroyer, session, chan, bounds>>

HandleAmd(a, result) ==
  /\ Receive(a, "amd")
  /\ handler[a].pc = "none"
  /\ awaiting' = awaiting \ {a}
  /\ handler' = [handler EXCEPT ![a] = [pc |-> result, known |-> MetaOf(a) \/ (a \in channels /\ meta[a] = "none")]]
  /\ UNCHANGED <<store, sched, meta, channels, destroyer, session, chan, bounds>>

(* The voicemail was played, or the refusal noted: the attempt is over. *)
AmdFinish(a) ==
  /\ handler[a].pc \in {"voicemail", "declined"}
  /\ finish_attempt(a)
  /\ handler' = [handler EXCEPT ![a].pc = IF @ = "voicemail" THEN "voicemail_lead" ELSE "declined_lead"]
  /\ UNCHANGED <<status, lead, sched, tracking, destroyer, session, asterisk, bounds>>

(* Fault: the outcome is written where the state belongs. *)
AmdFinishLead_Outcome(a) ==
  /\ handler[a].pc \in {"voicemail_lead", "declined_lead"}
  /\ IF handler[a].known
     THEN set_lead_state(attempt[a].lead, IF handler[a].pc = "voicemail_lead" THEN "voicemail_dropped" ELSE "consent_denied")
     ELSE UNCHANGED lead
  /\ meta' = [meta EXCEPT ![a] = "none"]
  /\ channels' = channels \ {a}
  /\ HangUp(a)
  /\ handler' = [handler EXCEPT ![a] = NoHandler]
  /\ UNCHANGED <<status, attempt, sched, awaiting, destroyer, session, bounds>>

AmdFinishLead(a) ==
  /\ handler[a].pc \in {"voicemail_lead", "declined_lead"}
  /\ IF handler[a].known
     THEN set_lead_state(attempt[a].lead, IF handler[a].pc = "voicemail_lead" THEN "completed" ELSE "canceled")
     ELSE UNCHANGED lead
  /\ meta' = [meta EXCEPT ![a] = "none"]
  /\ channels' = channels \ {a}
  /\ HangUp(a)
  /\ handler' = [handler EXCEPT ![a] = NoHandler]
  /\ UNCHANGED <<status, attempt, sched, awaiting, destroyer, session, bounds>>

AmdHuman(a) ==
  /\ handler[a].pc = "human"
  /\ IF handler[a].known THEN set_lead_state(attempt[a].lead, "in_progress") ELSE UNCHANGED lead
  /\ handler' = [handler EXCEPT ![a].pc = "attaching"]
  /\ UNCHANGED <<status, attempt, sched, tracking, destroyer, session, asterisk, bounds>>

(* The call is bridged and its session stored, unless the callee has gone.  *)
Attach(a) ==
  /\ handler[a].pc = "attaching"
  /\ session' = IF chan[a] = "stasis" THEN [session EXCEPT ![a] = "live"] ELSE session
  /\ handler' = [handler EXCEPT ![a] = NoHandler]
  /\ UNCHANGED <<store, sched, tracking, destroyer, asterisk, bounds>>

-----------------------------------------------------------------------------
(* The end of a channel, and _cleanup_call of its session.                 *)

(* What an event starts: _cleanup_call hangs up and goes on.                *)
BeginCleanup(a) ==
  /\ session' = [session EXCEPT ![a] = "cleaning"]
  /\ chan' = [chan EXCEPT ![a] = "gone"]

(* StasisEnd, which the AMD hop makes too. *)
HandleEnd(a) ==
  /\ Receive(a, "end")
  /\ IF a \notin awaiting /\ session[a] = "live" THEN BeginCleanup(a) ELSE UNCHANGED <<session, chan>>
  /\ UNCHANGED <<store, sched, tracking, handler, destroyer, bounds>>

(* ChannelDestroyed: an attempt without a session is finished here. *)
HandleDestroyed(a) ==
  /\ Receive(a, "destroyed")
  /\ IF a \in channels /\ session[a] = "none" /\ meta[a] # "ghost"
     THEN finish_attempt(a) /\ destroyer' = destroyer \cup {a}
     ELSE UNCHANGED <<attempt, destroyer>>
  /\ channels' = IF session[a] = "none" /\ meta[a] = "ghost" THEN channels \ {a} ELSE channels
  /\ IF session[a] = "live" THEN BeginCleanup(a) ELSE UNCHANGED <<session, chan>>
  /\ UNCHANGED <<status, lead, sched, meta, awaiting, handler, bounds>>

DestroyedLead(a) ==
  /\ a \in destroyer
  /\ set_lead_state(attempt[a].lead, "failed")
  /\ destroyer' = destroyer \ {a}
  /\ meta' = [meta EXCEPT ![a] = "none"]
  /\ channels' = channels \ {a}
  /\ IF session[a] = "live" THEN BeginCleanup(a) ELSE UNCHANGED <<session, chan>>
  /\ UNCHANGED <<status, attempt, sched, awaiting, handler, inbox, bounds>>

(* _persist_call_history finishes the attempt once its record is saved ... *)
PersistAttempt(a) ==
  /\ session[a] = "cleaning"
  /\ \/ finish_attempt(a) /\ session' = [session EXCEPT ![a] = "saved"]
     \/ "history" \in scenario.faults /\ session' = [session EXCEPT ![a] = "removing"] /\ UNCHANGED attempt
  /\ UNCHANGED <<status, lead, sched, tracking, handler, destroyer, asterisk, bounds>>

(* ... and settles the lead. *)
PersistLead(a, s) ==
  /\ session[a] = "saved"
  /\ set_lead_state(attempt[a].lead, s)
  /\ session' = [session EXCEPT ![a] = "removing"]
  /\ meta' = [meta EXCEPT ![a] = "none"]
  /\ channels' = channels \ {a}
  /\ UNCHANGED <<status, attempt, sched, awaiting, handler, destroyer, asterisk, bounds>>

RemoveSession(a) ==
  /\ session[a] = "removing"
  /\ session' = [session EXCEPT ![a] = "none"]
  /\ UNCHANGED <<store, sched, tracking, handler, destroyer, asterisk, bounds>>

-----------------------------------------------------------------------------
(* Asterisk, the callee and the event socket.                              *)

CalleeAnswers(a) ==
  /\ chan[a] = "ringing"
  /\ chan' = [chan EXCEPT ![a] = "stasis"]
  /\ inbox' = [inbox EXCEPT ![a] = Append(@, "answered")]
  /\ UNCHANGED <<store, sched, tracking, tasks, bounds>>

DialplanReturns(a) ==
  /\ chan[a] = "dialplan"
  /\ chan' = [chan EXCEPT ![a] = "stasis"]
  /\ inbox' = [inbox EXCEPT ![a] = Append(@, "amd")]
  /\ UNCHANGED <<store, sched, tracking, tasks, bounds>>

(* Nobody answers, or the callee or the agent hangs up.  Of a channel that  *)
(* never entered Stasis the engine may hear nothing.                        *)
CalleeGone(a) ==
  /\ chan[a] \in {"ringing", "stasis", "dialplan"}
  /\ \/ HangUp(a)
     \/ /\ chan[a] = "ringing"
        /\ chan' = [chan EXCEPT ![a] = "gone"]
        /\ inbox' = [inbox EXCEPT ![a] = Append(@, "destroyed")]
  /\ UNCHANGED <<store, sched, tracking, tasks, bounds>>

EventsLost(a) ==
  /\ "events" \in scenario.faults
  /\ inbox[a] # <<>>
  /\ inbox' = [inbox EXCEPT ![a] = <<>>]
  /\ UNCHANGED <<store, sched, tracking, tasks, chan, bounds>>

(* The engine restarts: it remembers nothing, and at startup closes the     *)
(* open attempts that are old enough.  Calls in Asterisk go on.             *)
Restart(S) ==
  /\ restarts < scenario.restarts
  /\ \A a \in S : attempt[a].open
  /\ restarts' = restarts + 1
  /\ cleanup_stale_attempts_and_leads(S)
  /\ sched' = Resting
  /\ meta' = [a \in Attempts |-> "none"]
  /\ channels' = {}
  /\ awaiting' = {}
  /\ handler' = [a \in Attempts |-> NoHandler]
  /\ destroyer' = {}
  /\ session' = [a \in Attempts |-> "none"]
  /\ inbox' = [a \in Attempts |-> <<>>]
  /\ UNCHANGED <<scenario, status, chan>>

-----------------------------------------------------------------------------
Init ==
  /\ scenario \in Scenarios
  /\ status \in [Campaigns -> {"running", "paused"}]
  /\ lead \in [Leads -> {"absent", "pending"}]
  /\ Cardinality({l \in Leads : lead[l] = "pending"}) <= scenario.rows
  /\ attempt = [a \in Attempts |-> Unused]
  /\ sched = Resting
  /\ meta = [a \in Attempts |-> "none"]
  /\ channels = {}
  /\ awaiting = {}
  /\ handler = [a \in Attempts |-> NoHandler]
  /\ destroyer = {}
  /\ session = [a \in Attempts |-> "none"]
  /\ chan = [a \in Attempts |-> "none"]
  /\ inbox = [a \in Attempts |-> <<>>]
  /\ restarts = 0

UserStep ==
  \/ \E c \in Campaigns, s \in {"running", "paused", "stopped"} : SetStatus(c, s)
  \/ \E l \in Leads : \/ cancel_lead(l)
                      \/ ignore_lead(l)
                      \/ \E mode \in {"redial", "reset"} : recycle_lead(l, mode)
                      \/ import_leads_csv(l)
                      \/ delete_lead(l)

SchedTurn ==
  \/ SchedFull \/ SchedCount \/ SchedNoLead \/ SchedStats \/ SchedComplete
  \/ \E l \in Leads : SchedLease(l)
  \/ \E a \in Attempts : SchedCreate(a)
  \/ SchedMark \/ SchedUnmarked \/ SchedOriginate \/ SchedOriginated
  \/ SchedRefused \/ SchedRefusedLead \/ SchedRaises
  \/ (\E m \in sched.metas : SchedMeta(m)) \/ SchedProbe \/ SchedStale \/ SchedStaleLead

SchedStep ==
  \/ \E c \in Campaigns : SchedList(c)
  \/ \E S \in SUBSET Attempts : SchedWatch(S)
  \/ SchedTurn

HandlerStep(a) ==
  \/ HandleAnswered(a) \/ AnsweredLead(a) \/ AnsweredContinue(a)
  \/ ContinueRefused(a) \/ ContinueRefusedLead(a)
  \/ \E result \in {"voicemail", "declined", "human"} : HandleAmd(a, result)
  \/ AmdFinish(a) \/ AmdFinishLead(a) \/ AmdHuman(a) \/ Attach(a)
  \/ HandleEnd(a) \/ HandleDestroyed(a) \/ DestroyedLead(a)
  \/ PersistAttempt(a) \/ (\E s \in {"completed", "failed"} : PersistLead(a, s)) \/ RemoveSession(a)

AsteriskStep(a) == CalleeAnswers(a) \/ DialplanReturns(a) \/ CalleeGone(a) \/ EventsLost(a)

Next ==
  \/ UserStep
  \/ SchedStep
  \/ \E a \in Attempts : HandlerStep(a) \/ AsteriskStep(a)
  \/ \E S \in SUBSET Attempts : Restart(S)

Safety == Init /\ [][Next]_vars

(* A started turn of the scheduler goes on, its watchdog looks at every     *)
(* attempt on each turn, a started handler goes on.  Asterisk stops ringing *)
(* after 60 s and its dialplan ends, and not every probe of the watchdog    *)
(* fails.  Nobody has to hang up a conversation.                            *)
Fairness ==
  /\ WF_vars(SchedTurn)
  /\ SF_vars(SchedProbe /\ sched'.pc = "stale")
  /\ \A a \in Attempts :
       /\ SF_vars(\E S \in SUBSET Attempts : a \in S /\ SchedWatch(S))
       /\ WF_vars(HandlerStep(a))
       /\ WF_vars(chan[a] \in {"ringing", "dialplan"} /\ (CalleeAnswers(a) \/ DialplanReturns(a) \/ CalleeGone(a)))

Spec == Safety /\ Fairness

-----------------------------------------------------------------------------
(* PROPERTIES                                                              *)

Called(a) == chan[a] \in {"ringing", "stasis", "dialplan"}

(* Every open attempt will be closed: in the engine that created it, it is  *)
(* the scheduler's own, or tracked, so that the watchdog looks after it.    *)
OpenAttemptTracked ==
  restarts = 0 =>
    \A a \in Attempts : attempt[a].open => MetaOf(a) \/ sched.attempt = a

(* The calls of a campaign, ringing, in the AMD hop, being handled or being *)
(* cleaned up, are never more than its max_concurrent, though they are      *)
(* counted from two tables that change at different times.  A call of an    *)
(* engine that is gone, or one that Asterisk makes although its request     *)
(* went unanswered, is in neither.                                          *)
CallsWithinLimit ==
  (restarts = 0 /\ "ari" \notin scenario.faults) =>
    \A c \in Campaigns :
      Cardinality({a \in Attempts : AttemptCampaign(a) = c /\ (Called(a) \/ session[a] # "none")})
        <= scenario.max_concurrent[c]

(* A lead is dialled once, whatever happens to its lease, its cancellation, *)
(* the requests and the engine, until a user recycles it.                   *)
LeadDialledOnce ==
  "recycle" \notin scenario.operations =>
    \A a, b \in Attempts :
      (a # b /\ attempt[a].lead # NoLead /\ attempt[a].lead = attempt[b].lead)
        => (chan[a] = "none" \/ chan[b] = "none")

(* The scheduler, which looks at its tables and then waits for the database  *)
(* three times, completes a campaign only while no call it follows is under  *)
(* way.  A call whose originate request went unanswered, or was made by an   *)
(* engine that is gone, is not followed.                                     *)
CompletesWhenQuiet ==
  [][\A c \in Campaigns : status[c] # "completed" /\ status'[c] = "completed" => Inflight(c) = {}]_vars

(* A tracked attempt gives its slot back, or is a conversation. *)
SlotFreed == \A a \in Attempts : MetaOf(a) ~> (~MetaOf(a) \/ session[a] = "live")

(* A lead does not stay dialing forever. *)
DialingEnds == \A l \in Leads : lead[l] = "dialing" ~> lead[l] # "dialing"

-----------------------------------------------------------------------------
(* What the documentation says of the dialer and the code does not do.     *)

(* outbound_store.py:1242, of recycling: "Allowed from canceled/failed/      *)
(* completed".  Back to pending a lead goes only from there, or as a new row. *)
RecycledWhenSettled ==
  [][\A l \in Leads : lead'[l] = "pending" =>
       lead[l] \in {"pending", "absent", "canceled", "failed", "completed"}]_vars

(* engine.py:1601, of the watchdog: "Finalize outbound attempts that never   *)
(* reached StasisStart".  It never finishes one that leaves a voicemail.     *)
WatchdogSparesVoicemail == sched.pc = "stale" => handler[sched.attempt].pc # "voicemail"

(* milestone-22:13: "Pacing + concurrency (target 1-5 concurrent outbound    *)
(* calls)".  While fewer calls than max_concurrent are under way the         *)
(* scheduler finds capacity for one more.                                    *)
SlotsAreUsed ==
  \A c \in Campaigns :
    Cardinality(Inflight(c) \cup Active(c)) < scenario.max_concurrent[c] => Capacity(c) > 0

=============================================================================
