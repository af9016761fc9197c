------------------------ MODULE OutboundDialerProofs ------------------------
(***************************************************************************)
(* For any campaigns, leads, attempts and scenarios: an open attempt is    *)
(* tracked, a lead is dialled once, a campaign has no more calls than its  *)
(* limit and is completed only when it is quiet; no slot is spared for     *)
(* ever, and no lead that is dialing is forgotten.                         *)
(***************************************************************************)
EXTENDS OutboundDialer, FiniteSetTheorems, SequenceTheorems, TLAPS

-----------------------------------------------------------------------------
(* The inductive invariant, part by part.                                   *)

Used(a) == attempt[a].lead # NoLead
Has(a, event) == \E i \in DOMAIN inbox[a] : inbox[a][i] = event

(* One attempt.  One that was not created has left no trace; without a      *)
(* channel there are no events and no handlers; the channel has ended where *)
(* its end is being handled; who is about to drop the metadata has closed   *)
(* the attempt.                                                             *)
AttemptInv(a) ==
  /\ ~Used(a) => ~attempt[a].open /\ meta[a] = "none" /\ chan[a] = "none"
  /\ chan[a] = "none" => /\ inbox[a] = <<>> /\ handler[a].pc = "none" /\ a \notin destroyer
                         /\ session[a] = "none" /\ meta[a] # "known"
  /\ session[a] \in {"cleaning", "saved", "removing"} => chan[a] = "gone"
  /\ a \in destroyer \/ Has(a, "destroyed") => chan[a] = "gone"
  /\ handler[a].pc \in {"voicemail_lead", "declined_lead"} \/ a \in destroyer \/ session[a] = "saved"
       => ~attempt[a].open

(* The scheduler: the attempt it created is its lead's, and the lead its    *)
(* campaign's; before the originate request nobody else knows of the        *)
(* attempt; what the watchdog works on was used, and what it probes exists. *)
SchedInv ==
  /\ sched.pc \notin {"idle", "watch", "probe", "stale", "stale_lead"} => sched.campaign \in Campaigns
  /\ sched.pc \in {"leased", "created", "marked", "unmarked", "originating", "refused"} =>
       sched.lead \in Leads /\ CampaignOf[sched.lead] = sched.campaign
  /\ sched.pc \in {"created", "marked", "unmarked", "originating", "refused"} =>
       sched.attempt \in Attempts /\ attempt[sched.attempt].lead = sched.lead
  /\ sched.pc \in {"created", "marked", "unmarked"} => chan[sched.attempt] = "none"
  /\ sched.pc \in {"marked", "unmarked"} => meta[sched.attempt] = "created"
  /\ sched.pc \in {"probe", "stale", "stale_lead"} => sched.attempt \in Attempts /\ Used(sched.attempt)
  /\ sched.pc = "probe" => chan[sched.attempt] # "none"
  /\ sched.pc \in {"stale_lead", "refused"} => ~attempt[sched.attempt].open
  /\ \A m \in sched.metas : Used(m.attempt) /\ (m.channel => chan[m.attempt] # "none")

(* In the engine that created it, an attempt is tracked from its mark to    *)
(* its end.                                                                 *)
OpenIsTracked ==
  restarts = 0 =>
    \A a \in Attempts : attempt[a].open => MetaOf(a) \/ (sched.pc = "created" /\ sched.attempt = a)

(* A lead with a channel is not to be dialled again, and the lead about to  *)
(* be dialled has no channel.                                               *)
DialledOnce ==
  "recycle" \notin scenario.operations =>
    /\ \A a \in Attempts : chan[a] # "none" => lead[attempt[a].lead] \notin {"pending", "leased"}
    /\ sched.pc \in {"marked", "originating"} =>
         /\ lead[sched.lead] \notin {"pending", "leased"}
         /\ \A b \in Attempts : b # sched.attempt /\ attempt[b].lead = sched.lead => chan[b] = "none"

(* From the look at its tables to the completion, the scheduler's campaign  *)
(* is quiet.                                                                *)
QuietMeansNoCalls ==
  ((sched.pc = "counted" /\ sched.quiet) \/ sched.pc \in {"stats", "completing"}) =>
    Inflight(sched.campaign) = {}

(* The calls that the engine follows: its own, with requests answered.      *)
Follows == restarts = 0 /\ "ari" \notin scenario.faults

(* A channel is counted until it is gone, by metadata that is complete      *)
(* unless the scheduler is just dialling.                                   *)
CallsCounted ==
  Follows =>
    /\ \A a \in Attempts : Called(a) => MetaOf(a) \/ session[a] = "live"
    /\ \A a \in Attempts : meta[a] = "created" =>
         sched.attempt = a /\ sched.pc \in {"marked", "unmarked", "originating", "refused"}
    /\ \A m \in sched.metas : m.channel
    /\ sched.pc = "refused" => chan[sched.attempt] = "none"
    /\ sched.pc \in {"stale", "stale_lead"} => chan[sched.attempt] = "gone"

Counts(a) == MetaOf(a) \/ session[a] # "none"
Counted(c) == {a \in Attempts : Counts(a) /\ AttemptCampaign(a) = c}

(* There is room for the calls, and until it marks its attempt there is     *)
(* room for the scheduler's next one.                                       *)
RoomKept ==
  Follows =>
    /\ \A c \in Campaigns : Cardinality(Counted(c)) <= scenario.max_concurrent[c]
    /\ sched.pc \in {"counted", "leased", "created"} =>
         Cardinality(Counted(sched.campaign)) < scenario.max_concurrent[sched.campaign]

FinitelyUsed == IsFiniteSet({a \in Attempts : Used(a)})

Shape == TypeOK /\ SchedInv /\ \A a \in Attempts : AttemptInv(a)

IInv == Shape /\ OpenIsTracked /\ DialledOnce /\ LeadDialledOnce /\ QuietMeansNoCalls
              /\ CallsCounted /\ FinitelyUsed /\ RoomKept

-----------------------------------------------------------------------------
(* What the store's operations and the requests to Asterisk do.            *)

(* No attempt changes its lead, and none is opened again. *)
LeadsKept ==
  /\ attempt' \in [Attempts -> AttemptRow]
  /\ \A a \in Attempts : attempt'[a].lead = attempt[a].lead /\ (attempt'[a].open => attempt[a].open)

LEMMA FinishKeeps ==
  ASSUME TypeOK, NEW x, finish_attempt(x)
  PROVE  LeadsKept /\ \A a \in Attempts : a = x => ~attempt'[a].open
<1>1. attempt \in [Attempts -> AttemptRow]
  BY DEF TypeOK
<1>2. ASSUME NEW a \in Attempts
      PROVE  /\ attempt'[a] \in AttemptRow /\ attempt'[a].lead = attempt[a].lead
             /\ attempt'[a].open => attempt[a].open
             /\ a = x => ~attempt'[a].open
  <2>1. attempt[a] \in AttemptRow
    BY <1>1
  <2>2. CASE a = x
    <3>1. attempt'[a] = [attempt[a] EXCEPT !.open = FALSE]
      BY <1>1, <2>2 DEF finish_attempt
    <3> QED  BY <2>1, <3>1 DEF AttemptRow
  <2>3. CASE a # x
    BY <1>1, <2>1, <2>3 DEF finish_attempt
  <2> QED  BY <2>2, <2>3
<1>3. attempt' = [a \in Attempts |-> attempt'[a]]
  BY <1>1 DEF finish_attempt
<1> QED
  BY <1>2, <1>3 DEF LeadsKept

LEMMA SameKeeps == TypeOK /\ UNCHANGED attempt => LeadsKept
BY DEF TypeOK, LeadsKept

(* A lead that is written to is not left, or made, ready for dialling. *)
LeadsLeaveQueue ==
  /\ lead' \in [Leads -> LeadStates]
  /\ \A l \in Leads : lead'[l] \in {"pending", "leased"} => lead'[l] = lead[l]

LEMMA SetLeaves ==
  ASSUME TypeOK, NEW l, NEW s \in CalledStates \cup {"completed", "failed", "canceled"},
         set_lead_state(l, s)
  PROVE  LeadsLeaveQueue
BY DEF TypeOK, set_lead_state, LeadStates, ActiveStates, CalledStates, LeadsLeaveQueue

LEMMA SameLeaves == TypeOK /\ UNCHANGED lead => LeadsLeaveQueue
BY DEF TypeOK, LeadsLeaveQueue

LEMMA ReceiveTakes ==
  ASSUME TypeOK, NEW a \in Attempts, NEW e, Receive(a, e)
  PROVE  /\ inbox' \in [Attempts -> Seq(ChannelEvents)]
         /\ \A b \in Attempts \ {a} : inbox'[b] = inbox[b]
         /\ inbox[a] # <<>>
         /\ Has(a, "destroyed")' => Has(a, "destroyed")
         /\ e = "destroyed" => Has(a, "destroyed")
<1>1. inbox[a] \in Seq(ChannelEvents) /\ inbox[a] # <<>> /\ inbox'[a] = Tail(inbox[a])
  BY DEF TypeOK, Receive
<1>2. /\ Tail(inbox[a]) \in Seq(ChannelEvents)
      /\ Len(inbox[a]) \in Nat \ {0}
      /\ Len(Tail(inbox[a])) = Len(inbox[a]) - 1
      /\ \A i \in 1 .. Len(Tail(inbox[a])) : Tail(inbox[a])[i] = inbox[a][i + 1]
  BY <1>1, HeadTailProperties, EmptySeq
<1>3. inbox' \in [Attempts -> Seq(ChannelEvents)] /\ \A b \in Attempts \ {a} : inbox'[b] = inbox[b]
  BY <1>2 DEF TypeOK, Receive
<1>4. Has(a, "destroyed")' => Has(a, "destroyed")
  <2> SUFFICES ASSUME NEW i \in DOMAIN Tail(inbox[a]), Tail(inbox[a])[i] = "destroyed"
               PROVE  Has(a, "destroyed")
    BY <1>1 DEF Has
  <2>1. i + 1 \in DOMAIN inbox[a] /\ inbox[a][i + 1] = "destroyed"
    BY <1>1, <1>2
  <2> QED  BY <2>1 DEF Has
<1>5. e = "destroyed" => Has(a, "destroyed")
  BY <1>1, <1>2 DEF Receive, Has
<1> QED
  BY <1>1, <1>3, <1>4, <1>5

LEMMA AppendAdds ==
  ASSUME TypeOK, NEW a \in Attempts, NEW e \in ChannelEvents,
         inbox' = [inbox EXCEPT ![a] = Append(@, e)]
  PROVE  /\ inbox' \in [Attempts -> Seq(ChannelEvents)]
         /\ \A b \in Attempts \ {a} : inbox'[b] = inbox[b]
         /\ Has(a, "destroyed")' => Has(a, "destroyed") \/ e = "destroyed"
<1>1. inbox[a] \in Seq(ChannelEvents) /\ inbox'[a] = Append(inbox[a], e)
  BY DEF TypeOK
<1>2. /\ Append(inbox[a], e) \in Seq(ChannelEvents)
      /\ \A i \in DOMAIN Append(inbox[a], e) :
           Append(inbox[a], e)[i] = e \/ (i \in DOMAIN inbox[a] /\ Append(inbox[a], e)[i] = inbox[a][i])
  BY <1>1, AppendProperties
<1> QED
  BY <1>1, <1>2 DEF TypeOK, Has

LEMMA HangUpEnds ==
  ASSUME TypeOK, NEW a \in Attempts, HangUp(a)
  PROVE  /\ chan' \in [Attempts -> {"none", "ringing", "stasis", "dialplan", "gone"}]
         /\ inbox' \in [Attempts -> Seq(ChannelEvents)]
         /\ \A b \in Attempts \ {a} : chan'[b] = chan[b] /\ inbox'[b] = inbox[b]
         /\ chan'[a] = "gone"
<1>1. inbox[a] \in Seq(ChannelEvents)
  BY DEF TypeOK
<1>2. <<"end", "destroyed">> \in Seq(ChannelEvents) /\ "destroyed" \in ChannelEvents
  BY DEF ChannelEvents
<1>3. /\ inbox[a] \o <<"end", "destroyed">> \in Seq(ChannelEvents)
      /\ Append(inbox[a], "destroyed") \in Seq(ChannelEvents)
  BY <1>1, <1>2, ConcatProperties, AppendProperties
<1> QED
  BY <1>1, <1>3 DEF TypeOK, HangUp

LEMMA CleanupEnds ==
  ASSUME TypeOK, NEW a \in Attempts, BeginCleanup(a) \/ UNCHANGED <<session, chan>>
  PROVE  /\ session' \in [Attempts -> {"none", "live", "cleaning", "saved", "removing"}]
         /\ chan' \in [Attempts -> {"none", "ringing", "stasis", "dialplan", "gone"}]
         /\ \A b \in Attempts \ {a} : session'[b] = session[b] /\ chan'[b] = chan[b]
BY DEF TypeOK, BeginCleanup

-----------------------------------------------------------------------------
(* Counting calls.                                                         *)

LEMMA LimitType ==
  ASSUME TypeOK, NEW c \in Campaigns
  PROVE  scenario.max_concurrent[c] \in 1 .. 5
BY ScenariosType DEF TypeOK

LEMMA CountedFinite ==
  ASSUME TypeOK, FinitelyUsed, \A a \in Attempts : AttemptInv(a), NEW c \in Campaigns
  PROVE  IsFiniteSet(Counted(c)) /\ Cardinality(Counted(c)) \in Nat
<1>1. Counted(c) \subseteq {a \in Attempts : Used(a)}
  BY NoValues DEF Counted, AttemptCampaign, Used
<1> QED
  BY <1>1, FS_Subset, FS_CardinalityType DEF FinitelyUsed

-----------------------------------------------------------------------------
(* The steps of everybody but the scheduler: users, handlers, Asterisk.     *)

(* A channel that ended stays so, and none is made. *)
ChannelEnds(a) ==
  /\ chan'[a] = "none" <=> chan[a] = "none"
  /\ chan[a] = "gone" => chan'[a] = "gone"

(* No attempt is newly tracked; one without a channel is left alone, and an *)
(* open one is not dropped.                                                 *)
TrackingShrinks(a) ==
  /\ MetaOf(a)' => MetaOf(a)
  /\ meta'[a] = "created" => meta[a] = "created"
  /\ chan[a] = "none" => meta'[a] = meta[a]
  /\ MetaOf(a) /\ attempt'[a].open => MetaOf(a)'

(* While it lasts, a call goes on being counted, and no other is. *)
CallStaysCounted(a) ==
  /\ Called(a)' => /\ Called(a)
                   /\ MetaOf(a) => MetaOf(a)'
                   /\ session[a] = "live" => session'[a] = "live"
  /\ Counts(a)' => Counts(a) \/ Called(a)

(* A lead is made ready for dialling only by recycling, or if it is new. *)
QueueGrowsByImport ==
  "recycle" \notin scenario.operations =>
    \A l \in Leads : lead'[l] \in {"pending", "leased"} =>
      lead'[l] = lead[l] \/ \A a \in Attempts : attempt[a].lead # l

Bystander ==
  /\ UNCHANGED <<scenario, sched, restarts>>
  /\ LeadsKept /\ QueueGrowsByImport
  /\ \A a \in Attempts : ChannelEnds(a) /\ TrackingShrinks(a) /\ CallStaysCounted(a)

LEMMA UsersStandBy ==
  ASSUME Shape, UserStep
  PROVE  TypeOK' /\ (\A a \in Attempts : AttemptInv(a)') /\ Bystander
<1> USE DEF Shape
<1>1. TypeOK' /\ LeadsKept /\ QueueGrowsByImport /\ UNCHANGED <<sched, tracking, tasks, asterisk, bounds>>
  <2>1. ASSUME NEW c \in Campaigns, NEW s \in {"running", "paused", "stopped"}, SetStatus(c, s)
        PROVE  TypeOK' /\ LeadsKept /\ QueueGrowsByImport /\ UNCHANGED <<sched, tracking, tasks, asterisk, bounds>>
    <3>1. UNCHANGED <<attempt, sched, tracking, tasks, asterisk, bounds>>
      BY <2>1 DEF SetStatus
    <3>2. LeadsKept
      BY <3>1, SameKeeps
    <3>3. status' \in [Campaigns -> {"running", "paused", "stopped", "completed"}]
      BY <2>1 DEF SetStatus, TypeOK
    <3>4. LeadsLeaveQueue
      BY <2>1 DEF SetStatus, LeadsLeaveQueue, TypeOK, LeadStates
    <3> QED  BY <3>1, <3>2, <3>3, <3>4
             DEF TypeOK, LeadsLeaveQueue, QueueGrowsByImport, tracking, tasks, asterisk, bounds
  <2>2. ASSUME NEW l \in Leads, cancel_lead(l) \/ ignore_lead(l) \/ import_leads_csv(l)
        PROVE  TypeOK' /\ LeadsKept /\ QueueGrowsByImport /\ UNCHANGED <<sched, tracking, tasks, asterisk, bounds>>
    <3>1. UNCHANGED <<status, attempt, sched, tracking, tasks, asterisk, bounds>>
      BY <2>2 DEF cancel_lead, ignore_lead, import_leads_csv
    <3>2. LeadsKept
      BY <3>1, SameKeeps
    <3>3. lead' \in [Leads -> LeadStates] /\ QueueGrowsByImport
      BY <2>2 DEF cancel_lead, ignore_lead, import_leads_csv, TypeOK, LeadStates, ActiveStates, QueueGrowsByImport
    <3> QED  BY <3>1, <3>2, <3>3 DEF TypeOK, tracking, tasks, asterisk, bounds
  <2>3. ASSUME NEW l \in Leads, NEW mode, recycle_lead(l, mode)
        PROVE  TypeOK' /\ LeadsKept /\ QueueGrowsByImport /\ UNCHANGED <<sched, tracking, tasks, asterisk, bounds>>
    <3>1. UNCHANGED <<status, sched, tracking, tasks, asterisk, bounds>>
      BY <2>3 DEF recycle_lead
    <3>2. LeadsKept
      BY <2>3 DEF recycle_lead, LeadsKept, TypeOK, AttemptRow
    <3>3. lead' \in [Leads -> LeadStates] /\ QueueGrowsByImport
      BY <2>3 DEF recycle_lead, TypeOK, LeadStates, ActiveStates, QueueGrowsByImport
    <3> QED  BY <3>1, <3>2, <3>3 DEF TypeOK, LeadsKept, tracking, tasks, asterisk, bounds
  <2>4. ASSUME NEW l \in Leads, delete_lead(l)
        PROVE  TypeOK' /\ LeadsKept /\ QueueGrowsByImport /\ UNCHANGED <<sched, tracking, tasks, asterisk, bounds>>
    <3>1. UNCHANGED <<status, sched, tracking, tasks, asterisk, bounds>>
      BY <2>4 DEF delete_lead
    <3>2. LeadsKept
      BY <2>4 DEF delete_lead, LeadsKept, TypeOK, AttemptRow
    <3>3. lead' \in [Leads -> LeadStates] /\ QueueGrowsByImport
      BY <2>4 DEF delete_lead, TypeOK, LeadStates, QueueGrowsByImport
    <3> QED  BY <3>1, <3>2, <3>3 DEF TypeOK, LeadsKept, tracking, tasks, asterisk, bounds
  <2> QED  BY <2>1, <2>2, <2>3, <2>4 DEF UserStep
<1>2. UNCHANGED <<scenario, sched, restarts, meta, handler, destroyer, session, chan, inbox>>
  BY <1>1 DEF tracking, tasks, asterisk, bounds
<1>3. \A a \in Attempts : AttemptInv(a)'
  BY <1>1, <1>2 DEF AttemptInv, LeadsKept, Used, Has
<1>4. \A a \in Attempts : ChannelEnds(a) /\ TrackingShrinks(a) /\ CallStaysCounted(a)
  BY <1>2 DEF ChannelEnds, TrackingShrinks, CallStaysCounted, MetaOf, Called, Counts
<1> QED
  BY <1>1, <1>2, <1>3, <1>4 DEF Bystander

(* A step of a handler or of Asterisk that touches only the attempt a, which *)
(* has or had a channel.                                                    *)
Elsewhere(a) ==
  \A b \in Attempts \ {a} :
    /\ meta'[b] = meta[b] /\ handler'[b] = handler[b] /\ (b \in destroyer' <=> b \in destroyer)
    /\ session'[b] = session[b] /\ chan'[b] = chan[b] /\ inbox'[b] = inbox[b]

Touches(a) ==
  /\ TypeOK' /\ UNCHANGED <<scenario, sched, restarts>>
  /\ LeadsKept /\ LeadsLeaveQueue /\ Elsewhere(a)
  /\ ChannelEnds(a) /\ TrackingShrinks(a) /\ CallStaysCounted(a) /\ AttemptInv(a)'

LEMMA TouchingStandsBy ==
  ASSUME Shape, NEW a \in Attempts, Touches(a)
  PROVE  TypeOK' /\ (\A b \in Attempts : AttemptInv(b)') /\ Bystander
<1>1. ASSUME NEW b \in Attempts PROVE AttemptInv(b)'
  <2>1. CASE b = a
    BY <2>1 DEF Touches
  <2>2. CASE b # a
    BY <2>2 DEF Touches, Elsewhere, Shape, AttemptInv, LeadsKept, Used, Has
  <2> QED  BY <2>1, <2>2
<1>2. ASSUME NEW b \in Attempts PROVE ChannelEnds(b) /\ TrackingShrinks(b) /\ CallStaysCounted(b)
  <2>1. CASE b = a
    BY <2>1 DEF Touches
  <2>2. CASE b # a
    BY <2>2 DEF Touches, Elsewhere, ChannelEnds, TrackingShrinks, CallStaysCounted, MetaOf, Called, Counts
  <2> QED  BY <2>1, <2>2
<1>3. QueueGrowsByImport
  BY DEF Touches, LeadsLeaveQueue, QueueGrowsByImport
<1> QED
  BY <1>1, <1>2, <1>3 DEF Touches, Bystander

LEMMA HandlersTouch ==
  ASSUME Shape, NEW a \in Attempts, HandlerStep(a)
  PROVE  Touches(a)
<1> USE DEF Shape, store, tracking, tasks, asterisk, bounds
<1>0. handler \in [Attempts -> HandlerAt] /\ AttemptInv(a)
  BY DEF TypeOK
<1>1. CASE HandleAnswered(a)
  <2>1. LeadsKept /\ LeadsLeaveQueue
    BY <1>1, SameKeeps, SameLeaves DEF HandleAnswered
  <2>2. /\ inbox' \in [Attempts -> Seq(ChannelEvents)] /\ \A b \in Attempts \ {a} : inbox'[b] = inbox[b]
        /\ inbox[a] # <<>> /\ (Has(a, "destroyed")' => Has(a, "destroyed"))
    BY <1>1, ReceiveTakes DEF HandleAnswered
  <2>3. /\ handler' \in [Attempts -> HandlerAt] /\ \A b \in Attempts \ {a} : handler'[b] = handler[b]
        /\ meta' \in [Attempts -> {"none", "created", "known", "ghost"}] /\ channels' \subseteq Attempts
        /\ \A b \in Attempts \ {a} : meta'[b] = meta[b]
    <3>1. CASE MetaOf(a)
      <4>1. /\ handler' = [handler EXCEPT ![a] = [pc |-> "answered", known |-> MetaOf(a)]]
            /\ meta' = [meta EXCEPT ![a] = "known"] /\ channels' = channels \cup {a}
        BY <1>1, <3>1 DEF HandleAnswered
      <4>2. [pc |-> "answered", known |-> MetaOf(a)] \in HandlerAt
        BY DEF MetaOf, HandlerAt
      <4> QED  BY <1>0, <4>1, <4>2 DEF TypeOK
    <3>2. CASE ~MetaOf(a)
      <4>1. /\ handler' = [handler EXCEPT ![a] = [pc |-> "continuing", known |-> MetaOf(a)]]
            /\ meta' = meta /\ channels' = channels
        BY <1>1, <3>2 DEF HandleAnswered
      <4>2. MetaOf(a) \in BOOLEAN
        BY DEF MetaOf
      <4> QED  BY <1>0, <4>1, <4>2 DEF HandlerAt, TypeOK
    <3> QED  BY <3>1, <3>2
  <2>4. TypeOK' /\ UNCHANGED <<scenario, sched, restarts>> /\ Elsewhere(a)
    BY <1>1, <2>1, <2>2, <2>3, SMTT(20) DEF HandleAnswered, TypeOK, LeadsKept, LeadsLeaveQueue, Elsewhere
  <2>5. ChannelEnds(a) /\ TrackingShrinks(a) /\ CallStaysCounted(a)
    BY <1>0, <1>1, <2>1, <2>2, <2>4, SMTT(20) DEF HandleAnswered, TypeOK, AttemptInv, ChannelEnds, TrackingShrinks,
       CallStaysCounted, MetaOf, Called, Counts, LeadsKept
  <2>6. AttemptInv(a)'
    BY <1>0, <1>1, <2>1, <2>2, <2>4, SMTT(20) DEF HandleAnswered, TypeOK, HandlerAt, AttemptInv, LeadsKept, Used, Has
  <2> QED  BY <2>1, <2>4, <2>5, <2>6 DEF Touches
<1>2. CASE AnsweredLead(a)
  <2>1. LeadsKept /\ LeadsLeaveQueue
    BY <1>2, SameKeeps, SetLeaves, SameLeaves DEF AnsweredLead, CalledStates
  <2>3. handler' \in [Attempts -> HandlerAt] /\ \A b \in Attempts \ {a} : handler'[b] = handler[b]
    BY <1>0, <1>2, SMTT(20) DEF AnsweredLead, HandlerAt, MetaOf, NoHandler
  <2>4. TypeOK' /\ UNCHANGED <<scenario, sched, restarts>> /\ Elsewhere(a)
    BY <1>2, <2>1, <2>3, SMTT(20) DEF AnsweredLead, TypeOK, LeadsKept, LeadsLeaveQueue, Elsewhere
  <2>5. ChannelEnds(a) /\ TrackingShrinks(a) /\ CallStaysCounted(a)
    BY <1>0, <1>2, <2>1, <2>4, SMTT(20) DEF AnsweredLead, TypeOK, AttemptInv, ChannelEnds, TrackingShrinks,
       CallStaysCounted, MetaOf, Called, Counts, LeadsKept
  <2>6. AttemptInv(a)'
    BY <1>0, <1>2, <2>1, <2>4, SMTT(20) DEF AnsweredLead, TypeOK, HandlerAt, AttemptInv, LeadsKept, Used, Has
  <2> QED  BY <2>1, <2>4, <2>5, <2>6 DEF Touches
<1>3. CASE AnsweredContinue(a)
  <2>1. LeadsKept /\ LeadsLeaveQueue
    BY <1>3, SameKeeps, SameLeaves DEF AnsweredContinue, NoHandler
  <2>2. /\ inbox' \in [Attempts -> Seq(ChannelEvents)] /\ \A b \in Attempts \ {a} : inbox'[b] = inbox[b]
        /\ Has(a, "destroyed")' => Has(a, "destroyed")
    BY <1>3, AppendAdds DEF AnsweredContinue, NoHandler, ChannelEvents, TypeOK, Has
  <2>3. /\ handler' \in [Attempts -> HandlerAt] /\ \A b \in Attempts \ {a} : handler'[b] = handler[b]
        /\ chan' \in [Attempts -> {"none", "ringing", "stasis", "dialplan", "gone"}]
        /\ \A b \in Attempts \ {a} : chan'[b] = chan[b]
        /\ awaiting' \subseteq Attempts
    <3>1. CASE chan[a] = "stasis"
      <4>1. /\ handler' = [handler EXCEPT ![a] = NoHandler] /\ chan' = [chan EXCEPT ![a] = "dialplan"]
            /\ awaiting' = awaiting \cup {a}
        BY <1>3, <3>1 DEF AnsweredContinue
      <4> QED  BY <1>0, <4>1 DEF NoHandler, HandlerAt, TypeOK
    <3>2. CASE chan[a] # "stasis" /\ handler[a].known
      <4>1. /\ handler' = [handler EXCEPT ![a] = [@ EXCEPT !.pc = "refused"]] /\ chan' = chan
            /\ awaiting' = awaiting \ {a}
        BY <1>3, <3>2 DEF AnsweredContinue
      <4> QED  BY <1>0, <4>1 DEF HandlerAt, TypeOK
    <3>3. CASE chan[a] # "stasis" /\ ~handler[a].known
      <4>1. /\ handler' = [handler EXCEPT ![a] = NoHandler] /\ chan' = chan
            /\ awaiting' = awaiting \ {a}
        BY <1>3, <3>3 DEF AnsweredContinue
      <4> QED  BY <1>0, <4>1 DEF NoHandler, HandlerAt, TypeOK
    <3> QED  BY <3>1, <3>2, <3>3
  <2>4. TypeOK' /\ UNCHANGED <<scenario, sched, restarts>> /\ Elsewhere(a)
    BY <1>3, <2>1, <2>2, <2>3, SMTT(20) DEF AnsweredContinue, NoHandler, TypeOK, LeadsKept, LeadsLeaveQueue, Elsewhere
  <2>5. ChannelEnds(a) /\ TrackingShrinks(a) /\ CallStaysCounted(a)
    BY <1>0, <1>3, <2>1, <2>2, <2>4, SMTT(20) DEF AnsweredContinue, NoHandler, TypeOK, AttemptInv, ChannelEnds, TrackingShrinks,
       CallStaysCounted, MetaOf, Called, Counts, LeadsKept
  <2>6. AttemptInv(a)'
    BY <1>0, <1>3, <2>1, <2>2, <2>4, SMTT(20) DEF AnsweredContinue, NoHandler, TypeOK, HandlerAt, AttemptInv, LeadsKept, Used, Has
  <2> QED  BY <2>1, <2>4, <2>5, <2>6 DEF Touches
<1>4. CASE ContinueRefused(a)
  <2>1. LeadsKept /\ LeadsLeaveQueue
    BY <1>4, FinishKeeps, SameKeeps, SameLeaves DEF ContinueRefused
  <2>3. handler' \in [Attempts -> HandlerAt] /\ \A b \in Attempts \ {a} : handler'[b] = handler[b]
    BY <1>0, <1>4, SMTT(20) DEF ContinueRefused, HandlerAt, MetaOf, NoHandler
  <2>4. TypeOK' /\ UNCHANGED <<scenario, sched, restarts>> /\ Elsewhere(a)
    BY <1>4, <2>1, <2>3, SMTT(20) DEF ContinueRefused, TypeOK, LeadsKept, LeadsLeaveQueue, Elsewhere
  <2>5. ChannelEnds(a) /\ TrackingShrinks(a) /\ CallStaysCounted(a)
    BY <1>0, <1>4, <2>1, <2>4, SMTT(20) DEF ContinueRefused, TypeOK, AttemptInv, ChannelEnds, TrackingShrinks,
       CallStaysCounted, MetaOf, Called, Counts, LeadsKept
  <2>6. AttemptInv(a)'
    BY <1>0, <1>4, <2>1, <2>4, SMTT(20) DEF ContinueRefused, TypeOK, HandlerAt, AttemptInv, LeadsKept, Used, Has
  <2> QED  BY <2>1, <2>4, <2>5, <2>6 DEF Touches
<1>5. CASE ContinueRefusedLead(a)
  <2>1. LeadsKept /\ LeadsLeaveQueue
    BY <1>5, SameKeeps, SetLeaves, SameLeaves DEF ContinueRefusedLead, NoHandler, CalledStates
  <2>3. handler' \in [Attempts -> HandlerAt] /\ \A b \in Attempts \ {a} : handler'[b] = handler[b]
    BY <1>0, <1>5, SMTT(20) DEF ContinueRefusedLead, NoHandler, HandlerAt, MetaOf
  <2>4. TypeOK' /\ UNCHANGED <<scenario, sched, restarts>> /\ Elsewhere(a)
    BY <1>5, <2>1, <2>3, SMTT(20) DEF ContinueRefusedLead, NoHandler, TypeOK, LeadsKept, LeadsLeaveQueue, Elsewhere
  <2>5. ChannelEnds(a) /\ TrackingShrinks(a) /\ CallStaysCounted(a)
    BY <1>0, <1>5, <2>1, <2>4, SMTT(20) DEF ContinueRefusedLead, NoHandler, TypeOK, AttemptInv, ChannelEnds, TrackingShrinks,
       CallStaysCounted, MetaOf, Called, Counts, LeadsKept
  <2>6. AttemptInv(a)'
    BY <1>0, <1>5, <2>1, <2>4, SMTT(20) DEF ContinueRefusedLead, NoHandler, TypeOK, HandlerAt, AttemptInv, LeadsKept, Used, Has
  <2> QED  BY <2>1, <2>4, <2>5, <2>6 DEF Touches
<1>6. CASE \E result \in {"voicemail", "declined", "human"} : HandleAmd(a, result)
  <2>1. LeadsKept /\ LeadsLeaveQueue
    BY <1>6, SameKeeps, SameLeaves DEF HandleAmd
  <2>2. /\ inbox' \in [Attempts -> Seq(ChannelEvents)] /\ \A b \in Attempts \ {a} : inbox'[b] = inbox[b]
        /\ inbox[a] # <<>> /\ (Has(a, "destroyed")' => Has(a, "destroyed"))
    BY <1>6, ReceiveTakes DEF HandleAmd
  <2>3. handler' \in [Attempts -> HandlerAt] /\ \A b \in Attempts \ {a} : handler'[b] = handler[b]
    BY <1>0, <1>6, SMTT(20) DEF HandleAmd, HandlerAt, MetaOf, NoHandler
  <2>4. TypeOK' /\ UNCHANGED <<scenario, sched, restarts>> /\ Elsewhere(a)
    BY <1>6, <2>1, <2>2, <2>3, SMTT(20) DEF HandleAmd, TypeOK, LeadsKept, LeadsLeaveQueue, Elsewhere
  <2>5. ChannelEnds(a) /\ TrackingShrinks(a) /\ CallStaysCounted(a)
    BY <1>0, <1>6, <2>1, <2>2, <2>4, SMTT(20) DEF HandleAmd, TypeOK, AttemptInv, ChannelEnds, TrackingShrinks,
       CallStaysCounted, MetaOf, Called, Counts, LeadsKept
  <2>6. AttemptInv(a)'
    BY <1>0, <1>6, <2>1, <2>2, <2>4, SMTT(20) DEF HandleAmd, TypeOK, HandlerAt, AttemptInv, LeadsKept, Used, Has
  <2> QED  BY <2>1, <2>4, <2>5, <2>6 DEF Touches
<1>7. CASE AmdFinish(a)
  <2>1. LeadsKept /\ LeadsLeaveQueue /\ ~attempt'[a].open
    BY <1>7, FinishKeeps, SameKeeps, SameLeaves DEF AmdFinish
  <2>3. handler' \in [Attempts -> HandlerAt] /\ \A b \in Attempts \ {a} : handler'[b] = handler[b]
    BY <1>0, <1>7, SMTT(20) DEF AmdFinish, HandlerAt, MetaOf, NoHandler
  <2>4. TypeOK' /\ UNCHANGED <<scenario, sched, restarts>> /\ Elsewhere(a)
    BY <1>7, <2>1, <2>3, SMTT(20) DEF AmdFinish, TypeOK, LeadsKept, LeadsLeaveQueue, Elsewhere
  <2>5. ChannelEnds(a) /\ TrackingShrinks(a) /\ CallStaysCounted(a)
    BY <1>0, <1>7, <2>1, <2>4, SMTT(20) DEF AmdFinish, TypeOK, AttemptInv, ChannelEnds, TrackingShrinks,
       CallStaysCounted, MetaOf, Called, Counts, LeadsKept
  <2>6. AttemptInv(a)'
    BY <1>0, <1>7, <2>1, <2>4, SMTT(20) DEF AmdFinish, TypeOK, HandlerAt, AttemptInv, LeadsKept, Used, Has
  <2> QED  BY <2>1, <2>4, <2>5, <2>6 DEF Touches
<1>8. CASE AmdFinishLead(a)
  <2>1. LeadsKept /\ LeadsLeaveQueue
    BY <1>8, SameKeeps, SetLeaves, SameLeaves DEF AmdFinishLead, NoHandler, CalledStates
  <2>2. /\ chan' \in [Attempts -> {"none", "ringing", "stasis", "dialplan", "gone"}] /\ chan'[a] = "gone"
        /\ inbox' \in [Attempts -> Seq(ChannelEvents)]
        /\ \A b \in Attempts \ {a} : chan'[b] = chan[b] /\ inbox'[b] = inbox[b]
    BY <1>8, HangUpEnds DEF AmdFinishLead, NoHandler
  <2>3. handler' \in [Attempts -> HandlerAt] /\ \A b \in Attempts \ {a} : handler'[b] = handler[b]
    BY <1>0, <1>8, SMTT(20) DEF AmdFinishLead, NoHandler, HandlerAt, MetaOf
  <2>4. TypeOK' /\ UNCHANGED <<scenario, sched, restarts>> /\ Elsewhere(a)
    BY <1>8, <2>1, <2>2, <2>3, SMTT(20) DEF AmdFinishLead, NoHandler, TypeOK, LeadsKept, LeadsLeaveQueue, Elsewhere
  <2>5. ChannelEnds(a) /\ TrackingShrinks(a) /\ CallStaysCounted(a)
    BY <1>0, <1>8, <2>1, <2>2, <2>4, SMTT(20) DEF AmdFinishLead, NoHandler, TypeOK, AttemptInv, ChannelEnds, TrackingShrinks,
       CallStaysCounted, MetaOf, Called, Counts, LeadsKept
  <2>6. AttemptInv(a)'
    BY <1>0, <1>8, <2>1, <2>2, <2>4, SMTT(20) DEF AmdFinishLead, NoHandler, TypeOK, HandlerAt, AttemptInv, LeadsKept, Used, Has
  <2> QED  BY <2>1, <2>4, <2>5, <2>6 DEF Touches
<1>9. CASE AmdHuman(a)
  <2>1. LeadsKept /\ LeadsLeaveQueue
    BY <1>9, SameKeeps, SetLeaves, SameLeaves DEF AmdHuman, CalledStates
  <2>3. handler' \in [Attempts -> HandlerAt] /\ \A b \in Attempts \ {a} : handler'[b] = handler[b]
    BY <1>0, <1>9, SMTT(20) DEF AmdHuman, HandlerAt, MetaOf, NoHandler
  <2>4. TypeOK' /\ UNCHANGED <<scenario, sched, restarts>> /\ Elsewhere(a)
    BY <1>9, <2>1, <2>3, SMTT(20) DEF AmdHuman, TypeOK, LeadsKept, LeadsLeaveQueue, Elsewhere
  <2>5. ChannelEnds(a) /\ TrackingShrinks(a) /\ CallStaysCounted(a)
    BY <1>0, <1>9, <2>1, <2>4, SMTT(20) DEF AmdHuman, TypeOK, AttemptInv, ChannelEnds, TrackingShrinks,
       CallStaysCounted, MetaOf, Called, Counts, LeadsKept
  <2>6. AttemptInv(a)'
    BY <1>0, <1>9, <2>1, <2>4, SMTT(20) DEF AmdHuman, TypeOK, HandlerAt, AttemptInv, LeadsKept, Used, Has
  <2> QED  BY <2>1, <2>4, <2>5, <2>6 DEF Touches
<1>10. CASE Attach(a)
  <2>1. LeadsKept /\ LeadsLeaveQueue
    BY <1>10, SameKeeps, SameLeaves DEF Attach, NoHandler
  <2>3. handler' \in [Attempts -> HandlerAt] /\ \A b \in Attempts \ {a} : handler'[b] = handler[b]
    BY <1>0, <1>10, SMTT(20) DEF Attach, NoHandler, HandlerAt, MetaOf
  <2>4. TypeOK' /\ UNCHANGED <<scenario, sched, restarts>> /\ Elsewhere(a)
    BY <1>10, <2>1, <2>3, SMTT(20) DEF Attach, NoHandler, TypeOK, LeadsKept, LeadsLeaveQueue, Elsewhere
  <2>5. ChannelEnds(a) /\ TrackingShrinks(a) /\ CallStaysCounted(a)
    BY <1>0, <1>10, <2>1, <2>4, SMTT(20) DEF Attach, NoHandler, TypeOK, AttemptInv, ChannelEnds, TrackingShrinks,
       CallStaysCounted, MetaOf, Called, Counts, LeadsKept
  <2>6. AttemptInv(a)'
    BY <1>0, <1>10, <2>1, <2>4, SMTT(20) DEF Attach, NoHandler, TypeOK, HandlerAt, AttemptInv, LeadsKept, Used, Has
  <2> QED  BY <2>1, <2>4, <2>5, <2>6 DEF Touches
<1>11. CASE HandleEnd(a)
  <2>1. LeadsKept /\ LeadsLeaveQueue
    BY <1>11, SameKeeps, SameLeaves DEF HandleEnd, BeginCleanup
  <2>2. /\ inbox' \in [Attempts -> Seq(ChannelEvents)] /\ \A b \in Attempts \ {a} : inbox'[b] = inbox[b]
        /\ inbox[a] # <<>> /\ (Has(a, "destroyed")' => Has(a, "destroyed"))
    BY <1>11, ReceiveTakes DEF HandleEnd, BeginCleanup
  <2>3. /\ session' \in [Attempts -> {"none", "live", "cleaning", "saved", "removing"}]
        /\ chan' \in [Attempts -> {"none", "ringing", "stasis", "dialplan", "gone"}]
        /\ \A b \in Attempts \ {a} : session'[b] = session[b] /\ chan'[b] = chan[b]
    <3>1. BeginCleanup(a) \/ UNCHANGED <<session, chan>>
      BY <1>11 DEF HandleEnd
    <3> QED  BY <3>1, CleanupEnds
  <2>4. TypeOK' /\ UNCHANGED <<scenario, sched, restarts>> /\ Elsewhere(a)
    BY <1>11, <2>1, <2>2, <2>3, SMTT(20) DEF HandleEnd, BeginCleanup, TypeOK, LeadsKept, LeadsLeaveQueue, Elsewhere
  <2>5. ChannelEnds(a) /\ TrackingShrinks(a) /\ CallStaysCounted(a)
    BY <1>0, <1>11, <2>1, <2>2, <2>4, SMTT(20) DEF HandleEnd, BeginCleanup, TypeOK, AttemptInv, ChannelEnds, TrackingShrinks,
       CallStaysCounted, MetaOf, Called, Counts, LeadsKept
  <2>6. AttemptInv(a)'
    BY <1>0, <1>11, <2>1, <2>2, <2>4, SMTT(20) DEF HandleEnd, BeginCleanup, TypeOK, HandlerAt, AttemptInv, LeadsKept, Used, Has
  <2> QED  BY <2>1, <2>4, <2>5, <2>6 DEF Touches
<1>12. CASE HandleDestroyed(a)
  <2>1. LeadsKept /\ LeadsLeaveQueue /\ (a \notin destroyer /\ a \in destroyer' => ~attempt'[a].open)
    BY <1>12, FinishKeeps, SameKeeps, SameLeaves DEF HandleDestroyed, BeginCleanup
  <2>2. /\ inbox' \in [Attempts -> Seq(ChannelEvents)] /\ \A b \in Attempts \ {a} : inbox'[b] = inbox[b]
        /\ inbox[a] # <<>> /\ (Has(a, "destroyed")' => Has(a, "destroyed"))
        /\ Has(a, "destroyed")
    BY <1>12, ReceiveTakes DEF HandleDestroyed, BeginCleanup
  <2>3. /\ session' \in [Attempts -> {"none", "live", "cleaning", "saved", "removing"}]
        /\ chan' \in [Attempts -> {"none", "ringing", "stasis", "dialplan", "gone"}]
        /\ \A b \in Attempts \ {a} : session'[b] = session[b] /\ chan'[b] = chan[b]
    <3>1. BeginCleanup(a) \/ UNCHANGED <<session, chan>>
      BY <1>12 DEF HandleDestroyed
    <3> QED  BY <3>1, CleanupEnds
  <2>4. TypeOK' /\ UNCHANGED <<scenario, sched, restarts>> /\ Elsewhere(a)
    BY <1>12, <2>1, <2>2, <2>3, SMTT(20) DEF HandleDestroyed, BeginCleanup, TypeOK, LeadsKept, LeadsLeaveQueue, Elsewhere
  <2>5. ChannelEnds(a) /\ TrackingShrinks(a) /\ CallStaysCounted(a)
    BY <1>0, <1>12, <2>1, <2>2, <2>4, SMTT(20) DEF HandleDestroyed, BeginCleanup, TypeOK, AttemptInv, ChannelEnds, TrackingShrinks,
       CallStaysCounted, MetaOf, Called, Counts, LeadsKept
  <2>6. AttemptInv(a)'
    BY <1>0, <1>12, <2>1, <2>2, <2>4, SMTT(20) DEF HandleDestroyed, BeginCleanup, TypeOK, HandlerAt, AttemptInv, LeadsKept, Used, Has
  <2> QED  BY <2>1, <2>4, <2>5, <2>6 DEF Touches
<1>13. CASE DestroyedLead(a)
  <2>1. LeadsKept /\ LeadsLeaveQueue
    BY <1>13, SameKeeps, SetLeaves, SameLeaves DEF DestroyedLead, BeginCleanup, CalledStates
  <2>3. /\ session' \in [Attempts -> {"none", "live", "cleaning", "saved", "removing"}]
        /\ chan' \in [Attempts -> {"none", "ringing", "stasis", "dialplan", "gone"}]
        /\ \A b \in Attempts \ {a} : session'[b] = session[b] /\ chan'[b] = chan[b]
    <3>1. BeginCleanup(a) \/ UNCHANGED <<session, chan>>
      BY <1>13 DEF DestroyedLead
    <3> QED  BY <3>1, CleanupEnds
  <2>9. /\ meta' \in [Attempts -> {"none", "created", "known", "ghost"}] /\ channels' \subseteq Attempts
        /\ destroyer' \subseteq Attempts /\ UNCHANGED <<status, attempt, sched, awaiting, handler, inbox, bounds>>
        /\ \A b \in Attempts \ {a} : meta'[b] = meta[b] /\ (b \in destroyer' <=> b \in destroyer)
    BY <1>13 DEF DestroyedLead, TypeOK
  <2>4. TypeOK' /\ UNCHANGED <<scenario, sched, restarts>> /\ Elsewhere(a)
    BY <1>13, <2>1, <2>3, <2>9, SMTT(20) DEF DestroyedLead, BeginCleanup, TypeOK, LeadsKept, LeadsLeaveQueue, Elsewhere
  <2>5. ChannelEnds(a) /\ TrackingShrinks(a) /\ CallStaysCounted(a)
    BY <1>0, <1>13, <2>1, <2>4, SMTT(20) DEF DestroyedLead, BeginCleanup, TypeOK, AttemptInv, ChannelEnds, TrackingShrinks,
       CallStaysCounted, MetaOf, Called, Counts, LeadsKept
  <2>6. AttemptInv(a)'
    BY <1>0, <1>13, <2>1, <2>4, SMTT(20) DEF DestroyedLead, BeginCleanup, TypeOK, HandlerAt, AttemptInv, LeadsKept, Used, Has
  <2> QED  BY <2>1, <2>4, <2>5, <2>6 DEF Touches
<1>14. CASE PersistAttempt(a)
  <2>1. LeadsKept /\ LeadsLeaveQueue /\ (session'[a] = "saved" => ~attempt'[a].open)
    BY <1>14, FinishKeeps, SameKeeps, SameLeaves DEF PersistAttempt, TypeOK
  <2>3. /\ session' \in [Attempts -> {"none", "live", "cleaning", "saved", "removing"}]
        /\ \A b \in Attempts \ {a} : session'[b] = session[b]
    BY <1>14 DEF PersistAttempt, TypeOK
  <2>4. TypeOK' /\ UNCHANGED <<scenario, sched, restarts>> /\ Elsewhere(a)
    BY <1>14, <2>1, <2>3, SMTT(20) DEF PersistAttempt, TypeOK, LeadsKept, LeadsLeaveQueue, Elsewhere
  <2>5. ChannelEnds(a) /\ TrackingShrinks(a) /\ CallStaysCounted(a)
    BY <1>0, <1>14, <2>1, <2>4, SMTT(20) DEF PersistAttempt, TypeOK, AttemptInv, ChannelEnds, TrackingShrinks,
       CallStaysCounted, MetaOf, Called, Counts, LeadsKept
  <2>6. AttemptInv(a)'
    BY <1>0, <1>14, <2>1, <2>4, SMTT(20) DEF PersistAttempt, TypeOK, HandlerAt, AttemptInv, LeadsKept, Used, Has
  <2> QED  BY <2>1, <2>4, <2>5, <2>6 DEF Touches
<1>15. CASE \E s \in {"completed", "failed"} : PersistLead(a, s)
  <2>1. LeadsKept /\ LeadsLeaveQueue
    BY <1>15, SameKeeps, SetLeaves, SameLeaves DEF PersistLead, CalledStates
  <2>4. TypeOK' /\ UNCHANGED <<scenario, sched, restarts>> /\ Elsewhere(a)
    BY <1>15, <2>1, SMTT(20) DEF PersistLead, TypeOK, LeadsKept, LeadsLeaveQueue, Elsewhere
  <2>5. ChannelEnds(a) /\ TrackingShrinks(a) /\ CallStaysCounted(a)
    BY <1>0, <1>15, <2>1, <2>4, SMTT(20) DEF PersistLead, TypeOK, AttemptInv, ChannelEnds, TrackingShrinks,
       CallStaysCounted, MetaOf, Called, Counts, LeadsKept
  <2>6. AttemptInv(a)'
    BY <1>0, <1>15, <2>1, <2>4, SMTT(20) DEF PersistLead, TypeOK, HandlerAt, AttemptInv, LeadsKept, Used, Has
  <2> QED  BY <2>1, <2>4, <2>5, <2>6 DEF Touches
<1>16. CASE RemoveSession(a)
  <2>1. LeadsKept /\ LeadsLeaveQueue
    BY <1>16, SameKeeps, SameLeaves DEF RemoveSession
  <2>4. TypeOK' /\ UNCHANGED <<scenario, sched, restarts>> /\ Elsewhere(a)
    BY <1>16, <2>1, SMTT(20) DEF RemoveSession, TypeOK, LeadsKept, LeadsLeaveQueue, Elsewhere
  <2>5. ChannelEnds(a) /\ TrackingShrinks(a) /\ CallStaysCounted(a)
    BY <1>0, <1>16, <2>1, <2>4, SMTT(20) DEF RemoveSession, TypeOK, AttemptInv, ChannelEnds, TrackingShrinks,
       CallStaysCounted, MetaOf, Called, Counts, LeadsKept
  <2>6. AttemptInv(a)'
    BY <1>0, <1>16, <2>1, <2>4, SMTT(20) DEF RemoveSession, TypeOK, HandlerAt, AttemptInv, LeadsKept, Used, Has
  <2> QED  BY <2>1, <2>4, <2>5, <2>6 DEF Touches
<1> QED
  BY <1>1, <1>2, <1>3, <1>4, <1>5, <1>6, <1>7, <1>8, <1>9, <1>10, <1>11, <1>12, <1>13, <1>14, <1>15, <1>16 DEF HandlerStep

LEMMA AsteriskTouches ==
  ASSUME Shape, NEW a \in Attempts, AsteriskStep(a)
  PROVE  Touches(a)
<1> USE DEF Shape, store, tracking, tasks, asterisk, bounds
<1>0. AttemptInv(a)
  OBVIOUS
<1>1. UNCHANGED <<store, sched, tracking, tasks, bounds>>
  BY DEF AsteriskStep, CalleeAnswers, DialplanReturns, CalleeGone, EventsLost
<1>2. /\ chan' \in [Attempts -> {"none", "ringing", "stasis", "dialplan", "gone"}]
      /\ inbox' \in [Attempts -> Seq(ChannelEvents)]
      /\ \A b \in Attempts \ {a} : chan'[b] = chan[b] /\ inbox'[b] = inbox[b]
      /\ chan[a] # "none" /\ chan'[a] # "none" /\ (chan[a] = "gone" => chan'[a] = "gone")
      /\ Has(a, "destroyed")' => Has(a, "destroyed") \/ chan'[a] = "gone"
  <2>1. CASE CalleeAnswers(a)
    BY <2>1, AppendAdds DEF CalleeAnswers, ChannelEvents, TypeOK
  <2>2. CASE DialplanReturns(a)
    BY <2>2, AppendAdds DEF DialplanReturns, ChannelEvents, TypeOK
  <2>3. CASE CalleeGone(a) /\ HangUp(a)
    BY <2>3, HangUpEnds DEF CalleeGone
  <2>4. CASE CalleeGone(a) /\ ~HangUp(a)
    <3>1. /\ chan' = [chan EXCEPT ![a] = "gone"] /\ chan[a] = "ringing"
          /\ inbox' = [inbox EXCEPT ![a] = Append(@, "destroyed")]
      BY <2>4 DEF CalleeGone
    <3>2. /\ inbox' \in [Attempts -> Seq(ChannelEvents)]
          /\ \A b \in Attempts \ {a} : inbox'[b] = inbox[b]
      BY <3>1, AppendAdds DEF ChannelEvents
    <3> HIDE DEF Shape
    <3> QED  BY <3>1, <3>2 DEF Shape, TypeOK
  <2>5. CASE EventsLost(a)
    <3>1. inbox' \in [Attempts -> Seq(ChannelEvents)] /\ inbox'[a] = <<>> /\ inbox[a] # <<>>
      BY <2>5 DEF EventsLost, TypeOK
    <3> QED  BY <1>0, <2>5, <3>1 DEF EventsLost, TypeOK, AttemptInv, Has
  <2> QED  BY <2>1, <2>2, <2>3, <2>4, <2>5 DEF AsteriskStep
<1>3. LeadsKept /\ LeadsLeaveQueue
  BY <1>1, SameKeeps, SameLeaves
<1>4. TypeOK' /\ UNCHANGED <<scenario, sched, restarts>> /\ Elsewhere(a)
  BY <1>1, <1>2 DEF TypeOK, Elsewhere
<1>5. ChannelEnds(a) /\ TrackingShrinks(a) /\ CallStaysCounted(a)
  <2>1. Called(a)' => Called(a)
    BY <1>1, <1>2 DEF Called, TypeOK
  <2> QED  BY <1>1, <1>2, <2>1 DEF ChannelEnds, TrackingShrinks, CallStaysCounted, MetaOf, Counts
<1>6. AttemptInv(a)'
  BY <1>0, <1>1, <1>2 DEF AttemptInv, Used
<1> QED
  BY <1>3, <1>4, <1>5, <1>6 DEF Touches

LEMMA BystanderKeeps ==
  ASSUME IInv, TypeOK', \A a \in Attempts : AttemptInv(a)', Bystander
  PROVE  IInv'
<1> USE DEF IInv, Shape
<1>1. SchedInv'
  <2>1. sched.pc \in {"created", "marked", "unmarked"} => meta'[sched.attempt] = meta[sched.attempt]
    BY DEF SchedInv, Bystander, TrackingShrinks
  <2>2. \A m \in sched.metas : m.attempt \in Attempts
    BY DEF TypeOK, Turn
  <2> QED  BY <2>1, <2>2 DEF SchedInv, Bystander, LeadsKept, ChannelEnds, Used
<1>2. OpenIsTracked'
  BY DEF OpenIsTracked, Bystander, LeadsKept, TrackingShrinks
<1>3. DialledOnce' /\ LeadDialledOnce'
  <2> SUFFICES ASSUME "recycle" \notin scenario.operations PROVE DialledOnce' /\ LeadDialledOnce'
    BY DEF DialledOnce, LeadDialledOnce, Bystander
  <2>1. \A a \in Attempts : (chan'[a] # "none" <=> chan[a] # "none") /\ attempt'[a].lead = attempt[a].lead
    BY DEF Bystander, ChannelEnds, LeadsKept
  <2>2. LeadDialledOnce'
    BY <2>1 DEF LeadDialledOnce, Bystander
  <2>3. ASSUME NEW a \in Attempts, attempt[a].lead \in Leads, lead[attempt[a].lead] \notin {"pending", "leased"}
        PROVE  lead'[attempt[a].lead] \notin {"pending", "leased"}
    BY <2>3 DEF Bystander, QueueGrowsByImport
  <2>4. \A a \in Attempts : chan[a] # "none" => attempt[a].lead \in Leads
    BY DEF AttemptInv, Used, TypeOK, AttemptRow
  <2> QED  BY <2>1, <2>2, <2>3, <2>4 DEF DialledOnce, Bystander, SchedInv
<1>4. ASSUME NEW c, Inflight(c) = {} PROVE Inflight(c)' = {}
  BY <1>4 DEF Inflight, Bystander, TrackingShrinks, MetaOf, AttemptCampaign, LeadsKept
<1>5. QuietMeansNoCalls'
  BY <1>4 DEF QuietMeansNoCalls, Bystander
<1>6. CallsCounted'
  <2>1. \A a \in Attempts : chan[a] = "none" => chan'[a] = "none"
    BY DEF Bystander, ChannelEnds
  <2>2. \A m \in sched.metas : m.attempt \in Attempts
    BY DEF TypeOK, Turn
  <2> QED  BY <2>1, <2>2 DEF CallsCounted, Follows, Bystander, CallStaysCounted, TrackingShrinks, ChannelEnds, SchedInv
<1>7. FinitelyUsed'
  BY DEF FinitelyUsed, Bystander, LeadsKept, Used
<1>8. RoomKept'
  <2> SUFFICES ASSUME Follows PROVE RoomKept'
    BY DEF RoomKept, Follows, Bystander
  <2>1. \A c : Counted(c)' \subseteq Counted(c)
    BY DEF Counted, Bystander, CallStaysCounted, CallsCounted, Counts, AttemptCampaign, LeadsKept
  <2>2. \A c \in Campaigns : IsFiniteSet(Counted(c))
    BY CountedFinite
  <2>3. \A c \in Campaigns : Cardinality(Counted(c)') <= Cardinality(Counted(c)) /\ Cardinality(Counted(c)) \in Nat
                             /\ Cardinality(Counted(c)') \in Nat
    BY <2>1, <2>2, FS_Subset, FS_CardinalityType
  <2>4. \A c \in Campaigns : scenario.max_concurrent[c] \in Nat
    BY LimitType
  <2> QED  BY <2>3, <2>4 DEF RoomKept, Follows, Bystander, SchedInv
<1> QED
  BY <1>1, <1>2, <1>3, <1>5, <1>6, <1>7, <1>8

-----------------------------------------------------------------------------
(* The scheduler.                                                          *)

(* Room is kept by a step that starts to count no call, if the scheduler    *)
(* had a place for the campaign it now has one for.                         *)
LEMMA SmallerRoom ==
  ASSUME IInv, UNCHANGED bounds, \A c \in Campaigns : Counted(c)' \subseteq Counted(c),
         sched'.pc \in {"counted", "leased", "created"} =>
           /\ sched.pc \in {"counted", "leased", "created"}
           /\ sched'.campaign = sched.campaign
  PROVE  RoomKept'
<1> SUFFICES ASSUME Follows PROVE RoomKept'
  BY DEF RoomKept, Follows, bounds
<1>1. \A c \in Campaigns : IsFiniteSet(Counted(c))
  BY CountedFinite DEF IInv, Shape
<1>2. \A c \in Campaigns : Cardinality(Counted(c)') <= Cardinality(Counted(c)) /\ Cardinality(Counted(c)) \in Nat
                           /\ Cardinality(Counted(c)') \in Nat
  BY <1>1, FS_Subset, FS_CardinalityType
<1>3. \A c \in Campaigns : scenario.max_concurrent[c] \in Nat
  BY LimitType DEF IInv, Shape
<1>4. sched.pc \in {"counted", "leased", "created"} => sched.campaign \in Campaigns
  BY DEF IInv, Shape, SchedInv
<1> QED
  BY <1>2, <1>3, <1>4 DEF RoomKept, Follows, bounds, IInv

(* What the scheduler does while it looks for work: it changes only its own *)
(* variables, has no attempt in hand, or gave it up because its request     *)
(* went unanswered, and finds a campaign quiet or with room only if it is.  *)
Looks ==
  /\ UNCHANGED <<store, tracking, tasks, asterisk, bounds>>
  /\ sched' \in Turn
  /\ \/ sched.pc \notin {"created", "marked", "unmarked", "originating", "refused"}
     \/ "ari" \in scenario.faults /\ sched.pc = "originating"
  /\ sched'.pc \in {"idle", "listed", "counted", "stats", "completing", "watch", "probe", "stale"}
  /\ SchedInv'
  /\ ((sched'.pc = "counted" /\ sched'.quiet) \/ sched'.pc \in {"stats", "completing"}) =>
       Inflight(sched'.campaign) = {}
  /\ sched'.pc = "counted" => Capacity(sched'.campaign) > 0
  /\ Follows => (\A m \in sched'.metas : m.channel) /\ sched'.pc # "stale"

LEMMA CapacityGivesRoom ==
  ASSUME IInv, NEW c \in Campaigns, Capacity(c) > 0
  PROVE  Cardinality(Counted(c)) < scenario.max_concurrent[c]
<1> DEFINE U == {a \in Attempts : Used(a)}
<1>1. Inflight(c) \subseteq U /\ Active(c) \subseteq U
  BY NoValues DEF Inflight, Active, AttemptCampaign, Used
<1>2. IsFiniteSet(Inflight(c)) /\ IsFiniteSet(Active(c))
  BY <1>1, FS_Subset DEF IInv, FinitelyUsed
<1>3. Counted(c) = Inflight(c) \cup Active(c)
  BY DEF Counted, Counts, Inflight, Active, MetaOf
<1>4. /\ Cardinality(Inflight(c) \cup Active(c))
           = Cardinality(Inflight(c)) + Cardinality(Active(c)) - Cardinality(Inflight(c) \cap Active(c))
      /\ IsFiniteSet(Inflight(c) \cap Active(c))
  BY <1>2, FS_Union, FS_Intersection
<1>5. /\ Cardinality(Inflight(c)) \in Nat /\ Cardinality(Active(c)) \in Nat
      /\ Cardinality(Inflight(c) \cap Active(c)) \in Nat
  BY <1>2, <1>4, FS_CardinalityType
<1>6. scenario.max_concurrent[c] \in Nat
  BY LimitType DEF IInv, Shape
<1> QED
  BY <1>3, <1>4, <1>5, <1>6 DEF Capacity

LEMMA LookingKeeps ==
  ASSUME IInv, Looks
  PROVE  IInv'
<1> USE DEF IInv, Shape
<1>1. UNCHANGED <<scenario, status, lead, attempt, meta, channels, awaiting, handler, destroyer, session,
                  chan, inbox, restarts>>
  BY DEF Looks, store, tracking, tasks, asterisk, bounds
<1>2. TypeOK' /\ SchedInv' /\ \A a \in Attempts : AttemptInv(a)'
  BY <1>1 DEF Looks, TypeOK, AttemptInv, Used, Has
<1>3. OpenIsTracked' /\ DialledOnce' /\ LeadDialledOnce'
  BY <1>1 DEF OpenIsTracked, DialledOnce, LeadDialledOnce, Looks, MetaOf
<1>4. QuietMeansNoCalls' /\ FinitelyUsed'
  BY <1>1 DEF QuietMeansNoCalls, FinitelyUsed, Used, Looks, Inflight, AttemptCampaign
<1>5. CallsCounted'
  BY <1>1 DEF CallsCounted, Follows, Looks, Called, MetaOf
<1>6. RoomKept'
  <2>1. \A c \in Campaigns : Counted(c)' = Counted(c)
    BY <1>1 DEF Counted, Counts, MetaOf, AttemptCampaign
  <2>2. CASE sched'.pc = "counted"
    <3>1. sched'.campaign \in Campaigns
      BY <2>2 DEF Looks, SchedInv
    <3>2. Capacity(sched'.campaign) > 0
      BY <2>2 DEF Looks
    <3>3. Cardinality(Counted(sched'.campaign)) < scenario.max_concurrent[sched'.campaign]
      BY <3>1, <3>2, CapacityGivesRoom
    <3>4. Counted(sched.campaign)' = Counted(sched'.campaign)
      BY <1>1 DEF Counted, Counts, MetaOf, AttemptCampaign
    <3> QED  BY <1>1, <2>1, <2>2, <3>3, <3>4 DEF RoomKept, Follows
  <2>3. CASE sched'.pc # "counted"
    BY <2>1, <2>3, SmallerRoom DEF Looks
  <2> QED  BY <2>2, <2>3
<1> QED
  BY <1>2, <1>3, <1>4, <1>5, <1>6

LEMMA LookingSteps ==
  ASSUME IInv,
         \/ \E c \in Campaigns : SchedList(c)
         \/ \E S \in SUBSET Attempts : SchedWatch(S)
         \/ SchedFull \/ SchedCount \/ SchedNoLead \/ SchedStats \/ SchedRaises
         \/ \E m \in sched.metas : SchedMeta(m)
  PROVE  Looks
<1> USE DEF IInv, Shape
<1>1. CASE \E c \in Campaigns : SchedList(c)
  <2> PICK c \in Campaigns : SchedList(c)
    BY <1>1
  <2>1. /\ sched = Resting /\ UNCHANGED <<store, tracking, tasks, asterisk, bounds>>
        /\ sched' = [Resting EXCEPT !.pc = "listed", !.campaign = c]
    BY DEF SchedList
  <2>2. /\ sched' \in Turn /\ sched'.pc = "listed" /\ sched'.campaign = c /\ sched'.metas = {} /\ sched.pc = "idle"
    BY <2>1 DEF Turn, Resting
  <2> QED  BY <2>1, <2>2 DEF Looks, SchedInv
<1>2. CASE \E S \in SUBSET Attempts : SchedWatch(S)
  <2> PICK S \in SUBSET Attempts : SchedWatch(S)
    BY <1>2
  <2>1. \A a \in S : a \in Attempts /\ MetaOf(a)
    BY DEF SchedWatch, Stale, MetaOf
  <2>2. \A a \in S : Used(a) /\ (meta[a] = "known" => chan[a] # "none")
    BY <2>1 DEF AttemptInv, MetaOf
  <2>3. Follows => \A a \in S : meta[a] = "known"
    BY <2>1 DEF CallsCounted, SchedWatch, Resting, MetaOf
  <2> DEFINE metas == {[attempt |-> a, channel |-> meta[a] = "known"] : a \in S}
  <2>4. /\ sched' = [Resting EXCEPT !.pc = "watch", !.metas = metas] /\ sched = Resting
        /\ UNCHANGED <<store, tracking, tasks, asterisk, bounds>>
    BY DEF SchedWatch
  <2>5. /\ metas \subseteq [attempt : Attempts, channel : BOOLEAN]
        /\ \A m \in metas : Used(m.attempt) /\ (m.channel => chan[m.attempt] # "none")
        /\ Follows => \A m \in metas : m.channel
    <3> SUFFICES ASSUME NEW m \in metas
                 PROVE  /\ m \in [attempt : Attempts, channel : BOOLEAN]
                        /\ Used(m.attempt) /\ (m.channel => chan[m.attempt] # "none")
                        /\ Follows => m.channel
      OBVIOUS
    <3> PICK a \in S : m = [attempt |-> a, channel |-> meta[a] = "known"]
      OBVIOUS
    <3> DEFINE known == meta[a] = "known"
    <3>1. known \in BOOLEAN /\ (known <=> meta[a] = "known") /\ m = [attempt |-> a, channel |-> known]
      OBVIOUS
    <3> HIDE DEF known
    <3>2. m.attempt = a /\ m.channel = known
      BY <3>1
    <3>3. m \in [attempt : Attempts, channel : BOOLEAN]
      BY <2>1, <3>1
    <3> QED  BY <2>1, <2>2, <2>3, <3>1, <3>2, <3>3
  <2> HIDE DEF metas
  <2> QED  BY <2>4, <2>5 DEF Looks, SchedInv, Turn, Resting, Used, store, asterisk
<1>3. CASE SchedFull
  BY <1>3 DEF SchedFull, Looks, SchedInv, TypeOK, Turn, Resting
<1>4. CASE SchedCount
  <2>1. Capacity(sched.campaign) > 0 /\ sched.pc = "listed" /\ UNCHANGED <<store, tracking, tasks, asterisk, bounds>>
    BY <1>4 DEF SchedCount
  <2> DEFINE quiet == Inflight(sched.campaign) = {} /\ Active(sched.campaign) = {}
  <2>2. sched' = [sched EXCEPT !.pc = "counted", !.quiet = quiet] /\ quiet \in BOOLEAN
    BY <1>4 DEF SchedCount
  <2>3. quiet => Inflight(sched.campaign) = {}
    OBVIOUS
  <2> HIDE DEF quiet
  <2>4. /\ sched' \in Turn /\ sched'.pc = "counted" /\ sched'.quiet = quiet /\ sched'.campaign = sched.campaign
        /\ sched'.metas = sched.metas
    BY <2>2 DEF TypeOK, Turn
  <2> QED  BY <2>1, <2>3, <2>4 DEF Looks, SchedInv, CallsCounted, Used, store, asterisk
<1>5. CASE SchedNoLead
  BY <1>5 DEF SchedNoLead, Looks, SchedInv, TypeOK, Turn, Resting, QuietMeansNoCalls, CallsCounted, Used, store, asterisk
<1>6. CASE SchedStats
  BY <1>6 DEF SchedStats, Looks, SchedInv, TypeOK, Turn, Resting, QuietMeansNoCalls, CallsCounted, Used, store, asterisk
<1>7. CASE SchedRaises
  BY <1>7 DEF SchedRaises, Looks, SchedInv, TypeOK, Turn, Resting
<1>8. CASE \E m \in sched.metas : SchedMeta(m)
  <2> PICK m \in sched.metas : SchedMeta(m)
    BY <1>8
  <2>1. m \in [attempt : Attempts, channel : BOOLEAN] /\ Used(m.attempt) /\ (m.channel => chan[m.attempt] # "none")
    BY DEF TypeOK, Turn, SchedInv
  <2>2. attempt[m.attempt].lead \in Leads \cup {NoLead}
    BY <2>1 DEF TypeOK, AttemptRow
  <2>3. Follows => m.channel
    BY DEF CallsCounted
  <2>4. UNCHANGED <<store, tracking, tasks, asterisk, bounds>> /\ sched.pc = "watch"
    BY DEF SchedMeta
  <2>5. \/ sched' = Resting
        \/ sched' = [sched EXCEPT !.metas = @ \ {m}]
        \/ sched' = [sched EXCEPT !.pc = IF m.channel THEN "probe" ELSE "stale", !.attempt = m.attempt,
                                  !.lead = attempt[m.attempt].lead, !.channel = m.channel, !.metas = @ \ {m}]
    BY DEF SchedMeta
  <2>6. sched \in Turn
    BY DEF TypeOK
  <2>7. CASE sched' = Resting
    BY <2>4, <2>6, <2>7 DEF Looks, SchedInv, Turn, Resting
  <2>8. CASE sched' = [sched EXCEPT !.metas = @ \ {m}]
    <3>1. sched' \in Turn /\ sched'.pc = "watch" /\ sched'.metas \subseteq sched.metas
      BY <2>4, <2>6, <2>8 DEF Turn
    <3> QED  BY <2>4, <3>1 DEF Looks, SchedInv, CallsCounted, Used, store, asterisk
  <2>9. CASE sched' = [sched EXCEPT !.pc = IF m.channel THEN "probe" ELSE "stale", !.attempt = m.attempt,
                                    !.lead = attempt[m.attempt].lead, !.channel = m.channel, !.metas = @ \ {m}]
    <3>1. /\ sched' \in Turn /\ sched'.attempt = m.attempt /\ sched'.metas \subseteq sched.metas
          /\ sched'.pc = IF m.channel THEN "probe" ELSE "stale"
      BY <2>1, <2>2, <2>4, <2>6, <2>9 DEF Turn
    <3> QED  BY <2>1, <2>3, <2>4, <3>1 DEF Looks, SchedInv, CallsCounted, Used, store, asterisk
  <2> QED  BY <2>5, <2>7, <2>8, <2>9
<1> QED
  BY <1>1, <1>2, <1>3, <1>4, <1>5, <1>6, <1>7, <1>8

(* The fields of the scheduler that a step which goes on with the same      *)
(* attempt leaves alone.                                                    *)
SameWork == /\ sched'.campaign = sched.campaign /\ sched'.lead = sched.lead
            /\ sched'.attempt = sched.attempt /\ sched'.metas = sched.metas

LEMMA LeaseKeeps ==
  ASSUME IInv, NEW l \in Leads, SchedLease(l)
  PROVE  IInv'
<1> USE DEF IInv, Shape
<1>1. /\ sched.pc = "counted" /\ CampaignOf[l] = sched.campaign
      /\ lead' = [lead EXCEPT ![l] = "leased"] /\ lead[l] \in {"pending", "leased"}
  BY DEF SchedLease, Leasable, LeadsOf
<1>2. UNCHANGED <<scenario, status, attempt, meta, channels, awaiting, handler, destroyer, session, chan, inbox, restarts>>
  BY DEF SchedLease, tracking, tasks, asterisk, bounds
<1>3. /\ sched' \in Turn /\ sched'.pc = "leased" /\ sched'.lead = l
      /\ sched'.campaign = sched.campaign /\ sched'.metas = sched.metas
  BY DEF SchedLease, TypeOK, Turn
<1>4. TypeOK'
  BY <1>1, <1>2, <1>3 DEF TypeOK, LeadStates, ActiveStates
<1>5. SchedInv' /\ \A a \in Attempts : AttemptInv(a)'
  BY <1>1, <1>2, <1>3 DEF SchedInv, AttemptInv, Used, Has
<1>6. OpenIsTracked' /\ QuietMeansNoCalls' /\ FinitelyUsed' /\ LeadDialledOnce'
  BY <1>1, <1>2, <1>3 DEF OpenIsTracked, QuietMeansNoCalls, FinitelyUsed, LeadDialledOnce, Used, MetaOf
<1>7. DialledOnce'
  <2>1. \A a \in Attempts : chan[a] # "none" => attempt[a].lead \in Leads
    BY DEF AttemptInv, Used, TypeOK, AttemptRow
  <2> QED  BY <1>1, <1>2, <1>3, <2>1 DEF DialledOnce, TypeOK
<1>8. CallsCounted'
  BY <1>1, <1>2, <1>3 DEF CallsCounted, Follows, Called, MetaOf
<1>9. RoomKept'
  <2>1. \A c \in Campaigns : Counted(c)' \subseteq Counted(c)
    BY <1>2 DEF Counted, Counts, MetaOf, AttemptCampaign
  <2> QED  BY <1>1, <1>2, <1>3, <2>1, SmallerRoom DEF bounds
<1> QED
  BY <1>4, <1>5, <1>6, <1>7, <1>8, <1>9

LEMMA CompleteKeeps ==
  ASSUME IInv, SchedComplete
  PROVE  IInv'
<1> USE DEF IInv, Shape
<1>1. UNCHANGED <<scenario, lead, attempt, meta, channels, awaiting, handler, destroyer, session, chan, inbox, restarts>>
  BY DEF SchedComplete, tracking, tasks, asterisk, bounds
<1>2. sched.pc = "completing" /\ sched' \in Turn /\ sched'.pc = "idle" /\ sched'.metas = {}
  BY DEF SchedComplete, Resting, Turn
<1>3. TypeOK'
  BY <1>1, <1>2 DEF TypeOK, SchedComplete
<1>4. SchedInv' /\ \A a \in Attempts : AttemptInv(a)'
  BY <1>1, <1>2 DEF SchedInv, AttemptInv, Used, Has
<1>5. OpenIsTracked' /\ QuietMeansNoCalls' /\ FinitelyUsed' /\ LeadDialledOnce' /\ DialledOnce'
  BY <1>1, <1>2 DEF OpenIsTracked, QuietMeansNoCalls, FinitelyUsed, LeadDialledOnce, DialledOnce, Used, MetaOf
<1>6. CallsCounted'
  BY <1>1, <1>2 DEF CallsCounted, Follows, Called, MetaOf
<1>7. RoomKept'
  <2>1. \A c \in Campaigns : Counted(c)' \subseteq Counted(c)
    BY <1>1 DEF Counted, Counts, MetaOf, AttemptCampaign
  <2> QED  BY <1>1, <1>2, <2>1, SmallerRoom DEF bounds
<1> QED
  BY <1>3, <1>4, <1>5, <1>6, <1>7

LEMMA CreateKeeps ==
  ASSUME IInv, NEW a \in Attempts, SchedCreate(a)
  PROVE  IInv'
<1> USE DEF IInv, Shape
<1>1. sched.pc = "leased" /\ ~Used(a) /\ attempt' = [attempt EXCEPT ![a] = [lead |-> sched.lead, open |-> TRUE]]
  BY DEF SchedCreate, create_attempt, Used
<1>2. UNCHANGED <<scenario, status, lead, meta, channels, awaiting, handler, destroyer, session, chan, inbox, restarts>>
  BY DEF SchedCreate, tracking, tasks, asterisk, bounds
<1>3. /\ sched' \in Turn /\ sched'.pc = "created" /\ sched'.attempt = a /\ sched'.lead = sched.lead
      /\ sched'.campaign = sched.campaign /\ sched'.metas = sched.metas
  BY DEF SchedCreate, TypeOK, Turn
<1>4. sched.lead \in Leads /\ CampaignOf[sched.lead] = sched.campaign /\ sched.campaign \in Campaigns
  BY <1>1 DEF SchedInv
<1>5. chan[a] = "none" /\ meta[a] = "none" /\ session[a] = "none"
  BY <1>1 DEF AttemptInv
<1>6. /\ attempt' \in [Attempts -> AttemptRow]
      /\ attempt'[a].lead = sched.lead /\ \A b \in Attempts \ {a} : attempt'[b] = attempt[b]
  BY <1>1, <1>4 DEF TypeOK, AttemptRow
<1>7. TypeOK'
  BY <1>2, <1>3, <1>6 DEF TypeOK
<1>8. SchedInv'
  <2>1. \A m \in sched.metas : m.attempt \in Attempts /\ m.attempt # a
    BY <1>1 DEF SchedInv, TypeOK, Turn
  <2> QED  BY <1>1, <1>2, <1>3, <1>4, <1>5, <1>6, <2>1 DEF SchedInv, Used
<1>9. ASSUME NEW b \in Attempts PROVE AttemptInv(b)'
  <2>1. CASE b = a
    BY <1>2, <1>4, <1>5, <1>6, <2>1, NoValues DEF AttemptInv, Used, Has
  <2>2. CASE b # a
    BY <1>2, <1>6, <2>2 DEF AttemptInv, Used, Has
  <2> QED  BY <2>1, <2>2
<1>10. OpenIsTracked' /\ QuietMeansNoCalls'
  BY <1>1, <1>2, <1>3, <1>6 DEF OpenIsTracked, QuietMeansNoCalls, MetaOf
<1>11. FinitelyUsed'
  <2>1. {b \in Attempts : Used(b)'} \subseteq {b \in Attempts : Used(b)} \cup {a}
    BY <1>6 DEF Used
  <2> QED  BY <2>1, FS_AddElement, FS_Subset DEF FinitelyUsed
<1>12. LeadDialledOnce' /\ DialledOnce'
  BY <1>1, <1>2, <1>3, <1>5, <1>6 DEF LeadDialledOnce, DialledOnce
<1>13. CallsCounted'
  BY <1>1, <1>2, <1>3 DEF CallsCounted, Follows, Called, MetaOf
<1>14. RoomKept'
  <2>1. \A c \in Campaigns : Counted(c)' \subseteq Counted(c)
    BY <1>2, <1>5, <1>6 DEF Counted, Counts, MetaOf, AttemptCampaign
  <2> QED  BY <1>1, <1>2, <1>3, <2>1, SmallerRoom DEF bounds
<1> QED
  BY <1>7, <1>8, <1>9, <1>10, <1>11, <1>12, <1>13, <1>14

LEMMA MarkKeeps ==
  ASSUME IInv, SchedMark
  PROVE  IInv'
<1> USE DEF IInv, Shape
<1> DEFINE a == sched.attempt
           l == sched.lead
<1>1. /\ sched.pc = "created" /\ meta' = [meta EXCEPT ![a] = "created"]
      /\ lead' = [lead EXCEPT ![l] = IF Leased(l) THEN "dialing" ELSE @]
      /\ sched' = [sched EXCEPT !.pc = IF Leased(l) THEN "marked" ELSE "unmarked"]
  BY DEF SchedMark, mark_lead_dialing
<1>2. UNCHANGED <<scenario, status, attempt, channels, awaiting, handler, destroyer, session, chan, inbox, restarts>>
  BY DEF SchedMark, tasks, asterisk, bounds
<1>3. /\ sched' \in Turn /\ SameWork /\ sched'.pc = IF Leased(l) THEN "marked" ELSE "unmarked"
  BY <1>1 DEF TypeOK, Turn, SameWork
<1>4. /\ a \in Attempts /\ l \in Leads /\ attempt[a].lead = l /\ chan[a] = "none" /\ Used(a)
      /\ CampaignOf[l] = sched.campaign /\ sched.campaign \in Campaigns
  BY <1>1, NoValues DEF SchedInv, Used
<1> HIDE DEF a, l
<1>5. meta'[a] = "created" /\ \A b \in Attempts \ {a} : meta'[b] = meta[b]
  BY <1>1, <1>4 DEF TypeOK
<1>6. TypeOK' /\ LeadsLeaveQueue
  BY <1>1, <1>2, <1>3, <1>4 DEF TypeOK, LeadStates, ActiveStates, LeadsLeaveQueue
<1>7. SchedInv'
  BY <1>1, <1>2, <1>3, <1>4, <1>5 DEF SchedInv, SameWork, a, l, Used
<1>8. ASSUME NEW b \in Attempts PROVE AttemptInv(b)'
  BY <1>2, <1>4, <1>5 DEF AttemptInv, Used, Has
<1>9. OpenIsTracked' /\ QuietMeansNoCalls' /\ FinitelyUsed'
  BY <1>1, <1>2, <1>3, <1>5 DEF OpenIsTracked, QuietMeansNoCalls, FinitelyUsed, MetaOf, Used, a
<1>10. LeadDialledOnce' /\ DialledOnce'
  <2> SUFFICES ASSUME "recycle" \notin scenario.operations PROVE LeadDialledOnce' /\ DialledOnce'
    BY <1>2 DEF LeadDialledOnce, DialledOnce
  <2>1. LeadDialledOnce'
    BY <1>2 DEF LeadDialledOnce
  <2>2. \A b \in Attempts : chan[b] # "none" => attempt[b].lead \in Leads
    BY DEF AttemptInv, Used, TypeOK, AttemptRow
  <2>3. \A b \in Attempts : chan'[b] # "none" => lead'[attempt'[b].lead] \notin {"pending", "leased"}
    BY <1>2, <1>6, <2>2 DEF DialledOnce, LeadsLeaveQueue
  <2>4. CASE Leased(l)
    <3>1. lead'[l] = "dialing"
      BY <1>1, <1>4, <2>4 DEF TypeOK
    <3>2. \A b \in Attempts : attempt[b].lead = l => chan[b] = "none"
      BY <2>4 DEF DialledOnce, Leased
    <3> QED  BY <1>2, <1>3, <2>1, <2>3, <3>1, <3>2 DEF DialledOnce, SameWork, l
  <2>5. CASE ~Leased(l)
    BY <1>3, <2>1, <2>3, <2>5 DEF DialledOnce
  <2> QED  BY <2>4, <2>5
<1>11. CallsCounted'
  BY <1>1, <1>2, <1>3, <1>5 DEF CallsCounted, Follows, Called, MetaOf, SameWork, a
<1>12. RoomKept'
  <2> SUFFICES ASSUME Follows PROVE RoomKept'
    BY <1>2 DEF RoomKept, Follows
  <2>1. ASSUME NEW c \in Campaigns, c # sched.campaign PROVE Counted(c)' = Counted(c)
    BY <1>2, <1>4, <1>5, <2>1 DEF Counted, Counts, MetaOf, AttemptCampaign, Used
  <2> PICK d \in Campaigns : d = sched.campaign
    BY <1>4
  <2>2. Counted(d)' = Counted(d) \cup {a}
    BY <1>2, <1>4, <1>5 DEF Counted, Counts, MetaOf, AttemptCampaign, Used
  <2>3. IsFiniteSet(Counted(d)) /\ Cardinality(Counted(d)) \in Nat /\ Cardinality(Counted(d)) < scenario.max_concurrent[d]
    BY <1>1, <1>4, CountedFinite DEF RoomKept
  <2>4. Cardinality(Counted(d)') <= Cardinality(Counted(d)) + 1
    <3>1. \/ Cardinality(Counted(d) \cup {a}) = Cardinality(Counted(d)) + 1
          \/ Cardinality(Counted(d) \cup {a}) = Cardinality(Counted(d))
      <4> DEFINE C == Counted(d)
      <4>1. IsFiniteSet(C)
        BY <2>3
      <4> HIDE DEF C
      <4>2. Cardinality(C \cup {a}) = Cardinality(C) + 1 \/ Cardinality(C \cup {a}) = Cardinality(C)
        BY <4>1, FS_AddElement
      <4> QED  BY <4>2 DEF C
    <3> QED  BY <2>2, <2>3, <3>1
  <2>5. scenario.max_concurrent[d] \in Nat /\ Cardinality(Counted(d)') \in Nat
    BY <1>4, <2>2, <2>3, LimitType, FS_AddElement, FS_CardinalityType
  <2>6. Cardinality(Counted(d)') <= scenario.max_concurrent[d]
    BY <2>3, <2>4, <2>5
  <2> QED  BY <1>2, <1>3, <2>1, <2>6 DEF RoomKept, Follows
<1> QED
  BY <1>6, <1>7, <1>8, <1>9, <1>10, <1>11, <1>12

LEMMA UnmarkKeeps ==
  ASSUME IInv, SchedUnmarked
  PROVE  IInv'
<1> USE DEF IInv, Shape
<1> PICK a \in Attempts : a = sched.attempt
  BY DEF SchedUnmarked, SchedInv
<1>1. sched.pc = "unmarked" /\ meta' = [meta EXCEPT ![a] = "none"] /\ finish_attempt(a)
  BY DEF SchedUnmarked
<1>2. UNCHANGED <<scenario, status, lead, channels, awaiting, handler, destroyer, session, chan, inbox, restarts>>
  BY DEF SchedUnmarked, tasks, asterisk, bounds
<1>3. sched' \in Turn /\ sched'.pc = "idle" /\ sched'.metas = {}
  BY DEF SchedUnmarked, Turn, Resting
<1>4. chan[a] = "none"
  BY <1>1 DEF SchedInv
<1>5. meta'[a] = "none" /\ \A b \in Attempts \ {a} : meta'[b] = meta[b]
  BY <1>1 DEF TypeOK
<1>6. LeadsKept /\ ~attempt'[a].open
  BY <1>1, FinishKeeps
<1>7. TypeOK'
  BY <1>1, <1>2, <1>3, <1>6 DEF TypeOK, LeadsKept
<1>8. SchedInv'
  BY <1>3 DEF SchedInv
<1>9. ASSUME NEW b \in Attempts PROVE AttemptInv(b)'
  BY <1>2, <1>4, <1>5, <1>6 DEF AttemptInv, Used, Has, LeadsKept
<1>10. OpenIsTracked' /\ QuietMeansNoCalls' /\ FinitelyUsed'
  <2>1. OpenIsTracked'
    BY <1>1, <1>2, <1>3, <1>5, <1>6 DEF OpenIsTracked, MetaOf, LeadsKept
  <2>2. QuietMeansNoCalls'
    BY <1>1, <1>2, <1>3, <1>5, <1>6 DEF QuietMeansNoCalls, SameWork
  <2>3. FinitelyUsed'
    BY <1>1, <1>2, <1>3, <1>5, <1>6 DEF FinitelyUsed, Used, LeadsKept
  <2> QED  BY <2>1, <2>2, <2>3
<1>11. LeadDialledOnce' /\ DialledOnce'
  BY <1>2, <1>3, <1>6 DEF LeadDialledOnce, DialledOnce, LeadsKept
<1>12. CallsCounted'
  BY <1>1, <1>2, <1>3, <1>4, <1>5 DEF CallsCounted, Follows, Called, MetaOf
<1>13. RoomKept'
  <2>1. \A c \in Campaigns : Counted(c)' \subseteq Counted(c)
    BY <1>2, <1>5, <1>6 DEF Counted, Counts, MetaOf, AttemptCampaign, LeadsKept
  <2> QED  BY <1>2, <1>3, <2>1, SmallerRoom DEF bounds
<1> QED
  BY <1>7, <1>8, <1>9, <1>10, <1>11, <1>12, <1>13

LEMMA OriginateKeeps ==
  ASSUME IInv, SchedOriginate
  PROVE  IInv'
<1> USE DEF IInv, Shape
<1> PICK a \in Attempts : a = sched.attempt
  BY DEF SchedOriginate, SchedInv
<1>1. sched.pc = "marked" /\ meta[a] = "created" /\ chan[a] = "none" /\ attempt[a].lead = sched.lead /\ Used(a)
      /\ sched.lead \in Leads /\ sched.campaign \in Campaigns
  BY NoValues DEF SchedOriginate, SchedInv, Used
<1>2. UNCHANGED <<scenario, status, lead, attempt, meta, channels, awaiting, handler, destroyer, session, inbox, restarts>>
  BY DEF SchedOriginate, store, tracking, tasks, bounds
<1>3. sched' \in Turn /\ SameWork /\ sched'.pc = "originating"
  BY DEF SchedOriginate, TypeOK, Turn, SameWork
<1>4. /\ chan' \in [Attempts -> {"none", "ringing", "stasis", "dialplan", "gone"}]
      /\ chan'[a] \in {"none", "ringing"} /\ \A b \in Attempts \ {a} : chan'[b] = chan[b]
  <2>1. chan' = [chan EXCEPT ![a] = "ringing"] \/ chan' = chan
    BY DEF SchedOriginate
  <2>2. chan \in [Attempts -> {"none", "ringing", "stasis", "dialplan", "gone"}]
    BY DEF TypeOK
  <2> QED  BY <1>1, <2>1, <2>2
<1>5. TypeOK'
  BY <1>2, <1>3, <1>4 DEF TypeOK
<1>6. SchedInv'
  <2>1. \A m \in sched.metas : m.attempt \in Attempts
    BY DEF TypeOK, Turn
  <2> QED  BY <1>1, <1>2, <1>3, <1>4, <2>1 DEF SchedInv, SameWork, Used
<1>7. ASSUME NEW b \in Attempts PROVE AttemptInv(b)'
  <2>1. CASE b = a
    <3>1. /\ inbox[a] = <<>> /\ handler[a].pc = "none" /\ a \notin destroyer /\ session[a] = "none"
      BY <1>1 DEF AttemptInv
    <3>2. ~Has(a, "destroyed")'
      BY <1>2, <3>1 DEF Has
    <3> QED  BY <1>1, <1>2, <1>4, <2>1, <3>1, <3>2 DEF AttemptInv, Used
  <2>2. CASE b # a
    BY <1>2, <1>4, <2>2 DEF AttemptInv, Used, Has
  <2> QED  BY <2>1, <2>2
<1>8. OpenIsTracked' /\ QuietMeansNoCalls' /\ FinitelyUsed'
  BY <1>1, <1>2, <1>3 DEF OpenIsTracked, QuietMeansNoCalls, FinitelyUsed, MetaOf, Used
<1>9. LeadDialledOnce' /\ DialledOnce'
  BY <1>1, <1>2, <1>3, <1>4 DEF LeadDialledOnce, DialledOnce, SameWork
<1>10. CallsCounted'
  BY <1>1, <1>2, <1>3, <1>4 DEF CallsCounted, Follows, Called, MetaOf, SameWork
<1>11. RoomKept'
  <2>1. \A c \in Campaigns : Counted(c)' \subseteq Counted(c)
    BY <1>2 DEF Counted, Counts, MetaOf, AttemptCampaign
  <2> QED  BY <1>2, <1>3, <2>1, SmallerRoom DEF bounds
<1> QED
  BY <1>5, <1>6, <1>7, <1>8, <1>9, <1>10, <1>11

LEMMA OriginatedKeeps ==
  ASSUME IInv, SchedOriginated
  PROVE  IInv'
<1> USE DEF IInv, Shape
<1> PICK a \in Attempts : a = sched.attempt
  BY DEF SchedOriginated, SchedInv
<1>1. /\ sched.pc = "originating" /\ chan[a] # "none"
      /\ meta' = [meta EXCEPT ![a] = IF @ \in {"none", "ghost"} THEN "ghost" ELSE "known"]
  BY DEF SchedOriginated
<1>2. UNCHANGED <<scenario, status, lead, attempt, awaiting, handler, destroyer, session, chan, inbox, restarts>>
  BY DEF SchedOriginated, store, tasks, asterisk, bounds
<1>3. sched' \in Turn /\ sched'.pc = "idle" /\ sched'.metas = {}
  BY DEF SchedOriginated, Turn, Resting
<1>4. /\ meta' \in [Attempts -> {"none", "created", "known", "ghost"}]
      /\ meta'[a] # "created" /\ \A b \in Attempts \ {a} : meta'[b] = meta[b]
      /\ \A b \in Attempts : MetaOf(b)' <=> MetaOf(b)
  BY <1>1 DEF TypeOK, MetaOf
<1>5. TypeOK'
  BY <1>2, <1>3, <1>4 DEF TypeOK, SchedOriginated
<1>6. SchedInv'
  BY <1>3 DEF SchedInv
<1>7. ASSUME NEW b \in Attempts PROVE AttemptInv(b)'
  BY <1>1, <1>2, <1>4 DEF AttemptInv, Used, Has
<1>8. OpenIsTracked' /\ QuietMeansNoCalls' /\ FinitelyUsed'
  BY <1>1, <1>2, <1>3, <1>4 DEF OpenIsTracked, QuietMeansNoCalls, FinitelyUsed, Used
<1>9. LeadDialledOnce' /\ DialledOnce'
  BY <1>2, <1>3 DEF LeadDialledOnce, DialledOnce
<1>10. CallsCounted'
  BY <1>1, <1>2, <1>3, <1>4 DEF CallsCounted, Follows, Called
<1>11. RoomKept'
  <2>1. \A c \in Campaigns : Counted(c)' \subseteq Counted(c)
    BY <1>2, <1>4 DEF Counted, Counts, AttemptCampaign
  <2> QED  BY <1>2, <1>3, <2>1, SmallerRoom DEF bounds
<1> QED
  BY <1>5, <1>6, <1>7, <1>8, <1>9, <1>10, <1>11

LEMMA RefuseKeeps ==
  ASSUME IInv, SchedRefused
  PROVE  IInv'
<1> USE DEF IInv, Shape
<1> PICK a \in Attempts : a = sched.attempt
  BY DEF SchedRefused, SchedInv
<1>1. sched.pc = "originating" /\ finish_attempt(a) /\ (chan[a] = "none" \/ "ari" \in scenario.faults)
  BY DEF SchedRefused
<1>2. UNCHANGED <<scenario, status, lead, meta, channels, awaiting, handler, destroyer, session, chan, inbox, restarts>>
  BY DEF SchedRefused, tracking, tasks, asterisk, bounds
<1>3. sched' \in Turn /\ SameWork /\ sched'.pc = "refused"
  BY DEF SchedRefused, TypeOK, Turn, SameWork
<1>4. LeadsKept /\ ~attempt'[a].open
  BY <1>1, FinishKeeps
<1>5. TypeOK'
  BY <1>2, <1>3, <1>4 DEF TypeOK, LeadsKept
<1>6. SchedInv'
  <2>1. \A m \in sched.metas : m.attempt \in Attempts
    BY DEF TypeOK, Turn
  <2> QED  BY <1>1, <1>2, <1>3, <1>4, <2>1 DEF SchedInv, SameWork, Used, LeadsKept
<1>7. ASSUME NEW b \in Attempts PROVE AttemptInv(b)'
  BY <1>2, <1>4 DEF AttemptInv, Used, Has, LeadsKept
<1>8. OpenIsTracked' /\ QuietMeansNoCalls' /\ FinitelyUsed'
  <2>1. OpenIsTracked'
    BY <1>1, <1>2, <1>3, <1>4 DEF OpenIsTracked, MetaOf, LeadsKept
  <2>2. QuietMeansNoCalls'
    BY <1>1, <1>2, <1>3, <1>4 DEF QuietMeansNoCalls, SameWork
  <2>3. FinitelyUsed'
    BY <1>1, <1>2, <1>3, <1>4 DEF FinitelyUsed, Used, LeadsKept
  <2> QED  BY <2>1, <2>2, <2>3
<1>9. LeadDialledOnce' /\ DialledOnce'
  BY <1>2, <1>3, <1>4 DEF LeadDialledOnce, DialledOnce, LeadsKept
<1>10. CallsCounted'
  BY <1>1, <1>2, <1>3 DEF CallsCounted, Follows, Called, MetaOf, SameWork
<1>11. RoomKept'
  <2>1. \A c \in Campaigns : Counted(c)' \subseteq Counted(c)
    BY <1>2, <1>4 DEF Counted, Counts, MetaOf, AttemptCampaign, LeadsKept
  <2> QED  BY <1>2, <1>3, <2>1, SmallerRoom DEF bounds
<1> QED
  BY <1>5, <1>6, <1>7, <1>8, <1>9, <1>10, <1>11

(* A turn that drops an attempt: it is closed, and under way only where the *)
(* engine does not follow its calls.                                        *)
LEMMA DroppingKeeps ==
  ASSUME IInv, NEW a \in Attempts,
         meta' = [meta EXCEPT ![a] = "none"], LeadsLeaveQueue, channels' \subseteq Attempts,
         UNCHANGED <<scenario, status, attempt, awaiting, handler, destroyer, session, chan, inbox, restarts>>,
         ~attempt[a].open, Follows => ~Called(a),
         sched' \in Turn, SchedInv', sched'.pc \in {"idle", "watch"}, sched'.metas \subseteq sched.metas,
         sched.pc = "refused" => sched.attempt = a,
         sched.pc \notin {"created", "marked", "unmarked", "originating"}
  PROVE  IInv'
<1> USE DEF IInv, Shape
<1>1. meta'[a] = "none" /\ \A b \in Attempts \ {a} : meta'[b] = meta[b]
  BY DEF TypeOK
<1>2. TypeOK'
  BY DEF TypeOK, LeadsLeaveQueue
<1>3. ASSUME NEW b \in Attempts PROVE AttemptInv(b)'
  BY <1>1 DEF AttemptInv, Used, Has
<1>4. OpenIsTracked' /\ QuietMeansNoCalls' /\ FinitelyUsed'
  BY <1>1 DEF OpenIsTracked, QuietMeansNoCalls, FinitelyUsed, MetaOf, Used
<1>5. LeadDialledOnce' /\ DialledOnce'
  <2>1. \A b \in Attempts : chan[b] # "none" => attempt[b].lead \in Leads
    BY DEF AttemptInv, Used, TypeOK, AttemptRow
  <2> QED  BY <2>1 DEF LeadDialledOnce, DialledOnce, LeadsLeaveQueue
<1>6. CallsCounted'
  BY <1>1 DEF CallsCounted, Follows, Called, MetaOf
<1>7. RoomKept'
  <2>1. \A c \in Campaigns : Counted(c)' \subseteq Counted(c)
    BY <1>1 DEF Counted, Counts, MetaOf, AttemptCampaign
  <2> QED  BY <2>1, SmallerRoom DEF bounds
<1> QED
  BY <1>2, <1>3, <1>4, <1>5, <1>6, <1>7

LEMMA RefusedLeadKeeps ==
  ASSUME IInv, SchedRefusedLead
  PROVE  IInv'
<1> USE DEF IInv, Shape
<1> PICK a \in Attempts : a = sched.attempt
  BY DEF SchedRefusedLead, SchedInv
<1>1. sched.pc = "refused" /\ meta' = [meta EXCEPT ![a] = "none"]
  BY DEF SchedRefusedLead
<1>2. UNCHANGED <<scenario, status, attempt, channels, awaiting, handler, destroyer, session, chan, inbox, restarts>>
  BY DEF SchedRefusedLead, tasks, asterisk, bounds
<1>3. sched' \in Turn /\ sched'.pc = "idle" /\ sched'.metas = {}
  BY DEF SchedRefusedLead, Turn, Resting
<1>4. LeadsLeaveQueue
  BY SetLeaves DEF SchedRefusedLead
<1>5. ~attempt[a].open /\ (Follows => ~Called(a))
  BY <1>1 DEF SchedInv, CallsCounted, Called
<1>6. SchedInv' /\ channels' \subseteq Attempts
  BY <1>2, <1>3 DEF SchedInv, TypeOK
<1> QED
  BY <1>1, <1>2, <1>3, <1>4, <1>5, <1>6, DroppingKeeps

(* What the watchdog goes on with. *)
LEMMA NextMetaFits ==
  ASSUME TypeOK
  PROVE  /\ NextMeta \in Turn /\ NextMeta.pc \in {"idle", "watch"} /\ NextMeta.metas = sched.metas
BY DEF NextMeta, Resting, Turn, TypeOK

LEMMA StaleLeadKeeps ==
  ASSUME IInv, SchedStaleLead
  PROVE  IInv'
<1> USE DEF IInv, Shape
<1> PICK a \in Attempts : a = sched.attempt
  BY DEF SchedStaleLead, SchedInv
<1>1. sched.pc = "stale_lead" /\ meta' = [meta EXCEPT ![a] = "none"] /\ sched' = NextMeta
  BY DEF SchedStaleLead
<1>2. UNCHANGED <<scenario, status, attempt, awaiting, handler, destroyer, session, chan, inbox, restarts>>
  BY DEF SchedStaleLead, tasks, asterisk, bounds
<1>3. LeadsLeaveQueue
  BY SetLeaves DEF SchedStaleLead
<1>4. ~attempt[a].open /\ (Follows => ~Called(a))
  BY <1>1 DEF SchedInv, CallsCounted, Called
<1>5. channels' \subseteq Attempts
  BY DEF SchedStaleLead, TypeOK
<1>6. SchedInv'
  BY <1>1, <1>2, NextMetaFits DEF SchedInv, Used
<1> QED
  BY <1>1, <1>2, <1>3, <1>4, <1>5, <1>6, NextMetaFits, DroppingKeeps

LEMMA StaleKeeps ==
  ASSUME IInv, SchedStale
  PROVE  IInv'
<1> USE DEF IInv, Shape
<1> PICK a \in Attempts : a = sched.attempt
  BY DEF SchedStale, SchedInv
<1>1. sched.pc = "stale" /\ finish_attempt(a)
  BY DEF SchedStale
<1>2. UNCHANGED <<scenario, status, lead, meta, channels, awaiting, handler, destroyer, session, chan, inbox, restarts>>
  BY DEF SchedStale, tracking, tasks, asterisk, bounds
<1>3. sched' \in Turn /\ SameWork /\ sched'.pc = "stale_lead"
  BY DEF SchedStale, TypeOK, Turn, SameWork
<1>4. LeadsKept /\ ~attempt'[a].open
  BY <1>1, FinishKeeps
<1>5. TypeOK'
  BY <1>2, <1>3, <1>4 DEF TypeOK, LeadsKept
<1>6. SchedInv'
  <2>1. \A m \in sched.metas : m.attempt \in Attempts
    BY DEF TypeOK, Turn
  <2> QED  BY <1>1, <1>2, <1>3, <1>4, <2>1 DEF SchedInv, SameWork, Used, LeadsKept
<1>7. ASSUME NEW b \in Attempts PROVE AttemptInv(b)'
  BY <1>2, <1>4 DEF AttemptInv, Used, Has, LeadsKept
<1>8. OpenIsTracked' /\ QuietMeansNoCalls' /\ FinitelyUsed'
  <2>1. OpenIsTracked'
    BY <1>1, <1>2, <1>3, <1>4 DEF OpenIsTracked, MetaOf, LeadsKept
  <2>2. QuietMeansNoCalls'
    BY <1>1, <1>2, <1>3, <1>4 DEF QuietMeansNoCalls, SameWork
  <2>3. FinitelyUsed'
    BY <1>1, <1>2, <1>3, <1>4 DEF FinitelyUsed, Used, LeadsKept
  <2> QED  BY <2>1, <2>2, <2>3
<1>9. LeadDialledOnce' /\ DialledOnce'
  BY <1>2, <1>3, <1>4 DEF LeadDialledOnce, DialledOnce, LeadsKept
<1>10. CallsCounted'
  BY <1>1, <1>2, <1>3 DEF CallsCounted, Follows, Called, MetaOf, SameWork
<1>11. RoomKept'
  <2>1. \A c \in Campaigns : Counted(c)' \subseteq Counted(c)
    BY <1>2, <1>4 DEF Counted, Counts, MetaOf, AttemptCampaign, LeadsKept
  <2> QED  BY <1>2, <1>3, <2>1, SmallerRoom DEF bounds
<1> QED
  BY <1>5, <1>6, <1>7, <1>8, <1>9, <1>10, <1>11

LEMMA ProbeKeeps ==
  ASSUME IInv, SchedProbe
  PROVE  IInv'
<1> USE DEF IInv, Shape
<1> PICK a \in Attempts : a = sched.attempt
  BY DEF SchedProbe, SchedInv
<1>1. sched.pc = "probe" /\ chan[a] # "none" /\ Used(a)
  BY DEF SchedProbe, SchedInv
<1>2. UNCHANGED <<scenario, status, lead, attempt, meta, channels, awaiting, handler, destroyer, session, restarts>>
  BY DEF SchedProbe, store, tracking, tasks, bounds
<1>3. /\ sched' \in Turn /\ sched'.metas = sched.metas
      /\ \/ sched'.pc = "stale" /\ sched'.attempt = a
         \/ sched'.pc \in {"idle", "watch"}
  <2>1. sched' = NextMeta \/ sched' = [sched EXCEPT !.pc = "stale"]
    BY DEF SchedProbe
  <2>2. sched \in Turn
    BY DEF TypeOK
  <2>3. CASE sched' = NextMeta
    BY <2>3, NextMetaFits
  <2>4. CASE sched' = [sched EXCEPT !.pc = "stale"]
    BY <2>2, <2>4 DEF Turn
  <2> QED  BY <2>1, <2>3, <2>4
<1>4. /\ chan' \in [Attempts -> {"none", "ringing", "stasis", "dialplan", "gone"}]
      /\ inbox' \in [Attempts -> Seq(ChannelEvents)]
      /\ \A b \in Attempts \ {a} : chan'[b] = chan[b] /\ inbox'[b] = inbox[b]
      /\ \/ chan'[a] = "gone"
         \/ chan'[a] = chan[a] /\ inbox'[a] = inbox[a] /\ "ari" \in scenario.faults
  <2>1. \/ chan[a] = "gone" /\ UNCHANGED <<chan, inbox>>
        \/ HangUp(a)
        \/ "ari" \in scenario.faults /\ UNCHANGED <<chan, inbox>>
    BY DEF SchedProbe, asterisk
  <2> QED  BY <2>1, HangUpEnds DEF TypeOK
<1>5. TypeOK'
  BY <1>2, <1>3, <1>4 DEF TypeOK
<1>6. \A b \in Attempts : (chan'[b] = "none" <=> chan[b] = "none") /\ (Called(b)' => Called(b))
  BY <1>1, <1>4 DEF Called
<1>7. SchedInv'
  <2>1. \A m \in sched.metas : m.attempt \in Attempts
    BY DEF TypeOK, Turn
  <2> QED  BY <1>1, <1>2, <1>3, <1>6, <2>1 DEF SchedInv, Used
<1>8. ASSUME NEW b \in Attempts PROVE AttemptInv(b)'
  <2>1. CASE b = a
    BY <1>1, <1>2, <1>4, <2>1 DEF AttemptInv, Used, Has
  <2>2. CASE b # a
    BY <1>2, <1>4, <2>2 DEF AttemptInv, Used, Has
  <2> QED  BY <2>1, <2>2
<1>9. OpenIsTracked' /\ QuietMeansNoCalls' /\ FinitelyUsed'
  BY <1>1, <1>2, <1>3 DEF OpenIsTracked, QuietMeansNoCalls, FinitelyUsed, MetaOf, Used
<1>10. LeadDialledOnce' /\ DialledOnce'
  BY <1>2, <1>3, <1>6 DEF LeadDialledOnce, DialledOnce
<1>11. CallsCounted'
  BY <1>1, <1>2, <1>3, <1>4, <1>6 DEF CallsCounted, Follows, MetaOf
<1>12. RoomKept'
  <2>1. \A c \in Campaigns : Counted(c)' \subseteq Counted(c)
    BY <1>2 DEF Counted, Counts, MetaOf, AttemptCampaign
  <2> QED  BY <1>2, <1>3, <2>1, SmallerRoom DEF bounds
<1> QED
  BY <1>5, <1>7, <1>8, <1>9, <1>10, <1>11, <1>12

-----------------------------------------------------------------------------
(* A restart, the initial states, and the theorems.                         *)

LEMMA RestartKeeps ==
  ASSUME IInv, NEW S \in SUBSET Attempts, Restart(S)
  PROVE  IInv'
<1> USE DEF IInv, Shape
<1>1. /\ sched' = Resting /\ meta' = [a \in Attempts |-> "none"] /\ channels' = {} /\ awaiting' = {}
      /\ handler' = [a \in Attempts |-> NoHandler] /\ destroyer' = {}
      /\ session' = [a \in Attempts |-> "none"] /\ inbox' = [a \in Attempts |-> <<>>]
      /\ UNCHANGED <<scenario, status, chan>>
  BY DEF Restart
<1>2. restarts' # 0 /\ restarts' \in 0 .. scenario.restarts
  BY ScenariosType DEF Restart, TypeOK
<1>3. sched' \in Turn /\ sched'.pc = "idle" /\ sched'.metas = {}
  BY <1>1 DEF Turn, Resting
<1>4. LeadsKept
  BY DEF Restart, cleanup_stale_attempts_and_leads, LeadsKept, TypeOK, AttemptRow
<1>5. LeadsLeaveQueue
  BY DEF Restart, cleanup_stale_attempts_and_leads, LeadsLeaveQueue, TypeOK, LeadStates, ActiveStates, CalledStates
<1>6. TypeOK'
  <2>1. handler' \in [Attempts -> HandlerAt]
    BY <1>1 DEF NoHandler, HandlerAt
  <2>2. inbox' \in [Attempts -> Seq(ChannelEvents)]
    BY <1>1, EmptySeq
  <2> QED  BY <1>1, <1>2, <1>3, <1>4, <1>5, <2>1, <2>2 DEF TypeOK, LeadsKept, LeadsLeaveQueue
<1>7. SchedInv'
  BY <1>3 DEF SchedInv
<1>8. ASSUME NEW a \in Attempts PROVE AttemptInv(a)'
  <2>1. inbox'[a] = <<>> /\ ~Has(a, "destroyed")'
    BY <1>1 DEF Has
  <2> QED  BY <1>1, <1>4, <2>1 DEF AttemptInv, Used, LeadsKept, NoHandler
<1>9. OpenIsTracked' /\ QuietMeansNoCalls' /\ FinitelyUsed'
  BY <1>2, <1>3, <1>4 DEF OpenIsTracked, QuietMeansNoCalls, FinitelyUsed, Used, LeadsKept
<1>10. LeadDialledOnce' /\ DialledOnce'
  <2>1. \A b \in Attempts : chan[b] # "none" => attempt[b].lead \in Leads
    BY DEF AttemptInv, Used, TypeOK, AttemptRow
  <2> QED  BY <1>1, <1>3, <1>4, <1>5, <2>1 DEF LeadDialledOnce, DialledOnce, LeadsKept, LeadsLeaveQueue
<1>11. CallsCounted' /\ RoomKept'
  BY <1>2 DEF CallsCounted, RoomKept, Follows
<1> QED
  BY <1>6, <1>7, <1>8, <1>9, <1>10, <1>11

LEMMA InitIInv == Init => IInv
<1> SUFFICES ASSUME Init PROVE IInv
  OBVIOUS
<1>1. TypeOK
  <2>1. attempt \in [Attempts -> AttemptRow] /\ handler \in [Attempts -> HandlerAt] /\ sched \in Turn
    BY DEF Init, Unused, AttemptRow, NoHandler, HandlerAt, Resting, Turn
  <2>2. inbox \in [Attempts -> Seq(ChannelEvents)] /\ restarts \in 0 .. scenario.restarts
    BY EmptySeq, ScenariosType DEF Init
  <2> QED  BY <2>1, <2>2 DEF Init, TypeOK, LeadStates, ActiveStates
<1>2. sched.pc = "idle" /\ sched.metas = {} /\ SchedInv
  BY DEF Init, Resting, SchedInv
<1>3. \A a \in Attempts : ~Used(a) /\ ~attempt[a].open
  BY DEF Init, Unused, Used
<1>4. ASSUME NEW a \in Attempts PROVE AttemptInv(a)
  BY <1>3 DEF Init, AttemptInv, Has, NoHandler
<1>5. OpenIsTracked /\ QuietMeansNoCalls /\ DialledOnce /\ LeadDialledOnce
  BY <1>2, <1>3 DEF OpenIsTracked, QuietMeansNoCalls, DialledOnce, LeadDialledOnce, Init
<1>6. FinitelyUsed
  <2>1. {a \in Attempts : Used(a)} = {}
    BY <1>3
  <2> QED  BY <2>1, FS_EmptySet DEF FinitelyUsed
<1>7. CallsCounted
  BY <1>2 DEF Init, CallsCounted, Called
<1>8. RoomKept
  <2>1. \A c \in Campaigns : Counted(c) = {}
    BY DEF Init, Counted, Counts, MetaOf
  <2>2. \A c \in Campaigns : scenario.max_concurrent[c] \in 1 .. 5
    BY <1>1, LimitType
  <2> QED  BY <1>2, <2>1, <2>2, FS_EmptySet DEF RoomKept
<1> QED
  BY <1>1, <1>2, <1>4, <1>5, <1>6, <1>7, <1>8 DEF IInv, Shape

LEMMA StutterKeeps == IInv /\ UNCHANGED vars => IInv'
<1> SUFFICES ASSUME IInv, UNCHANGED vars PROVE IInv'
  OBVIOUS
<1>1. UNCHANGED <<scenario, status, lead, attempt, sched, meta, channels, awaiting, handler, destroyer, session,
                  chan, inbox, restarts>>
  BY DEF vars, store, tracking, tasks, asterisk, bounds
<1>2. TypeOK' /\ SchedInv' /\ \A a \in Attempts : AttemptInv(a)'
  BY <1>1 DEF IInv, Shape, TypeOK, SchedInv, AttemptInv, Used, Has
<1>3. OpenIsTracked' /\ DialledOnce' /\ LeadDialledOnce' /\ QuietMeansNoCalls' /\ FinitelyUsed'
  BY <1>1 DEF IInv, OpenIsTracked, DialledOnce, LeadDialledOnce, QuietMeansNoCalls, FinitelyUsed, Used, MetaOf,
              Inflight, AttemptCampaign
<1>4. CallsCounted' /\ RoomKept'
  BY <1>1 DEF IInv, CallsCounted, RoomKept, Follows, Called, Counted, Counts, MetaOf, AttemptCampaign
<1> QED
  BY <1>2, <1>3, <1>4 DEF IInv, Shape

LEMMA NextIInv == IInv /\ [Next]_vars => IInv'
<1> SUFFICES ASSUME IInv, [Next]_vars PROVE IInv'
  OBVIOUS
<1>1. CASE UserStep
  BY <1>1, UsersStandBy, BystanderKeeps DEF IInv
<1>2. CASE \E a \in Attempts : HandlerStep(a) \/ AsteriskStep(a)
  BY <1>2, HandlersTouch, AsteriskTouches, TouchingStandsBy, BystanderKeeps DEF IInv
<1>3. CASE \E S \in SUBSET Attempts : Restart(S)
  BY <1>3, RestartKeeps
<1>4. CASE SchedStep
  <2>1. \/ \E c \in Campaigns : SchedList(c)
        \/ \E S \in SUBSET Attempts : SchedWatch(S)
        \/ SchedFull \/ SchedCount \/ SchedNoLead \/ SchedStats \/ SchedRaises
        \/ \E m \in sched.metas : SchedMeta(m)
        \/ SchedComplete \/ (\E l \in Leads : SchedLease(l)) \/ (\E a \in Attempts : SchedCreate(a))
        \/ SchedMark \/ SchedUnmarked \/ SchedOriginate \/ SchedOriginated \/ SchedRefused
        \/ SchedRefusedLead \/ SchedProbe \/ SchedStale \/ SchedStaleLead
    BY <1>4 DEF SchedStep, SchedTurn
  <2> QED  BY <2>1, LookingSteps, LookingKeeps, CompleteKeeps, LeaseKeeps, CreateKeeps, MarkKeeps, UnmarkKeeps,
              OriginateKeeps, OriginatedKeeps, RefuseKeeps, RefusedLeadKeeps, ProbeKeeps, StaleKeeps, StaleLeadKeeps
<1>5. CASE UNCHANGED vars
  BY <1>5, StutterKeeps
<1> QED
  BY <1>1, <1>2, <1>3, <1>4, <1>5 DEF Next

LEMMA Invariance == Safety => []IInv
BY InitIInv, NextIInv, PTL DEF Safety

(* The store, the scheduler's place and all that the engine and Asterisk    *)
(* keep of an attempt stay of their types.                                  *)
THEOREM TypeCorrect == Safety => []TypeOK
<1>1. IInv => TypeOK
  BY DEF IInv, Shape
<1> QED
  BY <1>1, Invariance, PTL

(* No open attempt of this engine is lost: it is the scheduler's own or     *)
(* tracked, whatever the handlers, the watchdog and the users do meanwhile. *)
THEOREM AttemptsTracked == Safety => []OpenAttemptTracked
<1>1. IInv => OpenAttemptTracked
  BY DEF IInv, OpenIsTracked, OpenAttemptTracked
<1> QED
  BY <1>1, Invariance, PTL

(* Unless users recycle, no two attempts ever call the same lead, also when *)
(* requests go unanswered, events are lost and the engine restarts.         *)
THEOREM LeadsDialledOnce == Safety => []LeadDialledOnce
<1>1. IInv => LeadDialledOnce
  BY DEF IInv
<1> QED
  BY <1>1, Invariance, PTL

(* A campaign has never more calls than its max_concurrent. *)
THEOREM LimitKept == Safety => []CallsWithinLimit
<1>1. IInv => CallsWithinLimit
  <2> SUFFICES ASSUME IInv, Follows, NEW c \in Campaigns
               PROVE  Cardinality({a \in Attempts : AttemptCampaign(a) = c /\ (Called(a) \/ session[a] # "none")})
                        <= scenario.max_concurrent[c]
    BY DEF CallsWithinLimit, Follows
  <2> DEFINE X == {a \in Attempts : AttemptCampaign(a) = c /\ (Called(a) \/ session[a] # "none")}
  <2>1. X \subseteq Counted(c)
    BY DEF IInv, CallsCounted, Counted, Counts
  <2>2. IsFiniteSet(Counted(c)) /\ Cardinality(Counted(c)) \in Nat
    BY CountedFinite DEF IInv, Shape
  <2> HIDE DEF X
  <2>3. Cardinality(X) <= Cardinality(Counted(c)) /\ Cardinality(X) \in Nat
    BY <2>1, <2>2, FS_Subset, FS_CardinalityType
  <2>4. Cardinality(Counted(c)) <= scenario.max_concurrent[c] /\ scenario.max_concurrent[c] \in Nat
    BY LimitType DEF IInv, Shape, RoomKept
  <2>5. Cardinality(X) <= scenario.max_concurrent[c]
    BY <2>2, <2>3, <2>4
  <2> QED  BY <2>5 DEF X
<1> QED
  BY <1>1, Invariance, PTL

(* A campaign is completed only while the engine follows no call of it,     *)
(* although it looked three suspensions earlier.                            *)
THEOREM CompletedWhenQuiet == Safety => CompletesWhenQuiet
<1>1. ASSUME IInv, [Next]_vars
      PROVE  [\A c \in Campaigns : status[c] # "completed" /\ status'[c] = "completed" => Inflight(c) = {}]_vars
  <2> SUFFICES ASSUME Next, NEW c \in Campaigns, status[c] # "completed", status'[c] = "completed"
               PROVE  Inflight(c) = {}
    BY <1>1
  <2>1. CASE UserStep
    <3>1. \/ \E d \in Campaigns, s \in {"running", "paused", "stopped"} : SetStatus(d, s)
          \/ UNCHANGED status
      BY <2>1 DEF UserStep, cancel_lead, ignore_lead, recycle_lead, import_leads_csv, delete_lead
    <3> QED  BY <1>1, <3>1 DEF SetStatus, IInv, Shape, TypeOK
  <2>2. CASE SchedComplete
    <3>1. c = sched.campaign /\ sched.pc = "completing"
      BY <1>1, <2>2 DEF SchedComplete, IInv, Shape, TypeOK
    <3> QED  BY <1>1, <3>1 DEF IInv, QuietMeansNoCalls
  <2>3. CASE SchedStep /\ ~SchedComplete
    <3>1. UNCHANGED status
      BY <2>3 DEF SchedStep, SchedTurn, SchedList, SchedWatch, SchedFull, SchedCount, SchedNoLead, SchedStats,
                  SchedLease, SchedCreate, SchedMark, SchedUnmarked, SchedOriginate, SchedOriginated, SchedRefused,
                  SchedRefusedLead, SchedRaises, SchedMeta, SchedProbe, SchedStale, SchedStaleLead, store
    <3> QED  BY <3>1
  <2>4. CASE \E a \in Attempts : HandlerStep(a) \/ AsteriskStep(a)
    <3>1. UNCHANGED status
      BY <2>4 DEF HandlerStep, AsteriskStep, HandleAnswered, AnsweredLead, AnsweredContinue, ContinueRefused,
                  ContinueRefusedLead, HandleAmd, AmdFinish, AmdFinishLead, AmdHuman, Attach, HandleEnd,
                  HandleDestroyed, DestroyedLead, PersistAttempt, PersistLead, RemoveSession, CalleeAnswers,
                  DialplanReturns, CalleeGone, EventsLost, store
    <3> QED  BY <3>1
  <2>5. CASE \E S \in SUBSET Attempts : Restart(S)
    BY <2>5 DEF Restart
  <2> QED  BY <2>1, <2>2, <2>3, <2>4, <2>5 DEF Next
<1> QED
  BY <1>1, Invariance, PTL DEF Safety, CompletesWhenQuiet

-----------------------------------------------------------------------------
(* A slot that is taken is given back.                                      *)

AmdAt == {"voicemail", "voicemail_lead", "declined", "declined_lead", "human", "attaching"}

(* The answer is to be handled, or is being handled. *)
Answering(a) == Has(a, "answered") \/ handler[a].pc \in {"answered", "continuing"}

(* The AMD hop will be over: its result or its end comes, or is handled. *)
HopEnds(a) == chan[a] = "dialplan" \/ Has(a, "amd") \/ Has(a, "destroyed") \/ a \in destroyer

(* An answer is the first event of a channel and is handled once, before the *)
(* AMD hop and the session; the metadata is complete when it was handled;    *)
(* and unless events are lost the AMD hop of a tracked attempt will be over. *)
HopInv(a) ==
  /\ chan[a] \in {"none", "ringing"} =>
       inbox[a] = <<>> /\ handler[a].pc = "none" /\ session[a] = "none" /\ a \notin awaiting
  /\ \A i \in DOMAIN inbox[a] : inbox[a][i] = "answered" => i = 1
  /\ Has(a, "answered") => handler[a].pc = "none"
  /\ Answering(a) => chan[a] # "dialplan" /\ ~Has(a, "amd") /\ session[a] = "none" /\ a \notin awaiting
  /\ a \in awaiting => session[a] = "none" /\ handler[a].pc \notin AmdAt
  /\ meta[a] = "created" => /\ a \notin awaiting /\ chan[a] # "dialplan" /\ ~Has(a, "amd")
                           /\ handler[a].pc = "none"
  /\ meta[a] = "known" => a \in channels
  /\ handler[a].pc \in AmdAt /\ ~handler[a].known => ~MetaOf(a)
  /\ "events" \notin scenario.faults /\ a \in awaiting /\ MetaOf(a) => HopEnds(a)

(* The step leaves the attempt alone, or only drops it. *)
Leaves(a) ==
  /\ UNCHANGED scenario
  /\ meta'[a] = meta[a] \/ meta'[a] \in {"none", "ghost"}
  /\ handler'[a] = handler[a] /\ session'[a] = session[a]
  /\ chan'[a] = chan[a] /\ inbox'[a] = inbox[a]
  /\ (a \in awaiting' <=> a \in awaiting) /\ (meta'[a] = "known" => (a \in channels => a \in channels'))
  /\ a \in destroyer => a \in destroyer'

LEMMA LeavesHop ==
  ASSUME NEW a, HopInv(a), Leaves(a)
  PROVE  HopInv(a)'
<1>1. /\ \A e : Has(a, e)' <=> Has(a, e)
      /\ Answering(a)' <=> Answering(a)
  BY DEF Has, Answering, Leaves
<1>2. (MetaOf(a)' => MetaOf(a)) /\ (HopEnds(a) => HopEnds(a)')
  BY <1>1 DEF MetaOf, HopEnds, Leaves
<1> QED
  BY <1>1, <1>2 DEF HopInv, Leaves

LEMMA ReceiveLeaves ==
  ASSUME TypeOK, NEW a \in Attempts, HopInv(a), NEW e, Receive(a, e)
  PROVE  /\ Has(a, e) /\ ~Has(a, "answered")' /\ inbox[a] # <<>>
         /\ \A x : Has(a, x)' => Has(a, x)
         /\ \A x : x # e /\ Has(a, x) => Has(a, x)'
<1>1. inbox[a] \in Seq(ChannelEvents) /\ inbox[a] # <<>> /\ inbox'[a] = Tail(inbox[a]) /\ inbox[a][1] = e
  BY DEF TypeOK, Receive
<1>2. /\ Len(inbox[a]) \in Nat \ {0} /\ DOMAIN inbox[a] = 1 .. Len(inbox[a])
      /\ DOMAIN Tail(inbox[a]) = 1 .. Len(inbox[a]) - 1
      /\ \A i \in DOMAIN Tail(inbox[a]) : Tail(inbox[a])[i] = inbox[a][i + 1]
  BY <1>1, HeadTailProperties, EmptySeq
<1>3. \A x : Has(a, x)' => Has(a, x)
  BY <1>1, <1>2 DEF Has
<1>4. ASSUME NEW x, x # e, Has(a, x)
      PROVE  Has(a, x)'
  <2>1. PICK i \in DOMAIN inbox[a] : inbox[a][i] = x
    BY <1>4 DEF Has
  <2>2. i # 1 /\ i - 1 \in DOMAIN Tail(inbox[a]) /\ Tail(inbox[a])[i - 1] = x
    BY <1>1, <1>2, <1>4, <2>1
  <2> QED  BY <1>1, <2>2 DEF Has
<1>5. ~Has(a, "answered")'
  <2>1. ASSUME NEW i \in DOMAIN Tail(inbox[a]), Tail(inbox[a])[i] = "answered"
        PROVE  FALSE
    <3>1. i + 1 \in DOMAIN inbox[a] /\ inbox[a][i + 1] = "answered" /\ i + 1 # 1
      BY <1>2, <2>1
    <3> QED  BY <3>1 DEF HopInv
  <2> QED  BY <1>1, <2>1 DEF Has
<1>6. Has(a, e)
  BY <1>1, <1>2 DEF Has
<1> QED
  BY <1>1, <1>3, <1>4, <1>5, <1>6

LEMMA AppendLeaves ==
  ASSUME TypeOK, NEW a \in Attempts, NEW e \in ChannelEvents, inbox' = [inbox EXCEPT ![a] = Append(@, e)]
  PROVE  /\ \A x : Has(a, x)' <=> Has(a, x) \/ x = e
         /\ HopInv(a) /\ (e = "answered" => inbox[a] = <<>>) =>
              \A i \in DOMAIN inbox'[a] : inbox'[a][i] = "answered" => i = 1
<1>1. inbox[a] \in Seq(ChannelEvents) /\ inbox'[a] = Append(inbox[a], e)
  BY DEF TypeOK
<1>2. /\ Len(inbox[a]) \in Nat /\ DOMAIN inbox[a] = 1 .. Len(inbox[a])
      /\ DOMAIN Append(inbox[a], e) = 1 .. Len(inbox[a]) + 1
      /\ \A i \in 1 .. Len(inbox[a]) : Append(inbox[a], e)[i] = inbox[a][i]
      /\ Append(inbox[a], e)[Len(inbox[a]) + 1] = e
  BY <1>1, AppendProperties
<1>3. \A i \in DOMAIN inbox'[a] : i \in DOMAIN inbox[a] \/ i = Len(inbox[a]) + 1
  BY <1>1, <1>2
<1>4. \A x : Has(a, x)' <=> Has(a, x) \/ x = e
  BY <1>1, <1>2, <1>3 DEF Has
<1>5. ASSUME HopInv(a), e = "answered" => inbox[a] = <<>>, NEW i \in DOMAIN inbox'[a], inbox'[a][i] = "answered"
      PROVE  i = 1
  <2>1. CASE i \in DOMAIN inbox[a]
    BY <1>1, <1>2, <1>5, <2>1 DEF HopInv
  <2>2. CASE i = Len(inbox[a]) + 1
    BY <1>1, <1>2, <1>5, <2>2, EmptySeq
  <2> QED  BY <1>3, <1>5, <2>1, <2>2
<1> QED
  BY <1>4, <1>5

LEMMA HangUpLeaves ==
  ASSUME TypeOK, NEW a \in Attempts, HopInv(a), HangUp(a)
  PROVE  /\ \A x \in {"answered", "amd"} : Has(a, x)' <=> Has(a, x)
         /\ Has(a, "destroyed") => Has(a, "destroyed")'
         /\ chan[a] = "dialplan" => Has(a, "destroyed")'
         /\ chan[a] # "gone" /\ chan[a] \notin {"stasis", "dialplan"} => inbox'[a] = inbox[a]
         /\ \A i \in DOMAIN inbox'[a] : inbox'[a][i] = "answered" => i = 1
<1>1. inbox[a] \in Seq(ChannelEvents) /\ "destroyed" \in ChannelEvents
  BY DEF TypeOK, ChannelEvents
<1>2. CASE chan[a] = "stasis"
  <2> DEFINE t == inbox[a] \o <<"end", "destroyed">>
  <2>1. inbox'[a] = t
    BY <1>2 DEF HangUp, TypeOK
  <2>2. /\ Len(inbox[a]) \in Nat /\ DOMAIN inbox[a] = 1 .. Len(inbox[a]) /\ DOMAIN t = 1 .. Len(inbox[a]) + 2
        /\ \A i \in 1 .. Len(inbox[a]) : t[i] = inbox[a][i]
        /\ t[Len(inbox[a]) + 1] = "end" /\ t[Len(inbox[a]) + 2] = "destroyed"
    BY <1>1
  <2> HIDE DEF t
  <2>3. \A i \in DOMAIN t : i \in DOMAIN inbox[a] \/ t[i] \in {"end", "destroyed"}
    BY <2>2
  <2>4. \A x \in {"answered", "amd"} : Has(a, x)' <=> Has(a, x)
    BY <2>1, <2>2, <2>3 DEF Has
  <2>5. Has(a, "destroyed")'
    BY <2>1, <2>2 DEF Has
  <2>6. \A i \in DOMAIN t : t[i] = "answered" => i = 1
    BY <2>2, <2>3 DEF HopInv
  <2> QED  BY <1>2, <2>1, <2>4, <2>5, <2>6
<1>3. CASE chan[a] = "dialplan"
  <2>1. inbox' = [inbox EXCEPT ![a] = Append(@, "destroyed")]
    BY <1>3 DEF HangUp
  <2> QED  BY <1>1, <1>3, <2>1, AppendLeaves
<1>4. CASE chan[a] \notin {"stasis", "dialplan"}
  <2>1. inbox'[a] = inbox[a]
    BY <1>4 DEF HangUp, TypeOK
  <2> QED  BY <1>4, <2>1 DEF Has, HopInv
<1> QED
  BY <1>2, <1>3, <1>4

LEMMA HandlersHop ==
  ASSUME Shape, \A b \in Attempts : HopInv(b), NEW a \in Attempts, HandlerStep(a)
  PROVE  \A b \in Attempts : HopInv(b)'
<1> DEFINE Others == \A b \in Attempts \ {a} : /\ b \in awaiting' <=> b \in awaiting
                                               /\ b \in channels' <=> b \in channels
<1>1. /\ Elsewhere(a) /\ UNCHANGED scenario /\ TrackingShrinks(a) /\ HopInv(a) /\ AttemptInv(a)
      /\ TypeOK /\ handler \in [Attempts -> HandlerAt]
  BY HandlersTouch DEF Touches, Shape, TypeOK
<1>2. SUFFICES Others /\ HopInv(a)'
  <2>1. ASSUME Others, NEW b \in Attempts \ {a}
        PROVE  Leaves(b)
    BY <1>1, <2>1 DEF Elsewhere, Leaves
  <2> QED  BY <2>1, LeavesHop
<1>3. CASE HandleAnswered(a)
  <2>1. Others
    BY <1>3 DEF HandleAnswered
  <2>2. /\ Has(a, "answered") /\ ~Has(a, "answered")' /\ inbox[a] # <<>>
        /\ \A x : Has(a, x)' => Has(a, x)
    BY <1>1, <1>3, ReceiveLeaves DEF HandleAnswered
  <2>3. /\ chan'[a] = chan[a] /\ session'[a] = session[a] /\ awaiting' = awaiting /\ handler'[a].pc \notin AmdAt
        /\ meta'[a] # "created" /\ (meta'[a] = "known" => a \in channels')
    BY <1>1, <1>3 DEF HandleAnswered, AmdAt, MetaOf, Shape, TypeOK
  <2> QED  BY <1>1, <2>1, <2>2, <2>3 DEF HopInv, Answering, Has
<1>4. CASE AnsweredContinue(a)
  <2>1. Others
    BY <1>4 DEF AnsweredContinue
  <2>2. handler[a].pc = "continuing" /\ Answering(a) /\ ~Has(a, "answered") /\ meta'[a] = meta[a] /\ channels' = channels
        /\ session' = session /\ meta[a] # "created"
    BY <1>1, <1>4 DEF AnsweredContinue, Answering, HopInv
  <2>3. CASE chan[a] = "stasis"
    <3>1. /\ inbox' = [inbox EXCEPT ![a] = Append(@, "end")] /\ "end" \in ChannelEvents
          /\ chan'[a] = "dialplan" /\ handler'[a].pc = "none"
      BY <1>1, <1>4, <2>3 DEF AnsweredContinue, TypeOK, NoHandler, ChannelEvents
    <3>2. (\A x : Has(a, x)' <=> Has(a, x) \/ x = "end") /\ \A i \in DOMAIN inbox'[a] : inbox'[a][i] = "answered" => i = 1
      BY <1>1, <3>1, AppendLeaves
    <3> QED  BY <1>1, <2>1, <2>2, <3>1, <3>2 DEF HopInv, Answering, AmdAt, HopEnds, MetaOf
  <2>4. CASE chan[a] # "stasis"
    <3>1. chan' = chan /\ inbox' = inbox /\ handler'[a].pc \in {"refused", "none"} /\ a \notin awaiting'
      BY <1>1, <1>4, <2>4 DEF AnsweredContinue, asterisk, NoHandler, HandlerAt
    <3> QED  BY <1>1, <2>1, <2>2, <3>1 DEF HopInv, Answering, AmdAt, Has, MetaOf
  <2> QED  BY <2>3, <2>4
<1>5. ASSUME NEW result \in {"voicemail", "declined", "human"}, HandleAmd(a, result)
      PROVE  Others /\ HopInv(a)'
  <2>1. Others
    BY <1>5 DEF HandleAmd
  <2>2. Has(a, "amd") /\ ~Has(a, "answered")' /\ inbox[a] # <<>> /\ ~Answering(a)
    BY <1>1, <1>5, ReceiveLeaves DEF HandleAmd, HopInv
  <2>3. /\ a \notin awaiting' /\ handler'[a].pc \in AmdAt /\ UNCHANGED <<meta, channels, chan, session>>
        /\ handler'[a].known <=> MetaOf(a) \/ (a \in channels /\ meta[a] = "none")
    BY <1>1, <1>5 DEF HandleAmd, AmdAt
  <2> QED  BY <1>1, <2>1, <2>2, <2>3 DEF HopInv, Answering, AmdAt, Has, MetaOf
<1>6. CASE AmdFinishLead(a)
  <2>1. Others
    BY <1>6 DEF AmdFinishLead
  <2>2. handler[a].pc \in AmdAt /\ a \notin awaiting' /\ ~Has(a, "answered") /\ session' = session
        /\ meta'[a] = "none" /\ chan'[a] = "gone" /\ handler'[a].pc = "none" /\ HangUp(a)
    BY <1>1, <1>6 DEF AmdFinishLead, AmdAt, HopInv, HangUp, NoHandler, Shape, TypeOK
  <2>3. ~Has(a, "answered")' /\ \A i \in DOMAIN inbox'[a] : inbox'[a][i] = "answered" => i = 1
    BY <1>1, <2>2, HangUpLeaves
  <2> QED  BY <2>1, <2>2, <2>3 DEF HopInv, Answering, AmdAt, MetaOf
<1>7. CASE AnsweredLead(a) \/ ContinueRefused(a) \/ ContinueRefusedLead(a) \/ AmdFinish(a) \/ AmdHuman(a)
  <2>1. UNCHANGED <<meta, channels, awaiting, destroyer, session, chan, inbox>>
    BY <1>7 DEF AnsweredLead, ContinueRefused, ContinueRefusedLead, AmdFinish, AmdHuman, tracking, asterisk
  <2>2. /\ handler[a].pc # "none" /\ (handler'[a].pc \in AmdAt => handler[a].pc \in AmdAt)
        /\ handler'[a].pc \in {"answered", "continuing"} => handler[a].pc \in {"answered", "continuing"}
        /\ handler'[a].pc \in AmdAt => handler'[a].known = handler[a].known
    BY <1>1, <1>7 DEF AnsweredLead, ContinueRefused, ContinueRefusedLead, AmdFinish, AmdHuman, AmdAt, HandlerAt,
                      NoHandler
  <2> QED  BY <1>1, <2>1, <2>2 DEF HopInv, Answering, Has, HopEnds, MetaOf
<1>8. CASE Attach(a)
  <2>1. UNCHANGED <<meta, channels, awaiting, destroyer, chan, inbox>> /\ handler[a].pc = "attaching" /\ handler'[a].pc = "none"
    BY <1>1, <1>8 DEF Attach, tracking, asterisk, NoHandler
  <2>2. chan[a] \notin {"none", "ringing"} /\ a \notin awaiting /\ ~Has(a, "answered") /\ meta[a] # "created"
    BY <1>1, <2>1 DEF HopInv, AmdAt
  <2> QED  BY <1>1, <2>1, <2>2 DEF HopInv, Answering, AmdAt, Has, MetaOf
<1>9. CASE HandleEnd(a)
  <2>1. /\ ~Has(a, "answered")' /\ inbox[a] # <<>> /\ \A x : Has(a, x)' => Has(a, x)
        /\ \A x : x # "end" /\ Has(a, x) => Has(a, x)'
    BY <1>1, <1>9, ReceiveLeaves DEF HandleEnd
  <2>2. UNCHANGED <<meta, channels, awaiting, handler, destroyer, scenario>>
    BY <1>9 DEF HandleEnd, tracking, bounds
  <2>3. \/ UNCHANGED <<session, chan>>
        \/ session[a] # "none" /\ session'[a] # "none" /\ chan'[a] = "gone"
    BY <1>1, <1>9 DEF HandleEnd, BeginCleanup, Shape, TypeOK
  <2>4. "amd" # "end" /\ "destroyed" # "end"
    OBVIOUS
  <2> QED  BY <1>1, <2>1, <2>2, <2>3, <2>4 DEF HopInv, Answering, Has, HopEnds, MetaOf
<1>10. CASE HandleDestroyed(a)
  <2>1. /\ ~Has(a, "answered")' /\ inbox[a] # <<>> /\ \A x : Has(a, x)' => Has(a, x)
    BY <1>1, <1>10, ReceiveLeaves DEF HandleDestroyed
  <2>2. UNCHANGED <<meta, awaiting, handler>> /\ (meta[a] # "ghost" => channels' = channels)
        /\ (meta[a] = "known" /\ a \in channels /\ session[a] = "none" => a \in destroyer')
    BY <1>10 DEF HandleDestroyed
  <2>3. \/ UNCHANGED <<session, chan>>
        \/ session[a] # "none" /\ session'[a] # "none" /\ chan'[a] = "gone"
    BY <1>1, <1>10 DEF HandleDestroyed, BeginCleanup, Shape, TypeOK
  <2>4. a \in awaiting /\ MetaOf(a) => a \in destroyer'
    BY <1>1, <2>2 DEF HopInv, MetaOf
  <2>5. Others
    BY <1>10 DEF HandleDestroyed
  <2> QED  BY <1>1, <2>1, <2>2, <2>3, <2>4, <2>5 DEF HopInv, Answering, Has, HopEnds, MetaOf
<1>11. CASE DestroyedLead(a) \/ \E s \in {"completed", "failed"} : PersistLead(a, s)
  <2>1. UNCHANGED <<awaiting, handler, inbox>> /\ meta'[a] = "none" /\ Others
    BY <1>1, <1>11 DEF DestroyedLead, PersistLead, asterisk, Shape, TypeOK
  <2>2. \/ UNCHANGED <<session, chan>>
        \/ session[a] # "none" /\ session'[a] # "none" /\ chan'[a] \in {chan[a], "gone"}
    BY <1>1, <1>11 DEF DestroyedLead, PersistLead, BeginCleanup, asterisk, Shape, TypeOK
  <2> QED  BY <1>1, <2>1, <2>2 DEF HopInv, Answering, Has, MetaOf
<1>12. CASE PersistAttempt(a) \/ RemoveSession(a)
  <2>1. UNCHANGED <<meta, channels, awaiting, handler, destroyer, chan, inbox, scenario>> /\ session[a] # "none"
    BY <1>12 DEF PersistAttempt, RemoveSession, tracking, asterisk, bounds
  <2> QED  BY <1>1, <2>1 DEF HopInv, Answering, Has, MetaOf
<1> QED
  BY <1>3, <1>4, <1>5, <1>6, <1>7, <1>8, <1>9, <1>10, <1>11, <1>12 DEF HandlerStep

LEMMA AsteriskHop ==
  ASSUME Shape, \A b \in Attempts : HopInv(b), NEW a \in Attempts, AsteriskStep(a)
  PROVE  \A b \in Attempts : HopInv(b)'
<1>1. /\ Elsewhere(a) /\ HopInv(a) /\ TypeOK
      /\ UNCHANGED <<scenario, meta, channels, awaiting, handler, destroyer, session>>
  <2>1. UNCHANGED <<store, sched, tracking, tasks, bounds>>
    BY DEF AsteriskStep, CalleeAnswers, DialplanReturns, CalleeGone, EventsLost
  <2> QED  BY <2>1, AsteriskTouches DEF Touches, Shape, tracking, tasks, bounds
<1>2. SUFFICES HopInv(a)'
  <2>1. ASSUME NEW b \in Attempts \ {a} PROVE Leaves(b)
    BY <1>1 DEF Elsewhere, Leaves
  <2> QED  BY <2>1, LeavesHop
<1>3. CASE CalleeAnswers(a)
  <2>1. /\ chan[a] = "ringing" /\ chan'[a] = "stasis" /\ inbox[a] = <<>> /\ "answered" \in ChannelEvents
        /\ inbox' = [inbox EXCEPT ![a] = Append(@, "answered")]
    BY <1>1, <1>3 DEF CalleeAnswers, HopInv, ChannelEvents, TypeOK
  <2>2. (\A x : Has(a, x)' <=> Has(a, x) \/ x = "answered") /\ \A i \in DOMAIN inbox'[a] : inbox'[a][i] = "answered" => i = 1
    BY <1>1, <2>1, AppendLeaves
  <2>3. ~Has(a, "amd") /\ "amd" # "answered"
    BY <1>1, <2>1 DEF Has
  <2> QED  BY <1>1, <2>1, <2>2, <2>3 DEF HopInv, Answering, AmdAt, MetaOf
<1>4. CASE DialplanReturns(a)
  <2>1. /\ chan[a] = "dialplan" /\ chan'[a] = "stasis" /\ "amd" \in ChannelEvents
        /\ inbox' = [inbox EXCEPT ![a] = Append(@, "amd")]
    BY <1>1, <1>4 DEF DialplanReturns, ChannelEvents, TypeOK
  <2>2. (\A x : Has(a, x)' <=> Has(a, x) \/ x = "amd") /\ \A i \in DOMAIN inbox'[a] : inbox'[a][i] = "answered" => i = 1
    BY <1>1, <2>1, AppendLeaves
  <2> QED  BY <1>1, <2>1, <2>2 DEF HopInv, Answering, HopEnds, MetaOf
<1>5. CASE CalleeGone(a) /\ HangUp(a)
  <2>1. chan'[a] = "gone"
    BY <1>1, <1>5 DEF HangUp, TypeOK
  <2>2. /\ \A x \in {"answered", "amd"} : Has(a, x)' <=> Has(a, x)
        /\ Has(a, "destroyed") \/ chan[a] = "dialplan" => Has(a, "destroyed")'
        /\ \A i \in DOMAIN inbox'[a] : inbox'[a][i] = "answered" => i = 1
    BY <1>1, <1>5, HangUpLeaves
  <2> QED  BY <1>1, <2>1, <2>2 DEF HopInv, Answering, HopEnds, MetaOf
<1>6. CASE CalleeGone(a) /\ ~HangUp(a)
  <2>1. /\ chan[a] = "ringing" /\ chan'[a] = "gone" /\ inbox[a] = <<>> /\ "destroyed" \in ChannelEvents
        /\ inbox' = [inbox EXCEPT ![a] = Append(@, "destroyed")]
    BY <1>1, <1>6 DEF CalleeGone, HopInv, ChannelEvents, TypeOK
  <2>2. (\A x : Has(a, x)' <=> Has(a, x) \/ x = "destroyed") /\ \A i \in DOMAIN inbox'[a] : inbox'[a][i] = "answered" => i = 1
    BY <1>1, <2>1, AppendLeaves
  <2> QED  BY <1>1, <2>1, <2>2 DEF HopInv, Answering, MetaOf
<1>7. CASE EventsLost(a)
  <2>1. "events" \in scenario.faults /\ inbox'[a] = <<>> /\ chan' = chan
    BY <1>1, <1>7 DEF EventsLost, TypeOK
  <2> QED  BY <1>1, <2>1 DEF HopInv, Answering, Has, MetaOf
<1> QED
  BY <1>3, <1>4, <1>5, <1>6, <1>7 DEF AsteriskStep

LEMMA SchedHop ==
  ASSUME Shape, \A b \in Attempts : HopInv(b), SchedStep
  PROVE  \A b \in Attempts : HopInv(b)'
<1>1. TypeOK /\ SchedInv /\ sched \in Turn /\ meta \in [Attempts -> {"none", "created", "known", "ghost"}]
  BY DEF Shape, TypeOK
<1> USE DEF tracking, tasks, asterisk, bounds
<1>2. ASSUME UNCHANGED <<scenario, meta, awaiting, channels, handler, destroyer, session, chan, inbox>>
      PROVE  \A b \in Attempts : HopInv(b)'
  BY <1>2, LeavesHop DEF Leaves
<1>3. CASE \/ (\E c \in Campaigns : SchedList(c)) \/ (\E S \in SUBSET Attempts : SchedWatch(S))
           \/ (\E l \in Leads : SchedLease(l)) \/ (\E b \in Attempts : SchedCreate(b))
           \/ (\E m \in sched.metas : SchedMeta(m))
  <2> DEFINE Idle == UNCHANGED <<tracking, tasks, asterisk, bounds>>
  <2>1. ASSUME NEW c \in Campaigns, SchedList(c) PROVE Idle
    BY <2>1 DEF SchedList
  <2>2. ASSUME NEW S \in SUBSET Attempts, SchedWatch(S) PROVE Idle
    BY <2>2 DEF SchedWatch
  <2>3. ASSUME NEW l \in Leads, SchedLease(l) PROVE Idle
    BY <2>3 DEF SchedLease
  <2>4. ASSUME NEW b \in Attempts, SchedCreate(b) PROVE Idle
    BY <2>4 DEF SchedCreate
  <2>5. ASSUME NEW m \in sched.metas, SchedMeta(m) PROVE Idle
    BY <2>5 DEF SchedMeta
  <2>6. Idle
    BY <1>3, <2>1, <2>2, <2>3, <2>4, <2>5
  <2> QED  BY <1>2, <2>6
<1>9. CASE SchedFull \/ SchedCount \/ SchedNoLead \/ SchedStats \/ SchedComplete
  BY <1>2, <1>9 DEF SchedFull, SchedCount, SchedNoLead, SchedStats, SchedComplete
<1>10. CASE SchedRefused \/ SchedRaises \/ SchedStale
  BY <1>2, <1>10 DEF SchedRefused, SchedRaises, SchedStale
<1>4. CASE SchedUnmarked \/ SchedRefusedLead \/ SchedStaleLead
  <2>1. /\ UNCHANGED <<scenario, awaiting, handler, destroyer, session, chan, inbox>>
        /\ meta' = [meta EXCEPT ![sched.attempt] = "none"]
        /\ channels' \in {channels, channels \ {sched.attempt}}
    BY <1>4 DEF SchedUnmarked, SchedRefusedLead, SchedStaleLead
  <2>2. ASSUME NEW b \in Attempts PROVE Leaves(b)
    BY <1>1, <2>1 DEF Leaves
  <2> QED  BY <2>2, LeavesHop
<1>5. CASE SchedMark
  <2>1. PICK a \in Attempts :
            /\ UNCHANGED <<scenario, awaiting, channels, handler, destroyer, session, chan, inbox>>
            /\ meta' = [meta EXCEPT ![a] = "created"] /\ chan[a] = "none"
    BY <1>1, <1>5 DEF SchedMark, SchedInv
  <2>2. ASSUME NEW b \in Attempts \ {a} PROVE Leaves(b)
    BY <1>1, <2>1, <2>2 DEF Leaves
  <2>3. HopInv(a)'
    <3>1. HopInv(a) /\ inbox[a] = <<>> /\ handler[a].pc = "none" /\ a \notin awaiting /\ meta'[a] = "created"
      BY <1>1, <2>1 DEF HopInv
    <3> QED  BY <2>1, <3>1 DEF HopInv, Answering, Has, AmdAt
  <2> QED  BY <2>2, <2>3, LeavesHop
<1>6. CASE SchedOriginate
  <2>1. PICK a \in Attempts :
            /\ UNCHANGED <<scenario, meta, awaiting, channels, handler, destroyer, session, inbox>>
            /\ chan[a] = "none" /\ (chan' = chan \/ chan' = [chan EXCEPT ![a] = "ringing"])
    BY <1>1, <1>6 DEF SchedOriginate, SchedInv
  <2>2. ASSUME NEW b \in Attempts \ {a} PROVE Leaves(b)
    BY <1>1, <2>1, <2>2 DEF Leaves, TypeOK
  <2>3. HopInv(a)'
    <3>1. HopInv(a) /\ chan'[a] \in {"none", "ringing"}
      BY <1>1, <2>1 DEF TypeOK
    <3> QED  BY <2>1, <3>1 DEF HopInv, Answering, Has, AmdAt, HopEnds, MetaOf
  <2> QED  BY <2>2, <2>3, LeavesHop
<1>7. CASE SchedOriginated
  <2>1. PICK a \in Attempts :
            /\ UNCHANGED <<scenario, awaiting, handler, destroyer, session, chan, inbox>>
            /\ channels' = channels \cup {a}
            /\ meta' = [meta EXCEPT ![a] = IF @ \in {"none", "ghost"} THEN "ghost" ELSE "known"]
    BY <1>1, <1>7 DEF SchedOriginated, SchedInv
  <2>2. ASSUME NEW b \in Attempts \ {a} PROVE Leaves(b)
    BY <1>1, <2>1, <2>2 DEF Leaves
  <2>3. HopInv(a)'
    <3>1. /\ HopInv(a) /\ a \in channels' /\ meta'[a] # "created" /\ (MetaOf(a)' <=> MetaOf(a))
      BY <1>1, <2>1 DEF MetaOf
    <3>2. (\A e : Has(a, e)' <=> Has(a, e)) /\ (HopEnds(a)' <=> HopEnds(a)) /\ (Answering(a)' <=> Answering(a))
      BY <2>1 DEF Has, HopEnds, Answering
    <3> QED  BY <2>1, <3>1, <3>2 DEF HopInv
  <2> QED  BY <2>2, <2>3, LeavesHop
<1>8. CASE SchedProbe
  <2>1. PICK a \in Attempts :
            /\ UNCHANGED <<scenario, meta, awaiting, channels, handler, destroyer, session>>
            /\ chan[a] # "none" /\ (UNCHANGED asterisk \/ HangUp(a))
    BY <1>1, <1>8 DEF SchedProbe, SchedInv
  <2>2. CASE UNCHANGED asterisk
    BY <1>2, <2>1, <2>2
  <2>3. CASE HangUp(a)
    <3>1. chan'[a] = "gone" /\ \A b \in Attempts \ {a} : chan'[b] = chan[b] /\ inbox'[b] = inbox[b]
      BY <1>1, <2>1, <2>3, HangUpEnds
    <3>2. ASSUME NEW b \in Attempts \ {a} PROVE Leaves(b)
      BY <2>1, <3>1 DEF Leaves
    <3>3. /\ \A x \in {"answered", "amd"} : Has(a, x)' <=> Has(a, x)
          /\ Has(a, "destroyed") \/ chan[a] = "dialplan" => Has(a, "destroyed")'
          /\ \A i \in DOMAIN inbox'[a] : inbox'[a][i] = "answered" => i = 1
      BY <1>1, <2>1, <2>3, HangUpLeaves
    <3>4. HopInv(a)
      BY <2>1
    <3>5. HopInv(a)'
      BY <2>1, <3>1, <3>3, <3>4 DEF HopInv, Answering, HopEnds, MetaOf
    <3> QED  BY <3>2, <3>5, LeavesHop
  <2> QED  BY <2>1, <2>2, <2>3
<1> QED
  BY <1>3, <1>4, <1>5, <1>6, <1>7, <1>8, <1>9, <1>10 DEF SchedStep, SchedTurn

LEMMA HopKeeps ==
  ASSUME Shape, \A b \in Attempts : HopInv(b), [Next]_vars
  PROVE  \A b \in Attempts : HopInv(b)'
<1>1. CASE UserStep
  <2>1. UNCHANGED <<tracking, tasks, asterisk, bounds>>
    BY <1>1 DEF UserStep, SetStatus, cancel_lead, ignore_lead, recycle_lead, import_leads_csv, delete_lead
  <2> QED  BY <2>1, LeavesHop DEF Leaves, tracking, tasks, asterisk, bounds
<1>2. CASE \E S \in SUBSET Attempts : Restart(S)
  <2>1. ASSUME NEW b \in Attempts
        PROVE  HopInv(b)'
    <3>1. /\ inbox'[b] = <<>> /\ handler'[b].pc = "none" /\ session'[b] = "none" /\ b \notin awaiting'
          /\ meta'[b] = "none"
      BY <1>2, <2>1 DEF Restart, NoHandler
    <3> QED  BY <3>1 DEF HopInv, Answering, Has, AmdAt, MetaOf
  <2> QED  BY <2>1
<1>3. CASE UNCHANGED vars
  BY <1>3, LeavesHop DEF Leaves, vars, tracking, tasks, asterisk, bounds
<1> QED
  BY <1>1, <1>2, <1>3, HandlersHop, AsteriskHop, SchedHop DEF Next

(* The watchdog may look at the attempt, and does not spare it. *)
Watched(a) == Stale(a) /\ a \notin awaiting /\ session[a] = "none"

(* Asterisk or a handler goes on with it. *)
UnderWay(a) ==
  \/ chan[a] \in {"ringing", "dialplan"} \/ inbox[a] # <<>> \/ handler[a].pc # "none" \/ a \in destroyer
  \/ session[a] \in {"cleaning", "saved", "removing"}

(* What SlotFreed rests on (engine.py, the watchdog that spares calls in the *)
(* AMD hop and calls with a session): unless events are lost, a tracked      *)
(* attempt that is not a conversation is being decided by someone, or the    *)
(* watchdog will drop it.                                                    *)
SlotsWatched ==
  "events" \notin scenario.faults =>
    \A a \in Attempts : MetaOf(a) /\ session[a] # "live" => UnderWay(a) \/ Watched(a)

(* For any campaigns, leads, attempts and scenarios, restarts included.     *)
THEOREM SlotsNotSpared == Safety => []SlotsWatched
<1> DEFINE Hops == \A a \in Attempts : HopInv(a)
<1>1. Init => Hops
  BY DEF Init, HopInv, Answering, Has, AmdAt, NoHandler, MetaOf
<1>2. IInv /\ Hops /\ [Next]_vars => Hops'
  BY HopKeeps DEF IInv
<1>3. ASSUME IInv, Hops
      PROVE  SlotsWatched
  <2> SUFFICES ASSUME "events" \notin scenario.faults, NEW a \in Attempts, MetaOf(a), session[a] # "live", ~UnderWay(a)
               PROVE  Watched(a)
    BY DEF SlotsWatched
  <2>1. session[a] = "none" /\ inbox[a] = <<>>
    BY <1>3 DEF UnderWay, IInv, Shape, TypeOK
  <2>2. a \notin awaiting
    <3>1. ~HopEnds(a)
      BY <2>1 DEF HopEnds, UnderWay, Has
    <3> QED  BY <1>3, <3>1 DEF HopInv
  <2> QED  BY <2>1, <2>2 DEF Watched, Stale, UnderWay, MetaOf
<1> QED
  BY <1>1, <1>2, <1>3, Invariance, PTL DEF Safety

-----------------------------------------------------------------------------
(* A lead that is dialing is followed.                                      *)

(* An attempt of the lead is tracked, and the scheduler is not giving it up *)
(* for a lead that was not leased any more.                                 *)
LeadFollowed(l) ==
  \E a \in Attempts : /\ attempt[a].lead = l /\ MetaOf(a)
                      /\ ~(sched.pc = "unmarked" /\ sched.attempt = a)

(* What DialingEnds rests on (engine.py, the scheduler, its watchdog and    *)
(* the handlers of an outbound call): whoever drops an attempt has settled  *)
(* its lead, so the lead of a call that is dialing is never forgotten.  A   *)
(* restarted engine does not follow earlier attempts.                       *)
DialingFollowed ==
  restarts = 0 => \A l \in Leads : lead[l] = "dialing" => LeadFollowed(l)

(* No lead becomes dialing, and an attempt is dropped only with its lead    *)
(* settled or because it was given up.                                      *)
FollowsOn ==
  /\ \A l \in Leads : lead'[l] = "dialing" => lead[l] = "dialing"
  /\ \A a \in Attempts : attempt[a].lead \in Leads => attempt'[a].lead = attempt[a].lead
  /\ \A a \in Attempts : MetaOf(a) /\ attempt[a].lead \in Leads =>
       MetaOf(a)' \/ lead'[attempt[a].lead] # "dialing" \/ (sched.pc = "unmarked" /\ sched.attempt = a)
  /\ sched'.pc = "unmarked" => sched' = sched
  /\ restarts' = restarts

LEMMA FollowsOnKeeps ==
  ASSUME DialingFollowed, FollowsOn
  PROVE  DialingFollowed'
<1>1. ASSUME NEW l \in Leads, restarts' = 0, lead'[l] = "dialing"
      PROVE  LeadFollowed(l)'
  <2>1. restarts = 0 /\ lead[l] = "dialing"
    BY <1>1 DEF FollowsOn
  <2>2. PICK a \in Attempts : attempt[a].lead = l /\ MetaOf(a) /\ ~(sched.pc = "unmarked" /\ sched.attempt = a)
    BY <2>1 DEF DialingFollowed, LeadFollowed
  <2>3. attempt'[a].lead = l /\ MetaOf(a)' /\ ~(sched'.pc = "unmarked" /\ sched'.attempt = a)
    BY <1>1, <2>2 DEF FollowsOn
  <2> QED  BY <2>3 DEF LeadFollowed
<1> QED
  BY <1>1 DEF DialingFollowed

LEMMA SetSettles ==
  ASSUME TypeOK, NEW x, NEW s, s # "dialing", set_lead_state(x, s)
  PROVE  \A l \in Leads : lead'[l] = "dialing" => lead[l] = "dialing" /\ l # x
BY DEF TypeOK, set_lead_state

LEMMA UsersFollow ==
  ASSUME Shape, UserStep
  PROVE  FollowsOn
<1>1. LeadsKept /\ UNCHANGED <<sched, restarts>>
  BY UsersStandBy DEF Bystander
<1>2. meta' = meta
  BY DEF UserStep, SetStatus, cancel_lead, ignore_lead, recycle_lead, import_leads_csv, delete_lead, tracking
<1>3. \A l \in Leads : lead'[l] = "dialing" => lead[l] = "dialing"
  BY DEF UserStep, SetStatus, cancel_lead, ignore_lead, recycle_lead, import_leads_csv, delete_lead, Shape, TypeOK
<1> QED
  BY <1>1, <1>2, <1>3 DEF FollowsOn, LeadsKept, MetaOf

LEMMA HandlersFollow ==
  ASSUME Shape, NEW a \in Attempts, HopInv(a), HandlerStep(a) \/ AsteriskStep(a)
  PROVE  FollowsOn
<1>1. LeadsKept /\ UNCHANGED <<sched, restarts>>
  BY HandlersTouch, AsteriskTouches DEF Touches
<1>2. TypeOK /\ meta \in [Attempts -> {"none", "created", "known", "ghost"}]
  BY DEF Shape, TypeOK
<1>3. ASSUME UNCHANGED lead, \A b \in Attempts : MetaOf(b) => MetaOf(b)'
      PROVE  FollowsOn
  BY <1>1, <1>3 DEF FollowsOn, LeadsKept
<1>4. ASSUME NEW s, s # "dialing", set_lead_state(attempt[a].lead, s),
             meta' = meta \/ meta' = [meta EXCEPT ![a] = "none"]
      PROVE  FollowsOn
  <2>1. \A l \in Leads : lead'[l] = "dialing" => lead[l] = "dialing" /\ l # attempt[a].lead
    BY <1>2, <1>4, SetSettles
  <2>2. \A b \in Attempts : b # a => meta'[b] = meta[b]
    BY <1>2, <1>4
  <2> QED  BY <1>1, <2>1, <2>2 DEF FollowsOn, LeadsKept, MetaOf
<1>5. CASE HandleAnswered(a)
  BY <1>2, <1>3, <1>5 DEF HandleAnswered, MetaOf, store
<1>6. CASE \/ AnsweredContinue(a) \/ ContinueRefused(a) \/ AmdFinish(a) \/ Attach(a) \/ HandleEnd(a)
           \/ HandleDestroyed(a) \/ PersistAttempt(a) \/ RemoveSession(a)
           \/ \E result \in {"voicemail", "declined", "human"} : HandleAmd(a, result)
  <2>1. UNCHANGED <<lead, meta>>
    BY <1>6 DEF AnsweredContinue, ContinueRefused, AmdFinish, Attach, HandleEnd, HandleDestroyed, PersistAttempt,
                RemoveSession, HandleAmd, store, tracking
  <2> QED  BY <1>3, <2>1 DEF MetaOf
<1>7. CASE AnsweredLead(a) \/ ContinueRefusedLead(a)
  BY <1>4, <1>7 DEF AnsweredLead, ContinueRefusedLead, tracking
<1>8. CASE DestroyedLead(a) \/ \E s \in {"completed", "failed"} : PersistLead(a, s)
  BY <1>4, <1>8 DEF DestroyedLead, PersistLead
<1>9. CASE AmdHuman(a)
  BY <1>3, <1>4, <1>9 DEF AmdHuman, tracking, MetaOf
<1>10. CASE AmdFinishLead(a)
  <2>1. CASE handler[a].known
    BY <1>4, <1>10, <2>1 DEF AmdFinishLead
  <2>2. CASE ~handler[a].known
    <3>1. lead' = lead /\ ~MetaOf(a) /\ meta' = [meta EXCEPT ![a] = "none"]
      BY <1>10, <2>2 DEF AmdFinishLead, HopInv, AmdAt
    <3> QED  BY <1>2, <1>3, <3>1 DEF MetaOf
  <2> QED  BY <2>1, <2>2
<1>11. CASE AsteriskStep(a)
  <2>1. UNCHANGED <<lead, meta>>
    BY <1>11 DEF AsteriskStep, CalleeAnswers, DialplanReturns, CalleeGone, EventsLost, store, tracking
  <2> QED  BY <1>3, <2>1 DEF MetaOf
<1> QED
  BY <1>5, <1>6, <1>7, <1>8, <1>9, <1>10, <1>11 DEF HandlerStep

(* What the scheduler knows: it has not tracked the attempt it just made,   *)
(* and the lead the watchdog gives up is the attempt's.                     *)
SchedKnows ==
  /\ sched.pc = "created" => ~MetaOf(sched.attempt)
  /\ sched.pc \in {"probe", "stale", "stale_lead"} => sched.lead = attempt[sched.attempt].lead

LEMMA OthersKnow ==
  ASSUME Shape, SchedKnows, Bystander
  PROVE  SchedKnows'
<1>1. sched.pc \in {"created", "probe", "stale", "stale_lead"} => sched.attempt \in Attempts
  BY DEF Shape, SchedInv
<1> QED
  BY <1>1 DEF SchedKnows, Bystander, TrackingShrinks, LeadsKept

LEMMA SchedFollows ==
  ASSUME Shape, SchedKnows, DialingFollowed, SchedStep
  PROVE  SchedKnows' /\ DialingFollowed'
<1>1. /\ TypeOK /\ SchedInv /\ sched \in Turn /\ meta \in [Attempts -> {"none", "created", "known", "ghost"}]
      /\ attempt \in [Attempts -> AttemptRow] /\ lead \in [Leads -> LeadStates]
  BY DEF Shape, TypeOK
<1> USE DEF store, tracking, bounds
<1>0. NextMeta.pc \in {"idle", "watch"}
  BY DEF NextMeta, Resting
<1> DEFINE Goal == SchedKnows' /\ DialingFollowed'
<1>2. ASSUME FollowsOn, sched'.pc \notin {"created", "probe", "stale", "stale_lead"}
      PROVE  Goal
  BY <1>2, FollowsOnKeeps DEF SchedKnows
<1>3. ASSUME UNCHANGED <<lead, attempt, meta, restarts>>, sched'.pc # "unmarked"
      PROVE  FollowsOn
  BY <1>3 DEF FollowsOn, MetaOf
<1>4. ASSUME NEW c \in Campaigns, SchedList(c) PROVE Goal
  BY <1>2, <1>3, <1>4 DEF SchedList, Resting
<1>5. ASSUME NEW S \in SUBSET Attempts, SchedWatch(S) PROVE Goal
  BY <1>2, <1>3, <1>5 DEF SchedWatch, Resting
<1>6. ASSUME NEW l \in Leads, SchedLease(l) PROVE Goal
  <2>1. /\ UNCHANGED <<attempt, meta, restarts>> /\ lead' = [lead EXCEPT ![l] = "leased"] /\ sched'.pc = "leased"
    BY <1>1, <1>6 DEF SchedLease, Turn
  <2>2. FollowsOn
    BY <1>1, <2>1 DEF FollowsOn, MetaOf
  <2> QED  BY <1>2, <2>1, <2>2
<1>7. ASSUME NEW a \in Attempts, SchedCreate(a) PROVE Goal
  <2>1. /\ UNCHANGED <<lead, meta, restarts>> /\ attempt[a].lead = NoLead
        /\ attempt' = [attempt EXCEPT ![a] = [lead |-> sched.lead, open |-> TRUE]]
        /\ sched'.pc = "created" /\ sched'.attempt = a
    BY <1>1, <1>7 DEF SchedCreate, create_attempt, Turn
  <2>2. FollowsOn
    BY <1>1, <2>1, NoValues DEF FollowsOn, MetaOf
  <2>3. meta[a] = "none"
    BY <2>1 DEF Shape, AttemptInv, Used
  <2> QED  BY <2>1, <2>2, <2>3, FollowsOnKeeps DEF SchedKnows, MetaOf
<1>8. CASE SchedFull \/ SchedCount \/ SchedNoLead \/ SchedStats
  <2>1. UNCHANGED <<lead, attempt, meta, restarts>>
    BY <1>8 DEF SchedFull, SchedCount, SchedNoLead, SchedStats
  <2>2. sched'.pc \in {"idle", "counted", "stats", "completing"}
    <3>1. CASE SchedFull
      BY <3>1 DEF SchedFull, Resting
    <3>2. CASE SchedCount
      BY <1>1, <3>2 DEF SchedCount, Turn
    <3>3. CASE SchedNoLead
      BY <1>1, <3>3 DEF SchedNoLead, Resting, Turn
    <3>4. CASE SchedStats
      BY <1>1, <3>4 DEF SchedStats, Resting, Turn
    <3> QED  BY <1>8, <3>1, <3>2, <3>3, <3>4
  <2> QED  BY <1>2, <1>3, <2>1, <2>2
<1>9. CASE SchedComplete \/ SchedRaises
  <2>1. UNCHANGED <<lead, attempt, meta, restarts>> /\ sched'.pc = "idle"
    BY <1>9 DEF SchedComplete, SchedRaises, Resting
  <2> QED  BY <1>2, <1>3, <2>1
<1>10. CASE SchedMark
  <2>1. PICK a \in Attempts : /\ a = sched.attempt /\ ~MetaOf(a) /\ attempt[a].lead = sched.lead
                              /\ meta' = [meta EXCEPT ![a] = "created"] /\ UNCHANGED <<attempt, restarts>>
    BY <1>10 DEF SchedMark, SchedKnows, Shape, SchedInv
  <2>2. /\ lead' = [lead EXCEPT ![sched.lead] = IF Leased(sched.lead) THEN "dialing" ELSE @]
        /\ sched'.pc = IF Leased(sched.lead) THEN "marked" ELSE "unmarked"
        /\ sched'.attempt = a /\ sched.lead \in Leads
    BY <1>1, <1>10, <2>1 DEF SchedMark, mark_lead_dialing, Turn, SchedInv
  <2>3. \A b \in Attempts : (MetaOf(b) => MetaOf(b)' /\ b # a) /\ MetaOf(a)'
    BY <1>1, <2>1 DEF MetaOf
  <2>4. ASSUME NEW l \in Leads, restarts = 0, lead[l] = "dialing"
        PROVE  LeadFollowed(l)'
    <3>1. PICK b \in Attempts : attempt[b].lead = l /\ MetaOf(b)
      BY <2>4 DEF DialingFollowed, LeadFollowed
    <3>2. attempt'[b].lead = l /\ MetaOf(b)' /\ b # a
      BY <2>1, <2>3, <3>1
    <3> QED  BY <2>2, <3>2 DEF LeadFollowed
  <2>5. ASSUME NEW l \in Leads, l = sched.lead, Leased(l)
        PROVE  LeadFollowed(l)'
    <3>1. attempt'[a].lead = l /\ MetaOf(a)' /\ sched'.pc = "marked"
      BY <2>1, <2>2, <2>3, <2>5
    <3> QED  BY <3>1 DEF LeadFollowed
  <2>6. ASSUME NEW l \in Leads, lead'[l] = "dialing"
        PROVE  lead[l] = "dialing" \/ (l = sched.lead /\ Leased(l))
    BY <1>1, <2>2, <2>6
  <2> QED  BY <2>1, <2>2, <2>4, <2>5, <2>6 DEF DialingFollowed, SchedKnows
<1>11. CASE SchedUnmarked
  <2>1. LeadsKept
    BY <1>1, <1>11, FinishKeeps DEF SchedUnmarked
  <2>2. UNCHANGED <<lead, restarts>> /\ meta' = [meta EXCEPT ![sched.attempt] = "none"] /\ sched'.pc = "idle"
        /\ sched.pc = "unmarked"
    BY <1>11 DEF SchedUnmarked, Resting
  <2>3. FollowsOn
    BY <1>1, <2>1, <2>2 DEF FollowsOn, LeadsKept, MetaOf
  <2> QED  BY <1>2, <2>2, <2>3
<1>12. CASE SchedOriginate
  <2>1. UNCHANGED <<lead, attempt, meta, restarts>> /\ sched'.pc = "originating"
    BY <1>1, <1>12 DEF SchedOriginate, Turn
  <2> QED  BY <1>2, <1>3, <2>1
<1>13. CASE SchedOriginated
  <2>1. UNCHANGED <<lead, attempt, restarts>> /\ sched'.pc = "idle"
        /\ meta' = [meta EXCEPT ![sched.attempt] = IF @ \in {"none", "ghost"} THEN "ghost" ELSE "known"]
    BY <1>13 DEF SchedOriginated, Resting
  <2>2. FollowsOn
    BY <1>1, <2>1 DEF FollowsOn, MetaOf
  <2> QED  BY <1>2, <2>1, <2>2
<1>14. CASE SchedRefused \/ SchedStale
  <2>1. LeadsKept
    BY <1>1, <1>14, FinishKeeps DEF SchedRefused, SchedStale
  <2>2. UNCHANGED <<lead, meta, restarts>> /\ sched'.pc \in {"refused", "stale_lead"}
        /\ (sched'.pc = "stale_lead" => sched.pc = "stale" /\ sched'.lead = sched.lead /\ sched'.attempt = sched.attempt)
    BY <1>1, <1>14 DEF SchedRefused, SchedStale, Turn
  <2>3. FollowsOn
    BY <2>1, <2>2 DEF FollowsOn, LeadsKept, MetaOf
  <2>4. sched.pc = "stale" => sched.attempt \in Attempts
    BY <1>1 DEF SchedInv
  <2> QED  BY <2>1, <2>2, <2>3, <2>4, FollowsOnKeeps DEF SchedKnows, LeadsKept
<1>15. CASE SchedRefusedLead \/ SchedStaleLead
  <2>1. /\ UNCHANGED <<attempt, restarts>> /\ sched'.pc \in {"idle", "watch"}
        /\ meta' = [meta EXCEPT ![sched.attempt] = "none"]
        /\ set_lead_state(sched.lead, "failed") /\ sched.lead = attempt[sched.attempt].lead
    <3>1. CASE SchedRefusedLead
      BY <1>1, <3>1 DEF SchedRefusedLead, Resting, SchedInv
    <3>2. CASE SchedStaleLead
      BY <1>0, <3>2 DEF SchedStaleLead, SchedKnows
    <3> QED  BY <1>15, <3>1, <3>2
  <2>2. \A l \in Leads : lead'[l] = "dialing" => lead[l] = "dialing" /\ l # attempt[sched.attempt].lead
    BY <1>1, <2>1, SetSettles
  <2>3. FollowsOn
    BY <1>1, <2>1, <2>2 DEF FollowsOn, MetaOf
  <2> QED  BY <1>2, <2>1, <2>3
<1>16. ASSUME NEW m \in sched.metas, SchedMeta(m) PROVE Goal
  <2>1. UNCHANGED <<lead, attempt, meta, restarts>> /\ sched.pc = "watch"
    BY <1>16 DEF SchedMeta
  <2>2. \/ sched'.pc \in {"idle", "watch"}
        \/ /\ sched'.pc \in {"probe", "stale"} /\ sched'.attempt = m.attempt
           /\ sched'.lead = attempt[m.attempt].lead
    BY <1>1, <1>16 DEF SchedMeta, Resting, Turn
  <2> QED  BY <1>3, <2>1, <2>2, FollowsOnKeeps DEF SchedKnows
<1>17. CASE SchedProbe
  <2>1. UNCHANGED <<lead, attempt, meta, restarts>> /\ sched.pc = "probe"
    BY <1>17 DEF SchedProbe
  <2>2. \/ sched'.pc \in {"idle", "watch"}
        \/ sched'.pc = "stale" /\ sched'.attempt = sched.attempt /\ sched'.lead = sched.lead
    BY <1>0, <1>1, <1>17 DEF SchedProbe, Turn
  <2> QED  BY <1>3, <2>1, <2>2, FollowsOnKeeps DEF SchedKnows
<1> QED
  BY <1>4, <1>5, <1>6, <1>7, <1>8, <1>9, <1>10, <1>11, <1>12, <1>13, <1>14, <1>15, <1>16, <1>17
     DEF SchedStep, SchedTurn

(* For any campaigns, leads, attempts and scenarios, until the engine       *)
(* restarts.                                                                *)
THEOREM LeadsFollowed == Safety => []DialingFollowed
<1> DEFINE Hops == \A a \in Attempts : HopInv(a)
<1>1. Init => Hops /\ SchedKnows /\ DialingFollowed
  BY DEF Init, Resting, HopInv, Answering, Has, AmdAt, NoHandler, MetaOf, SchedKnows, DialingFollowed
<1>2. ASSUME IInv, Hops, SchedKnows, DialingFollowed, [Next]_vars
      PROVE  SchedKnows' /\ DialingFollowed'
  <2>1. CASE UserStep
    BY <1>2, <2>1, UsersStandBy, OthersKnow, UsersFollow, FollowsOnKeeps DEF IInv
  <2>2. ASSUME NEW a \in Attempts, HandlerStep(a) \/ AsteriskStep(a)
        PROVE  SchedKnows' /\ DialingFollowed'
    <3>1. Shape /\ Bystander
      BY <1>2, <2>2, HandlersTouch, AsteriskTouches, TouchingStandsBy DEF IInv
    <3>2. FollowsOn
      BY <1>2, <2>2, <3>1, HandlersFollow
    <3> QED  BY <1>2, <3>1, <3>2, OthersKnow, FollowsOnKeeps
  <2>3. CASE SchedStep
    BY <1>2, <2>3, SchedFollows DEF IInv
  <2>4. CASE \E S \in SUBSET Attempts : Restart(S)
    <3>1. restarts \in Nat /\ restarts' = restarts + 1 /\ sched'.pc = "idle"
      BY <1>2, <2>4, ScenariosType DEF Restart, Resting, IInv, Shape, TypeOK
    <3> QED  BY <3>1 DEF SchedKnows, DialingFollowed
  <2>5. CASE UNCHANGED vars
    BY <1>2, <2>5 DEF SchedKnows, DialingFollowed, LeadFollowed, MetaOf, vars, store, tracking, bounds
  <2> QED  BY <1>2, <2>1, <2>2, <2>3, <2>4, <2>5 DEF Next
<1>3. IInv /\ Hops /\ [Next]_vars => Hops'
  BY HopKeeps DEF IInv
<1> QED
  BY <1>1, <1>2, <1>3, Invariance, PTL DEF Safety
=============================================================================
