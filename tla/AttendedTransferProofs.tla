------------------------ MODULE AttendedTransferProofs ------------------------
(***************************************************************************)
(* For any number of requests: a transfer that is over leaves the caller   *)
(* neither on hold nor unheard, a call that is over no agent on the line,  *)
(* an agent who was given up never ends the call, and a transfer that is   *)
(* on is being decided.                                                    *)
(***************************************************************************)
EXTENDS AttendedTransfer, TLAPS

-----------------------------------------------------------------------------
(* The inductive invariant, part by part.                                   *)

(* No request overlapped another, and nothing came after the cleanup had    *)
(* passed it by.                                                            *)
Clean == Orderly /\ "late" \notin odd

(* Nothing of the call has been cancelled, and its session is there.        *)
Intact  == cleanup \in {"none", "begun"}
Present == cleanup # "over"

(* The handler of leg k is between its first step and its last.             *)
InHand(k) == h[k] \notin {"none", "answered", "done"}

(* Something of request k is still under way. *)
Busy(k) ==
    flow[k] \notin {"none", "done"} \/ h[k] \notin {"none", "done"} \/ Alive(k) \/ k \in giving

(* The order of one request. *)
InOrder ==
    \A k \in Legs :
        /\ flow[k] \in {"none", "collect", "hold", "dial"} =>
               leg[k] = "none" /\ k \notin mapped \cup guard \cup giving /\ action.leg # k
        /\ leg[k] \in {"none", "dialing"} => h[k] = "none"
        /\ k \in guard \cup giving => flow[k] = "done"

(* One request at a time, and the action names its leg or none yet. *)
OneRequest ==
    /\ \A j, k \in Legs : Busy(j) /\ Busy(k) => j = k
    /\ \A k \in Legs : Busy(k) => action.leg \in {0, k}

(* The session goes last, the AI before the action is read.                 *)
EndsInOrder ==
    /\ Present => stored
    /\ ai => cleanup \in {"none", "begun", "cancelled"}
    /\ "late" \in odd => ~Intact

(* What is under way has its action; a leg loses its request only to the    *)
(* cleanup.                                                                 *)
Pursued ==
    Present => \A k \in Legs :
        /\ flow[k] \in {"collect", "hold", "dial"} => action.on
        /\ Alive(k) /\ Intact => action.on /\ (action.leg = k \/ flow[k] = "register")
        /\ InHand(k) => action.on /\ action.answered /\ action.leg = k

(* Only the leg of the action is mapped, and neither the cancellation nor   *)
(* the guard leaves it so.                                                  *)
MappedOwn ==
    Present =>
        /\ \A k \in mapped : action.on /\ action.leg = k
        /\ cancel # Idle \/ giving # {} => mapped = {}

(* Who gives a transfer up leaves no agent who could still be connected. *)
GivenUp ==
    Present =>
        /\ cancel # Idle => \A k \in Legs :
               Alive(k) => action.leg # k /\ (Intact => flow[k] = "register")
        /\ giving # {} => \A k \in Legs : ~Alive(k) /\ ~InHand(k)

(* The caller waits only while the action says so, and what was switched    *)
(* off is known to it.                                                      *)
HeldByAction ==
    /\ \A k \in Legs : h[k] = "resume" => ~moh /\ ~Alive(k)
    /\ "deaf" \notin odd /\ Present =>
           /\ \A k \in Legs : flow[k] = "dial" => action.prior = "on"
           /\ ai /\ caller = "up" /\ (moh \/ ~(capture \/ speaking)) => action.on

(* Helper media and agents on the line belong to a handler at work.  The    *)
(* cleanup finds them by the action, and by what it has read of it.         *)
Followed ==
    /\ helper \subseteq {k \in Legs : h[k] \in {"announce", "wait", "failed", "declined", "finalize"}}
    /\ ActionRead => helper = {}
    /\ \A k \in Legs : leg[k] \in {"up", "bridged"} =>
           \/ h[k] = "answered"
           \/ ~ActionRead /\ action.leg = k
           \/ cleanup = "read" /\ read = k

Undisturbed ==
    OneRequest /\ Pursued /\ MappedOwn /\ GivenUp /\ HeldByAction /\ Followed

IInv == TypeOK /\ InOrder /\ EndsInOrder /\ (Clean => Undisturbed)

-----------------------------------------------------------------------------
(* Types.                                                                   *)

LEMMA Arithmetic == MaxLegs \in Nat /\ 0 \notin Legs /\ 0 \in 0 .. MaxLegs /\ Legs \subseteq 0 .. MaxLegs
BY TransferAssumption DEF Legs

LEMMA ActionWith ==
    ASSUME NEW a \in Actions
    PROVE  /\ Off \in Actions /\ [Off EXCEPT !.on = TRUE] \in Actions
           /\ \A p \in {"on", "off"} : [a EXCEPT !.prior = p] \in Actions
           /\ \A k \in Legs : /\ [a EXCEPT !.leg = k] \in Actions
                              /\ [a EXCEPT !.answered = TRUE, !.leg = k] \in Actions
                              /\ [a EXCEPT !.answered = TRUE, !.leg = k, !.decision = "accepted"] \in Actions
           /\ \A d \in {"accepted", "declined"} : [a EXCEPT !.decision = d] \in Actions
BY Arithmetic DEF Actions, Off

LEMMA HungUpType ==
    ASSUME TypeOK, NEW k \in 0 .. MaxLegs, LegHungUp(k)
    PROVE  leg' \in [Legs -> LegAt] /\ ended' \subseteq Legs
<1>1. leg \in [Legs -> LegAt] /\ ended \subseteq Legs /\ (k # 0 => k \in Legs)
  BY Arithmetic DEF TypeOK, Legs
<1> QED
  BY <1>1 DEF LegHungUp, LegAt

LEMMA UnregisteredType ==
    ASSUME TypeOK, NEW k \in 0 .. MaxLegs, Unregistered(k)
    PROVE  mapped' \subseteq Legs /\ digit' \in [Legs -> {"none", "accept", "other"}]
BY Arithmetic DEF TypeOK, Legs, Unregistered

LEMMA CleanupType ==
    ASSUME TypeOK, Cleanup \/ ToolsDie \/ CallerEnded \/ \E k \in Legs : LegEnded(k)
    PROVE  TypeOK'
<1> USE DEF TypeOK, shared, channels, fixed, ending, CleanupAt
<1>1. action.leg \in 0 .. MaxLegs
  BY DEF Actions
<1>2. CASE CleanupCancels
  <2>1. flow' \in [Legs -> FlowAt] /\ speaking' \in BOOLEAN /\ capture' \in BOOLEAN
    BY <1>2 DEF CleanupCancels, FlowAt
  <2> QED
    BY <1>2, <2>1 DEF CleanupCancels
<1>3. CASE CleanupStops \/ CleanupReads \/ CleanupFrees
  BY <1>1, <1>3 DEF CleanupStops, CleanupReads, CleanupFrees
<1>4. CASE CleanupReleases
  <2>1. leg' \in [Legs -> LegAt] /\ ended' \subseteq Legs
    BY <1>4, HungUpType DEF CleanupReleases
  <2> QED
    BY <1>4, <2>1 DEF CleanupReleases
<1>5. CASE CleanupRemoves
  <2>1. h' \in [Legs -> HandlerAt] /\ digit' \in [Legs -> {"none", "accept", "other"}]
    BY <1>5 DEF CleanupRemoves, Interrupted, HandlerAt
  <2> QED
    BY <1>5, <2>1 DEF CleanupRemoves
<1>6. CASE ToolsDie
  <2>1. flow' \in [Legs -> FlowAt] /\ cancel' \in 0 .. 1
    BY <1>6 DEF ToolsDie, FlowAt, Idle
  <2> QED
    BY <1>6, <2>1 DEF ToolsDie
<1>7. CASE CallerEnded
  BY <1>7 DEF CallerEnded
<1>8. ASSUME NEW k \in Legs, LegEnded(k)
      PROVE  TypeOK'
  <2>1. cleanup' \in CleanupAt /\ ended' \subseteq Legs
    BY <1>8 DEF LegEnded
  <2> QED
    BY <1>8, <2>1 DEF LegEnded
<1> QED
  BY <1>2, <1>3, <1>4, <1>5, <1>6, <1>7, <1>8 DEF Cleanup

LEMMA TypeKeeps ==
    ASSUME TypeOK, Next
    PROVE  TypeOK'
<1> USE Arithmetic DEF TypeOK, shared, channels, fixed, ending, NoLegChange, NoMapChange
<1>1. action \in Actions /\ action.leg \in 0 .. MaxLegs
  BY DEF Actions
<1>2. /\ Off \in Actions /\ [Off EXCEPT !.on = TRUE] \in Actions
      /\ \A p \in {"on", "off"} : [action EXCEPT !.prior = p] \in Actions
      /\ \A k \in Legs : /\ [action EXCEPT !.leg = k] \in Actions
                         /\ [action EXCEPT !.answered = TRUE, !.leg = k] \in Actions
                         /\ [action EXCEPT !.answered = TRUE, !.leg = k, !.decision = "accepted"] \in Actions
      /\ \A d \in {"accepted", "declined"} : [action EXCEPT !.decision = d] \in Actions
  BY <1>1, ActionWith
<1>3. ASSUME NEW k \in Legs, Asked(k)
      PROVE  TypeOK'
  BY <1>2, <1>3 DEF Asked, FlowAt
<1>4. ASSUME NEW k \in Legs, Collected(k)
      PROVE  TypeOK'
  BY <1>4 DEF Collected, FlowAt
<1>5. ASSUME NEW k \in Legs, Holds(k)
      PROVE  TypeOK'
  BY <1>2, <1>5 DEF Holds, FlowAt
<1>6. ASSUME NEW k \in Legs, Dials(k)
      PROVE  TypeOK'
  BY <1>6 DEF Dials, FlowAt, LegAt
<1>7. ASSUME NEW k \in Legs, OriginateFails(k)
      PROVE  TypeOK'
  BY <1>2, <1>7 DEF OriginateFails, FlowAt
<1>8. ASSUME NEW k \in Legs, Registers(k)
      PROVE  TypeOK'
  BY <1>2, <1>8 DEF Registers, FlowAt
<1>9. ASSUME NEW k \in Legs, GuardFires(k)
      PROVE  TypeOK'
  <2>1. leg' \in [Legs -> LegAt] /\ ended' \subseteq Legs
    BY <1>9, HungUpType DEF GuardFires
  <2>2. mapped' \subseteq Legs /\ digit' \in [Legs -> {"none", "accept", "other"}]
    BY <1>9, UnregisteredType DEF GuardFires
  <2> QED
    BY <1>9, <2>1, <2>2 DEF GuardFires
<1>10. ASSUME NEW k \in Legs, GuardClears(k)
       PROVE  TypeOK'
  BY <1>2, <1>10 DEF GuardClears
<1>11. CASE CancelReads
  <2>1. leg' \in [Legs -> LegAt] /\ ended' \subseteq Legs
    BY <1>1, <1>11, HungUpType DEF CancelReads
  <2>2. mapped' \subseteq Legs /\ digit' \in [Legs -> {"none", "accept", "other"}]
    BY <1>1, <1>11, UnregisteredType DEF CancelReads
  <2> QED
    BY <1>11, <2>1, <2>2 DEF CancelReads
<1>12. CASE CancelClears
  <2>1. odd' \subseteq {"double", "crossed", "deaf", "late", "refused"}
    BY <1>12 DEF CancelClears
  <2>2. action' = Off /\ cancel' = 0 /\ moh' = FALSE /\ capture' = TRUE /\ stored' = TRUE
        /\ UNCHANGED <<fixed, ending, caller, ai, speaking, channels, flow, h, giving>>
    BY <1>12 DEF CancelClears, Idle
  <2>3. action' \in Actions /\ cancel' \in 0 .. 1
    <3>1. action' = Off /\ Off \in Actions
      BY <1>2, <2>2
    <3>2. cancel' = 0
      BY <2>2
    <3> QED
      BY <3>1, <3>2
  <2>4. UNCHANGED <<screening, streaming, cleanup, read, caller, ai, speaking, leg, ended, mapped, digit, guard,
                    helper, flow, h, giving>>
    BY <2>2
  <2> QED
    BY <2>1, <2>2, <2>3, <2>4
<1>13. ASSUME NEW k \in Legs, Agent(k)
       PROVE  TypeOK'
  <2>1. CASE AgentAnswers(k)
    BY <1>2, <2>1 DEF AgentAnswers, Steps, LegAt, HandlerAt
  <2>2. CASE AgentEnds(k)
    BY <2>2, HungUpType DEF AgentEnds
  <2>3. CASE AgentPresses(k)
    BY <2>3 DEF AgentPresses
  <2> QED
    BY <1>13, <2>1, <2>2, <2>3 DEF Agent
<1>14. ASSUME NEW k \in Legs, Answered(k)
       PROVE  TypeOK'
  <2>1. leg' \in [Legs -> LegAt] /\ ended' \subseteq Legs
    BY <1>14, HungUpType DEF Answered
  <2>2. mapped' \subseteq Legs /\ digit' \in [Legs -> {"none", "accept", "other"}]
    BY <1>14, UnregisteredType DEF Answered
  <2>3. action' \in Actions
    BY <1>2, <1>14 DEF Answered
  <2> QED
    BY <1>14, <2>1, <2>2, <2>3 DEF Answered, Steps, HandlerAt
<1>15. ASSUME NEW k \in Legs, HelperStarts(k) \/ Announced(k) \/ Finalizes(k)
       PROVE  TypeOK'
  <2>1. h' \in [Legs -> HandlerAt]
    BY <1>15 DEF HelperStarts, Announced, Finalizes, Steps, HandlerAt
  <2>2. helper' \subseteq Legs
    BY <1>15 DEF HelperStarts, Announced, Finalizes
  <2>3. moh' \in {moh, FALSE} /\ ai' \in {ai, FALSE} /\ odd' \subseteq odd \cup {"late"}
    BY <1>15 DEF HelperStarts, Announced, Finalizes
  <2>4. UNCHANGED <<fixed, ending, caller, stored, capture, speaking, action, leg, ended, mapped, digit,
                    guard, flow, giving, cancel>>
    BY <1>15 DEF HelperStarts, Announced, Finalizes
  <2> QED
    BY <2>1, <2>2, <2>3, <2>4
<1>16. ASSUME NEW k \in Legs, Decides(k)
       PROVE  TypeOK'
  BY <1>2, <1>16 DEF Decides, Steps, HandlerAt
<1>17. ASSUME NEW k \in Legs, Aborts(k)
       PROVE  TypeOK'
  <2>1. leg' \in [Legs -> LegAt] /\ ended' \subseteq Legs
    BY <1>17, HungUpType DEF Aborts
  <2>2. mapped' \subseteq Legs /\ digit' \in [Legs -> {"none", "accept", "other"}]
    BY <1>17, UnregisteredType DEF Aborts
  <2> QED
    BY <1>17, <2>1, <2>2 DEF Aborts, Steps, HandlerAt
<1>18. ASSUME NEW k \in Legs, Resumes(k)
       PROVE  TypeOK'
  <2>1. mapped' \subseteq Legs /\ digit' \in [Legs -> {"none", "accept", "other"}]
    BY <1>18, UnregisteredType DEF Resumes
  <2> QED
    BY <1>2, <1>18, <2>1 DEF Resumes, Steps, HandlerAt
<1>19. ASSUME NEW k \in Legs, Bridges(k)
       PROVE  TypeOK'
  <2>1. h' \in [Legs -> HandlerAt] /\ leg' \in [Legs -> LegAt]
    BY <1>19 DEF Bridges, Steps, HandlerAt, LegAt
  <2>2. action' \in Actions
    <3>1. action' = action \/ action' = [action EXCEPT !.answered = TRUE, !.leg = k, !.decision = "accepted"]
      BY <1>19 DEF Bridges
    <3> QED
      BY <1>2, <1>19, <3>1
  <2>3. stored' \in BOOLEAN /\ odd' \subseteq odd \cup {"refused"}
    BY <1>19 DEF Bridges
  <2>4. UNCHANGED <<fixed, ending, caller, ai, moh, capture, speaking, ended, mapped, digit, guard, helper,
                    flow, giving, cancel>>
    BY <1>19 DEF Bridges
  <2> QED
    BY <2>1, <2>2, <2>3, <2>4
<1>20. CASE Speaks \/ SpeechEnds \/ CallerHangsUp
  BY <1>20 DEF Speaks, SpeechEnds, CallerHangsUp
<1>21. CASE Cleanup \/ ToolsDie \/ CallerEnded \/ \E k \in Legs : LegEnded(k)
  BY <1>21, CleanupType
<1> QED
  BY <1>3, <1>4, <1>5, <1>6, <1>7, <1>8, <1>9, <1>10, <1>11, <1>12, <1>13, <1>14, <1>15, <1>16, <1>17,
     <1>18, <1>19, <1>20, <1>21 DEF Next, Flow, Handler

-----------------------------------------------------------------------------
(* Helpers.                                                                 *)

LEMMA Typed ==
    ASSUME TypeOK
    PROVE  /\ flow \in [Legs -> FlowAt] /\ leg \in [Legs -> LegAt] /\ h \in [Legs -> HandlerAt]
           /\ action \in Actions /\ action.leg \in 0 .. MaxLegs
           /\ mapped \subseteq Legs /\ guard \subseteq Legs /\ giving \subseteq Legs /\ helper \subseteq Legs
BY DEF TypeOK, Actions

LEMMA HungUp ==
    ASSUME TypeOK, NEW k \in 0 .. MaxLegs, LegHungUp(k)
    PROVE  \A j \in Legs : /\ leg'[j] = IF j = k /\ Alive(j) THEN "gone" ELSE leg[j]
                           /\ Alive(j)' <=> Alive(j) /\ j # k
BY Typed, Arithmetic DEF LegHungUp, Alive, Legs

(* What a step of the handler does to the action. *)
LEMMA ActionAfter ==
    ASSUME TypeOK, NEW k \in Legs
    PROVE  /\ Answered(k) => IF stored /\ action.on
                             THEN action'.on /\ action'.leg = k /\ action'.answered /\ action'.prior = action.prior
                             ELSE action' = action
           /\ Decides(k) => /\ action'.on = action.on /\ action'.leg = action.leg
                            /\ action'.answered = action.answered /\ action'.prior = action.prior
           /\ Bridges(k) =>
                 \/ action' = action
                 \/ /\ action.on /\ action'.on /\ action'.leg = k /\ action'.answered
                    /\ action'.prior = action.prior
<1>1. action \in [on : BOOLEAN, leg : 0 .. MaxLegs, answered : BOOLEAN,
                   decision : {"none", "accepted", "declined"}, prior : {"unset", "on", "off"}]
  BY Typed DEF Actions
<1>2. ASSUME Answered(k)
      PROVE  IF stored /\ action.on
             THEN action'.on /\ action'.leg = k /\ action'.answered /\ action'.prior = action.prior
             ELSE action' = action
  <2>1. CASE stored /\ action.on
    <3>1. action' = [action EXCEPT !.answered = TRUE, !.leg = k]
      BY <1>2, <2>1 DEF Answered
    <3> QED
      BY <1>1, <2>1, <3>1
  <2>2. CASE ~(stored /\ action.on)
    BY <1>2, <2>2 DEF Answered
  <2> QED
    BY <2>1, <2>2
<1>3. ASSUME Decides(k)
      PROVE  /\ action'.on = action.on /\ action'.leg = action.leg
             /\ action'.answered = action.answered /\ action'.prior = action.prior
  <2>1. PICK d \in {"accepted", "declined"} : action' = action \/ action' = [action EXCEPT !.decision = d]
    BY <1>3 DEF Decides
  <2> QED
    BY <1>1, <2>1
<1>4. ASSUME Bridges(k)
      PROVE  \/ action' = action
             \/ action.on /\ action'.on /\ action'.leg = k /\ action'.answered /\ action'.prior = action.prior
  <2>1. \/ action' = action
        \/ action.on /\ action' = [action EXCEPT !.answered = TRUE, !.leg = k, !.decision = "accepted"]
    BY <1>4 DEF Bridges
  <2> QED
    BY <1>1, <2>1
<1> QED
  BY <1>2, <1>3, <1>4

(* The call's end, in all its steps. *)
Ending == Cleanup \/ ToolsDie \/ CallerEnded \/ \E k \in Legs : LegEnded(k)

Held == moh \/ ~(capture \/ speaking)

(* They only take away, and nothing of what is under way before they cancel it. *)
LEMMA EndingTakes ==
    ASSUME TypeOK, Ending
    PROVE  /\ UNCHANGED <<action, odd>>
           /\ \A j \in Legs : /\ flow'[j] \in {flow[j], "done"} /\ (flow[j] = "none" => flow'[j] = "none")
                              /\ leg'[j] \in {leg[j], "gone"} /\ (leg[j] \in {"none", "gone"} => leg'[j] = leg[j])
                              /\ h'[j] \in {h[j], "done"} /\ (h[j] = "none" => h'[j] = "none")
           /\ mapped' \subseteq mapped /\ guard' \subseteq guard /\ giving' \subseteq giving /\ helper' \subseteq helper
           /\ cancel' \in {cancel, Idle} /\ (moh' => moh) /\ (ai' => ai) /\ (caller' = "up" => caller = "up")
           /\ (Held' => Held)
<1> USE Typed, Arithmetic DEF shared, channels, fixed, ending, Held
<1>0. capture \in BOOLEAN /\ speaking \in BOOLEAN /\ moh \in BOOLEAN /\ ai \in BOOLEAN
  BY DEF TypeOK
<1>1. CASE CleanupCancels
  <2>1. \A j \in Legs : flow'[j] \in {flow[j], "done"} /\ (flow[j] = "none" => flow'[j] = "none")
    BY <1>1 DEF CleanupCancels
  <2>2. Held' => Held
    <3>1. speaking' \in {speaking, FALSE} /\ capture' = (capture \/ (speaking /\ ~speaking')) /\ moh' = moh
      BY <1>1 DEF CleanupCancels
    <3> QED
      BY <1>0, <3>1
  <2> QED
    BY <1>1, <2>1, <2>2 DEF CleanupCancels
<1>2. CASE CleanupStops \/ CleanupReads \/ CleanupFrees \/ CallerEnded \/ \E k \in Legs : LegEnded(k)
  BY <1>0, <1>2 DEF CleanupStops, CleanupReads, CleanupFrees, CallerEnded, LegEnded
<1>3. CASE CleanupReleases
  <2>1. \A j \in Legs : leg'[j] \in {leg[j], "gone"} /\ (leg[j] \in {"none", "gone"} => leg'[j] = leg[j])
    BY <1>3, HungUp DEF CleanupReleases, TypeOK, Alive
  <2> QED
    BY <1>3, <2>1 DEF CleanupReleases
<1>4. CASE CleanupRemoves
  BY <1>4 DEF CleanupRemoves, Interrupted
<1>5. CASE ToolsDie
  <2>1. \A j \in Legs : flow'[j] \in {flow[j], "done"} /\ (flow[j] = "none" => flow'[j] = "none")
    BY <1>5 DEF ToolsDie
  <2> QED
    BY <1>5, <2>1 DEF ToolsDie
<1> QED
  BY <1>1, <1>2, <1>3, <1>4, <1>5 DEF Ending, Cleanup

LEMMA EndingSpares ==
    ASSUME TypeOK, Ending
    PROVE  /\ Present' => Present /\ UNCHANGED <<h, stored, mapped>>
           /\ Intact' => Intact /\ UNCHANGED <<flow, leg, h, mapped, guard, giving, helper, cancel>>
           /\ ai' => (cleanup \in {"none", "begun", "cancelled"} => cleanup' \in {"none", "begun", "cancelled"})
           /\ ActionRead => ActionRead'
<1> USE DEF shared, channels, fixed, ending, Present, Intact, ActionRead
<1>1. CASE CleanupCancels \/ CleanupStops \/ CleanupReads \/ CleanupReleases \/ CleanupFrees \/ CleanupRemoves
  BY <1>1 DEF CleanupCancels, CleanupStops, CleanupReads, CleanupReleases, CleanupFrees, CleanupRemoves
<1>2. CASE CallerEnded \/ \E k \in Legs : LegEnded(k)
  BY <1>2 DEF CallerEnded, LegEnded
<1>3. CASE ToolsDie
  BY <1>3 DEF ToolsDie
<1> QED
  BY <1>1, <1>2, <1>3 DEF Ending, Cleanup

(* Every other step leaves the cleanup where it is. *)
LEMMA NotEnding ==
    ASSUME Next, ~Ending
    PROVE  UNCHANGED ending /\ (stored' = stored \/ stored' = TRUE) /\ (ai' = ai \/ ai' = FALSE)
<1> USE DEF shared, fixed
<1>1. ASSUME NEW j \in Legs, Asked(j) \/ Flow(j)
      PROVE  UNCHANGED <<ending, stored, ai>>
  BY <1>1 DEF Asked, Flow, Collected, Holds, Dials, OriginateFails, Registers
<1>2. ASSUME NEW j \in Legs, Handler(j)
      PROVE  UNCHANGED ending /\ (stored' = stored \/ stored' = TRUE) /\ (ai' = ai \/ ai' = FALSE)
  BY <1>2 DEF Handler, Answered, HelperStarts, Announced, Decides, Aborts, Resumes, Finalizes, Bridges
<1>3. ASSUME NEW j \in Legs, GuardFires(j) \/ GuardClears(j) \/ Agent(j)
      PROVE  UNCHANGED ending /\ (stored' = stored \/ stored' = TRUE) /\ ai' = ai
  BY <1>3 DEF GuardFires, GuardClears, Agent, AgentAnswers, AgentEnds, AgentPresses
<1>4. ASSUME CancelReads \/ CancelClears \/ Speaks \/ SpeechEnds \/ CallerHangsUp
      PROVE  UNCHANGED ending /\ (stored' = stored \/ stored' = TRUE) /\ ai' = ai
  BY <1>4 DEF CancelReads, CancelClears, Speaks, SpeechEnds, CallerHangsUp
<1> QED
  BY <1>1, <1>2, <1>3, <1>4 DEF Next, Ending

(* While the call is there its session is. *)
LEMMA PresentBefore ==
    ASSUME TypeOK, EndsInOrder, Next, Present'
    PROVE  Present /\ stored /\ stored' /\ (ai' => ai) /\ (Intact' => Intact)
<1> USE DEF Present, Intact, EndsInOrder, ending
<1>1. CASE Ending
  BY <1>1, EndingTakes, EndingSpares
<1>2. CASE ~Ending
  <2>1. UNCHANGED <<cleanup, read>> /\ (stored' = stored \/ stored' = TRUE) /\ (ai' = ai \/ ai' = FALSE)
    BY <1>2, NotEnding
  <2>2. Present /\ stored /\ (Intact' => Intact)
    BY <2>1
  <2>3. stored' /\ (ai' => ai)
    <3>1. stored = TRUE /\ ai \in BOOLEAN
      BY <2>2 DEF TypeOK
    <3>2. stored' = TRUE
      BY <2>1, <3>1
    <3> QED
      BY <2>1, <3>1, <3>2
  <2> QED
    BY <2>2, <2>3
<1> QED
  BY <1>1, <1>2

(* History only grows. *)
LEMMA OddGrows ==
    ASSUME TypeOK, Next
    PROVE  odd \subseteq odd'
<1>1. ASSUME NEW j \in Legs, Asked(j) \/ Flow(j)
      PROVE  odd \subseteq odd'
  BY <1>1 DEF Asked, Flow, Collected, Holds, Dials, OriginateFails, Registers
<1>2. ASSUME NEW j \in Legs, Handler(j)
      PROVE  odd \subseteq odd'
  BY <1>2 DEF Handler, Answered, HelperStarts, Announced, Decides, Aborts, Resumes, Finalizes, Bridges
<1>3. ASSUME NEW j \in Legs, GuardFires(j) \/ GuardClears(j) \/ Agent(j)
      PROVE  odd \subseteq odd'
  BY <1>3 DEF GuardFires, GuardClears, Agent, AgentAnswers, AgentEnds, AgentPresses
<1>4. ASSUME CancelReads \/ CancelClears \/ Speaks \/ SpeechEnds \/ CallerHangsUp
      PROVE  odd \subseteq odd'
  BY <1>4 DEF CancelReads, CancelClears, Speaks, SpeechEnds, CallerHangsUp
<1>5. CASE Ending
  BY <1>5, EndingTakes
<1> QED
  BY <1>1, <1>2, <1>3, <1>4, <1>5 DEF Next, Ending

LEMMA CleanBefore ==
    ASSUME TypeOK, Next, Clean'
    PROVE  Clean
BY OddGrows DEF Clean, Orderly

LEMMA EndsKeeps ==
    ASSUME TypeOK, EndsInOrder, Next
    PROVE  EndsInOrder'
<1>1. Present' => stored'
  BY PresentBefore
<1>2. ai' => cleanup' \in {"none", "begun", "cancelled"}
  BY EndingTakes, EndingSpares, NotEnding DEF EndsInOrder, TypeOK, ending
<1>3. ASSUME "late" \in odd'
      PROVE  ~Intact'
  <2>1. CASE "late" \in odd
    BY <2>1, EndingSpares, NotEnding DEF EndsInOrder, Intact, ending
  <2>2. CASE "late" \notin odd
    <3>1. ~Ending
      BY <1>3, <2>2, EndingTakes
    <3>2. ASSUME NEW k \in Legs, Asked(k)
          PROVE  ~Intact'
      BY <1>3, <2>2, <3>2 DEF Asked, Intact, ending
    <3>3. ASSUME NEW k \in Legs, Flow(k)
          PROVE  FALSE
      BY <1>3, <2>2, <3>3 DEF Flow, Collected, Holds, Dials, OriginateFails, Registers
    <3>4. ASSUME NEW k \in Legs, Answered(k) \/ HelperStarts(k)
          PROVE  ~Intact'
      BY <1>3, <2>2, <3>4 DEF Answered, HelperStarts, ActionRead, Intact, ending
    <3>5. ASSUME NEW k \in Legs,
                 Announced(k) \/ Decides(k) \/ Aborts(k) \/ Resumes(k) \/ Finalizes(k) \/ Bridges(k)
          PROVE  FALSE
      <4>1. odd' = odd \/ odd' = odd \cup {"refused"}
        BY <3>5 DEF Announced, Decides, Aborts, Resumes, Finalizes, Bridges
      <4> QED
        BY <1>3, <2>2, <4>1
    <3>6. ASSUME NEW k \in Legs, GuardFires(k) \/ GuardClears(k) \/ Agent(k)
          PROVE  FALSE
      BY <1>3, <2>2, <3>6 DEF GuardFires, GuardClears, Agent, AgentAnswers, AgentEnds, AgentPresses
    <3>7. ~(CancelReads \/ CancelClears \/ Speaks \/ SpeechEnds \/ CallerHangsUp)
      BY <1>3, <2>2 DEF CancelReads, CancelClears, Speaks, SpeechEnds, CallerHangsUp
    <3> QED
      BY <3>1, <3>2, <3>3, <3>4, <3>5, <3>6, <3>7 DEF Next, Handler, Ending
  <2> QED
    BY <2>1, <2>2
<1> QED
  BY <1>1, <1>2, <1>3 DEF EndsInOrder

-----------------------------------------------------------------------------
(* The order of one request.                                                *)

LEMMA OrderKeeps ==
    ASSUME TypeOK, InOrder, Next
    PROVE  InOrder'
<1> USE Typed, Arithmetic DEF InOrder, shared, channels, fixed, ending, NoLegChange, NoMapChange, FlowAt, LegAt, HandlerAt
<1>0. ASSUME UNCHANGED <<flow, guard, giving>>, NEW k \in Legs, flow[k] \notin {"none", "collect", "hold", "dial"},
             \A j \in Legs : j # k => /\ (leg[j] = "none" => leg'[j] = "none") /\ (j \in mapped' => j \in mapped)
                                      /\ (action'.leg = j => action.leg = j),
             \A j \in Legs : leg'[j] \in {"none", "dialing"} => h'[j] = "none"
      PROVE  InOrder'
  BY <1>0
<1>1. ASSUME NEW k \in Legs, Asked(k)
      PROVE  InOrder'
  BY <1>1 DEF Asked, Off
<1>2. ASSUME NEW k \in Legs, Collected(k) \/ Holds(k) \/ OriginateFails(k)
      PROVE  InOrder'
  <2>1. flow' \in [Legs -> FlowAt] /\ \A j \in Legs : j # k => flow'[j] = flow[j]
    BY <1>2 DEF Collected, Holds, OriginateFails
  <2>2. flow[k] \in {"collect", "hold", "dial"} /\ UNCHANGED <<channels, h, giving>>
    BY <1>2 DEF Collected, Holds, OriginateFails
  <2>3. action'.leg \in {action.leg, 0}
    BY <1>2 DEF Collected, Holds, OriginateFails, Off, Actions
  <2> QED
    BY <2>1, <2>2, <2>3
<1>3. ASSUME NEW k \in Legs, Dials(k) \/ Registers(k)
      PROVE  InOrder'
  <2>1. action'.leg \in {action.leg, k}
    BY <1>3 DEF Dials, Registers, Actions
  <2> QED
    BY <1>3, <2>1 DEF Dials, Registers
<1>4. ASSUME NEW k \in Legs, GuardFires(k)
      PROVE  InOrder'
  <2>1. \A j \in Legs : leg'[j] \in {leg[j], "gone"} /\ (leg[j] = "none" => leg'[j] = "none")
    BY <1>4, HungUp DEF GuardFires, Alive
  <2>2. mapped' \subseteq mapped /\ guard' \subseteq guard /\ giving' \subseteq giving \cup guard
        /\ UNCHANGED <<flow, h, action>>
    BY <1>4 DEF GuardFires, Unregistered
  <2> QED
    BY <2>1, <2>2
<1>5. CASE CancelReads
  <2>1. \A j \in Legs : leg'[j] \in {leg[j], "gone"} /\ (leg[j] = "none" => leg'[j] = "none")
    BY <1>5, HungUp DEF CancelReads, Alive
  <2>2. mapped' \subseteq mapped /\ UNCHANGED <<flow, h, action, guard, giving>>
    BY <1>5 DEF CancelReads, Unregistered
  <2> QED
    BY <2>1, <2>2
<1>6. ASSUME NEW k \in Legs, GuardClears(k)
      PROVE  InOrder'
  BY <1>6 DEF GuardClears, Off
<1>7. CASE CancelClears
  <2>1. action'.leg = 0 /\ UNCHANGED <<channels, flow, h, giving>>
    BY <1>7 DEF CancelClears, Off
  <2> QED
    BY <2>1
<1>8. ASSUME NEW k \in Legs, AgentAnswers(k) \/ AgentPresses(k)
      PROVE  InOrder'
  <2>1. CASE AgentAnswers(k)
    BY <2>1 DEF AgentAnswers, Steps
  <2>2. CASE AgentPresses(k)
    BY <2>2 DEF AgentPresses
  <2> QED
    BY <1>8, <2>1, <2>2
<1>9. ASSUME NEW k \in Legs, AgentEnds(k)
      PROVE  InOrder'
  <2>1. \A j \in Legs : leg'[j] \in {leg[j], "gone"} /\ (leg[j] = "none" => leg'[j] = "none")
    BY <1>9, HungUp DEF AgentEnds, Alive
  <2> QED
    BY <1>9, <2>1 DEF AgentEnds
<1>10. ASSUME NEW k \in Legs, Answered(k)
       PROVE  InOrder'
  <2>1. \A j \in Legs : leg'[j] \in {leg[j], "gone"} /\ (leg[j] = "none" => leg'[j] = "none")
    BY <1>10, HungUp DEF Answered, Alive
  <2>2. /\ mapped' \subseteq mapped \cup {k} /\ UNCHANGED <<guard, giving, flow>>
        /\ h[k] = "answered" /\ \A j \in Legs : j # k => h'[j] = h[j]
    BY <1>10 DEF Answered, Unregistered, Steps
  <2>3. action'.leg \in {action.leg, k}
    BY <1>10, ActionAfter
  <2>4. flow[k] \notin {"none", "collect", "hold", "dial"}
    BY <2>2
  <2>5. \A j \in Legs : leg'[j] \in {"none", "dialing"} => h'[j] = "none"
    BY <2>1, <2>2
  <2>6. \A j \in Legs : j # k => /\ (leg[j] = "none" => leg'[j] = "none") /\ (j \in mapped' => j \in mapped)
                                  /\ (action'.leg = j => action.leg = j)
    BY <2>1, <2>2, <2>3
  <2> QED
    BY <1>0, <2>2, <2>4, <2>5, <2>6
<1>11. ASSUME NEW k \in Legs, HelperStarts(k) \/ Announced(k) \/ Decides(k) \/ Finalizes(k) \/ Bridges(k)
       PROVE  InOrder'
  <2>1. /\ h[k] # "none" /\ \A j \in Legs : j # k => h'[j] = h[j] /\ leg'[j] = leg[j]
        /\ UNCHANGED <<mapped, guard, giving, flow>>
    BY <1>11 DEF HelperStarts, Announced, Decides, Finalizes, Bridges, Steps
  <2>2. leg'[k] \in {leg[k], "bridged"}
    BY <1>11 DEF HelperStarts, Announced, Decides, Finalizes, Bridges
  <2>3. action'.leg \in {action.leg, k}
    BY <1>11, ActionAfter DEF HelperStarts, Announced, Finalizes
  <2>4. flow[k] \notin {"none", "collect", "hold", "dial"}
    BY <2>1
  <2>5. \A j \in Legs : leg'[j] \in {"none", "dialing"} => h'[j] = "none"
    BY <2>1, <2>2
  <2>6. \A j \in Legs : j # k => /\ (leg[j] = "none" => leg'[j] = "none") /\ (j \in mapped' => j \in mapped)
                                  /\ (action'.leg = j => action.leg = j)
    BY <2>1, <2>3
  <2> QED
    BY <1>0, <2>1, <2>4, <2>5, <2>6
<1>12. ASSUME NEW k \in Legs, Aborts(k) \/ Resumes(k)
       PROVE  InOrder'
  <2>1. \A j \in Legs : leg'[j] \in {leg[j], "gone"} /\ (leg[j] = "none" => leg'[j] = "none")
    BY <1>12, HungUp DEF Aborts, Resumes, Alive
  <2>2. /\ h[k] # "none" /\ \A j \in Legs : j # k => h'[j] = h[j]
        /\ mapped' \subseteq mapped /\ UNCHANGED <<guard, giving, flow>>
    <3>1. h[k] # "none" /\ mapped' \subseteq mapped /\ UNCHANGED <<guard, giving, flow>>
      BY <1>12 DEF Aborts, Resumes, Unregistered
    <3>2. \A j \in Legs : j # k => h'[j] = h[j]
      <4>1. h' = [h EXCEPT ![k] = "resume"] \/ h' = [h EXCEPT ![k] = "done"]
        BY <1>12 DEF Aborts, Resumes, Steps
      <4> QED
        BY <4>1
    <3> QED
      BY <3>1, <3>2
  <2>3. action'.leg = action.leg \/ action'.leg = 0
    <3>1. CASE Aborts(k)
      BY <3>1 DEF Aborts
    <3>2. CASE Resumes(k)
      BY <3>2 DEF Resumes, Off
    <3> QED
      BY <1>12, <3>1, <3>2
  <2>4. flow[k] \notin {"none", "collect", "hold", "dial"}
    BY <2>2
  <2>5. \A j \in Legs : leg'[j] \in {"none", "dialing"} => h'[j] = "none"
    BY <2>1, <2>2
  <2>6. \A j \in Legs : j # k => /\ (leg[j] = "none" => leg'[j] = "none") /\ (j \in mapped' => j \in mapped)
                                  /\ (action'.leg = j => action.leg = j)
    BY <2>1, <2>2, <2>3
  <2> QED
    BY <1>0, <2>2, <2>4, <2>5, <2>6
<1>13. CASE Speaks \/ SpeechEnds \/ CallerHangsUp
  BY <1>13 DEF Speaks, SpeechEnds, CallerHangsUp
<1>14. CASE Ending
  BY <1>14, EndingTakes
<1> QED
  BY <1>1, <1>2, <1>3, <1>4, <1>5, <1>6, <1>7, <1>8, <1>9, <1>10, <1>11, <1>12, <1>13, <1>14
     DEF Next, Flow, Handler, Agent, Ending

-----------------------------------------------------------------------------
(* One request at a time.                                                   *)

LEMMA Sole ==
    ASSUME OneRequest, NEW k \in Legs, Busy(k), NEW j \in Legs, j # k
    PROVE  flow[j] \in {"none", "done"} /\ h[j] \in {"none", "done"} /\ ~Alive(j) /\ j \notin giving
BY DEF OneRequest, Busy

(* A request that begins finds nothing under way. *)
LEMMA AskedAlone ==
    ASSUME TypeOK, InOrder, EndsInOrder, Undisturbed, NEW k \in Legs, Asked(k), Clean'
    PROVE  /\ stored /\ ai /\ ~action.on /\ cancel = Idle /\ giving = {}
           /\ \A j \in Legs : ~Busy(j)
<1>1. /\ stored /\ ai /\ ~action.on /\ cancel = Idle /\ giving = {} /\ \A j \in Legs : h[j] \in {"none", "done"}
      /\ Intact /\ Present
  BY DEF Asked, Clean, Orderly, Intact, Present
<1>2. \A j \in Legs : flow[j] \in {"none", "done"}
  BY <1>1, Typed DEF Asked, Undisturbed, Pursued, FlowAt
<1>3. \A j \in Legs : ~Alive(j)
  BY <1>1 DEF Undisturbed, Pursued
<1> QED
  BY <1>1, <1>2, <1>3 DEF Busy

LEMMA OneRequestKeeps ==
    ASSUME TypeOK, InOrder, EndsInOrder, Undisturbed, Next, Clean'
    PROVE  OneRequest'
<1> USE Arithmetic DEF shared, channels, fixed, ending, NoLegChange, NoMapChange
<1>1. /\ flow \in [Legs -> FlowAt] /\ leg \in [Legs -> LegAt] /\ h \in [Legs -> HandlerAt] /\ action \in Actions
      /\ action.leg \in 0 .. MaxLegs /\ OneRequest
  BY Typed DEF Undisturbed
<1>2. ASSUME \A j \in Legs : Busy(j)' => Busy(j),
             action'.leg \in {0, action.leg} \/ \E k \in Legs : Busy(k) /\ action'.leg = k
      PROVE  OneRequest'
  BY <1>1, <1>2 DEF OneRequest
<1>3. ASSUME NEW k \in Legs, Asked(k)
      PROVE  OneRequest'
  <2>1. \A j \in Legs : ~Busy(j)
    BY <1>3, AskedAlone
  <2>2. \A j \in Legs : j # k => ~Busy(j)'
    BY <1>1, <1>3, <2>1 DEF Asked, Busy, Alive
  <2>3. action'.leg = 0
    BY <1>3 DEF Asked, Off
  <2> QED
    BY <2>2, <2>3 DEF OneRequest
<1>4. ASSUME NEW k \in Legs, Flow(k)
      PROVE  OneRequest'
  <2>1. flow[k] \notin {"none", "done"} /\ Busy(k)
    BY <1>4 DEF Flow, Collected, Holds, Dials, OriginateFails, Registers, Busy
  <2>2. \A j \in Legs : j # k => flow'[j] = flow[j] /\ leg'[j] = leg[j]
    BY <1>1, <1>4 DEF Flow, Collected, Holds, Dials, OriginateFails, Registers
  <2>3. UNCHANGED <<h, giving>>
    BY <1>4 DEF Flow, Collected, Holds, Dials, OriginateFails, Registers
  <2>4. action'.leg \in {0, action.leg, k}
    <3>1. CASE Collected(k) \/ Dials(k)
      BY <3>1 DEF Collected, Dials
    <3>2. CASE Holds(k)
      BY <1>1, <3>2 DEF Holds, Actions
    <3>3. CASE OriginateFails(k)
      BY <3>3 DEF OriginateFails, Off
    <3>4. CASE Registers(k)
      BY <1>1, <3>4 DEF Registers, Actions
    <3> QED
      BY <1>4, <3>1, <3>2, <3>3, <3>4 DEF Flow
  <2>5. \A j \in Legs : Busy(j)' => Busy(j)
    BY <2>1, <2>2, <2>3 DEF Busy, Alive
  <2> QED
    BY <1>2, <2>1, <2>4, <2>5
<1>5. ASSUME NEW k \in Legs, GuardFires(k)
      PROVE  OneRequest'
  <2>1. UNCHANGED <<flow, h, action>>
    BY <1>5 DEF GuardFires
  <2>2. \A j \in Legs : Alive(j)' => Alive(j)
    BY <1>5, HungUp DEF GuardFires, Alive
  <2>3. CASE giving' = giving
    <3>1. \A j \in Legs : Busy(j)' => Busy(j)
      BY <2>1, <2>2, <2>3 DEF Busy
    <3> QED
      BY <1>2, <2>1, <3>1
  <2>4. CASE giving' = giving \cup {k} /\ action.leg = k
    <3>1. \A j \in Legs : Busy(j)' => j = k \/ Busy(j)
      BY <2>1, <2>2, <2>4 DEF Busy
    <3>2. \A j \in Legs : Busy(j) => j = k
      BY <1>1, <2>4 DEF OneRequest
    <3> QED
      BY <2>1, <2>4, <3>1, <3>2 DEF OneRequest
  <2> QED
    BY <1>5, <2>3, <2>4 DEF GuardFires
<1>6. ASSUME NEW k \in Legs, GuardClears(k)
      PROVE  OneRequest'
  <2>1. \A j \in Legs : Busy(j)' => Busy(j)
    BY <1>6 DEF GuardClears, Busy, Alive
  <2>2. action'.leg = 0
    BY <1>6 DEF GuardClears, Off
  <2> QED
    BY <1>2, <2>1, <2>2
<1>7. CASE CancelReads
  <2>1. \A j \in Legs : Alive(j)' => Alive(j)
    BY <1>1, <1>7, HungUp DEF CancelReads, Alive
  <2>2. UNCHANGED <<flow, h, action, giving>>
    BY <1>7 DEF CancelReads
  <2>3. \A j \in Legs : Busy(j)' => Busy(j)
    BY <2>1, <2>2 DEF Busy
  <2> QED
    BY <1>2, <2>2, <2>3
<1>8. CASE CancelClears
  <2>1. UNCHANGED <<leg, flow, h, giving>> /\ action'.leg = 0
    BY <1>8 DEF CancelClears, Off
  <2>2. \A j \in Legs : Busy(j)' => Busy(j)
    BY <2>1 DEF Busy, Alive
  <2> QED
    BY <1>2, <2>1, <2>2
<1>9. ASSUME NEW k \in Legs, Agent(k)
      PROVE  OneRequest'
  <2>1. Alive(k) /\ UNCHANGED <<flow, action, giving>>
    BY <1>9 DEF Agent, AgentAnswers, AgentEnds, AgentPresses, Alive
  <2>2. \A j \in Legs : j # k => h'[j] = h[j] /\ leg'[j] = leg[j]
    BY <1>1, <1>9 DEF Agent, AgentAnswers, AgentEnds, AgentPresses, Steps, LegHungUp
  <2>3. \A j \in Legs : Busy(j)' => Busy(j)
    BY <2>1, <2>2 DEF Busy, Alive
  <2> QED
    BY <1>2, <2>1, <2>3
<1>10. ASSUME NEW k \in Legs, Handler(k)
       PROVE  OneRequest'
  <2>1. h[k] \notin {"none", "done"} /\ Busy(k) /\ UNCHANGED <<flow, giving>>
    BY <1>10
       DEF Handler, Answered, HelperStarts, Announced, Decides, Aborts, Resumes, Finalizes,
           Bridges, Busy
  <2>2. \A j \in Legs : j # k => h'[j] = h[j] /\ leg'[j] = leg[j]
    BY <1>1, <1>10
       DEF Handler, Answered, HelperStarts, Announced, Decides, Aborts, Resumes, Finalizes, Bridges,
       Steps, LegHungUp
  <2>3. \A j \in Legs : Busy(j)' => Busy(j)
    BY <2>1, <2>2 DEF Busy, Alive
  <2>4. action'.leg \in {0, action.leg, k}
    <3>1. CASE Answered(k) \/ Decides(k) \/ Bridges(k)
      BY <3>1, ActionAfter
    <3>2. CASE HelperStarts(k) \/ Announced(k) \/ Aborts(k) \/ Finalizes(k)
      BY <3>2 DEF HelperStarts, Announced, Aborts, Finalizes
    <3>3. CASE Resumes(k)
      BY <3>3 DEF Resumes, Off
    <3> QED
      BY <1>10, <3>1, <3>2, <3>3 DEF Handler
  <2> QED
    BY <1>2, <2>1, <2>3, <2>4
<1>11. CASE Speaks \/ SpeechEnds \/ CallerHangsUp
  <2>1. UNCHANGED <<leg, flow, h, giving, action>>
    BY <1>11 DEF Speaks, SpeechEnds, CallerHangsUp
  <2>2. \A j \in Legs : Busy(j)' => Busy(j)
    BY <2>1 DEF Busy, Alive
  <2> QED
    BY <1>2, <2>1, <2>2
<1>12. CASE Ending
  <2>1. \A j \in Legs : Busy(j)' => Busy(j)
    BY <1>12, EndingTakes DEF Busy, Alive
  <2> QED
    BY <1>2, <1>12, <2>1, EndingTakes
<1> QED
  BY <1>3, <1>4, <1>5, <1>6, <1>7, <1>8, <1>9, <1>10, <1>11, <1>12 DEF Next, Ending

-----------------------------------------------------------------------------
(* Session and action.                                                      *)

LEMMA PursuedKeeps ==
    ASSUME TypeOK, InOrder, EndsInOrder, Undisturbed, Next, Clean'
    PROVE  Pursued'
<1> USE Arithmetic DEF shared, channels, fixed, ending, NoLegChange, NoMapChange
<1> SUFFICES ASSUME Present'
             PROVE  Pursued'
  BY DEF Pursued
<1>1. /\ flow \in [Legs -> FlowAt] /\ leg \in [Legs -> LegAt] /\ h \in [Legs -> HandlerAt] /\ action \in Actions
      /\ action.leg \in 0 .. MaxLegs /\ OneRequest
  BY Typed DEF Undisturbed
<1>2. Present /\ stored /\ (Intact' => Intact) /\ odd' \cap {"double", "crossed"} = {}
  BY PresentBefore DEF Clean, Orderly
<1>3. \A k \in Legs :
        /\ flow[k] \in {"collect", "hold", "dial"} => action.on
        /\ Alive(k) /\ Intact => action.on /\ (action.leg = k \/ flow[k] = "register")
        /\ InHand(k) => action.on /\ action.answered /\ action.leg = k
  BY <1>2 DEF Undisturbed, Pursued
<1>4. ASSUME \A j \in Legs : /\ Alive(j)' => ~Intact'
                             /\ ~InHand(j)' /\ flow'[j] \notin {"collect", "hold", "dial"}
      PROVE  Pursued'
  BY <1>4 DEF Pursued
<1>5. ASSUME action'.on = action.on, action'.leg = action.leg, action'.answered = action.answered,
             \A j \in Legs : /\ Alive(j)' => Alive(j)
                             /\ InHand(j)' => InHand(j)
                             /\ flow'[j] \in {flow[j], "done"} /\ (Intact' => flow'[j] = flow[j])
      PROVE  Pursued'
  BY <1>2, <1>3, <1>5 DEF Pursued
<1>6. ASSUME NEW k \in Legs, Asked(k)
      PROVE  Pursued'
  <2>1. \A j \in Legs : ~Busy(j)
    BY <1>6, AskedAlone
  <2>2. action'.on /\ UNCHANGED <<leg, h>>
    BY <1>6 DEF Asked, Off
  <2>3. \A j \in Legs : ~Alive(j)' /\ ~InHand(j)'
    BY <2>1, <2>2 DEF Busy, Alive, InHand
  <2> QED
    BY <2>2, <2>3 DEF Pursued
<1>7. ASSUME NEW k \in Legs, Flow(k)
      PROVE  Pursued'
  <2>1. flow[k] \notin {"none", "done"} /\ Busy(k)
    BY <1>7 DEF Flow, Collected, Holds, Dials, OriginateFails, Registers, Busy
  <2>2. \A j \in Legs : j # k => flow[j] \in {"none", "done"} /\ ~Alive(j) /\ ~InHand(j)
    BY <1>1, <2>1, Sole DEF InHand
  <2>3. \A j \in Legs : j # k => flow'[j] = flow[j] /\ leg'[j] = leg[j]
    BY <1>1, <1>7 DEF Flow, Collected, Holds, Dials, OriginateFails, Registers
  <2>4. UNCHANGED <<h, giving>>
    BY <1>7 DEF Flow, Collected, Holds, Dials, OriginateFails, Registers
  <2>5. \A j \in Legs : j # k => ~Alive(j)' /\ ~InHand(j)' /\ flow'[j] \in {"none", "done"}
    BY <2>2, <2>3, <2>4 DEF Alive, InHand
  <2>6. flow[k] \in {"collect", "hold", "dial"} => h[k] = "none" /\ ~Alive(k)
    BY DEF InOrder, Alive
  <2>7. CASE Collected(k)
    BY <1>1, <2>5, <2>6, <2>7 DEF Collected, Pursued, Alive, InHand
  <2>8. CASE Holds(k)
    <3>1. action.on
      BY <1>3, <2>8 DEF Holds
    <3>2. action'.on
      BY <1>1, <3>1, <2>8 DEF Holds, Actions
    <3>3. ~Alive(k)' /\ ~InHand(k)'
      BY <2>6, <2>8 DEF Holds, Alive, InHand
    <3> QED
      BY <2>5, <3>2, <3>3 DEF Pursued
  <2>9. CASE Dials(k)
    <3>1. action.on /\ action' = action /\ flow'[k] = "register"
      BY <1>1, <1>3, <2>9 DEF Dials
    <3>2. ~InHand(k)'
      BY <2>6, <2>9 DEF Dials, InHand
    <3> QED
      BY <2>5, <3>1, <3>2 DEF Pursued
  <2>10. CASE OriginateFails(k)
    <3>1. ~Alive(k)' /\ ~InHand(k)' /\ flow'[k] = "done"
      BY <1>1, <2>6, <2>10 DEF OriginateFails, Alive, InHand
    <3> QED
      BY <1>4, <2>5, <3>1
  <2>11. CASE Registers(k)
    <3>1. action.on
      BY <1>2, <2>11 DEF Registers
    <3>2. action' = [action EXCEPT !.leg = k]
      BY <1>2, <3>1, <2>11 DEF Registers
    <3>3. action'.on /\ action'.leg = k /\ action'.answered = action.answered
      BY <1>1, <3>1, <3>2 DEF Actions
    <3>4. InHand(k)' => InHand(k)
      BY <2>4 DEF InHand
    <3>5. flow'[k] = "done"
      BY <1>1, <2>11 DEF Registers
    <3> QED
      BY <1>3, <2>5, <3>3, <3>4, <3>5 DEF Pursued
  <2> QED
    BY <1>7, <2>7, <2>8, <2>9, <2>10, <2>11 DEF Flow
<1>8. ASSUME NEW k \in Legs, GuardFires(k)
      PROVE  Pursued'
  <2>1. UNCHANGED <<flow, h, action>>
    BY <1>8 DEF GuardFires
  <2>2. \A j \in Legs : Alive(j)' => Alive(j)
    BY <1>8, HungUp DEF GuardFires, Alive
  <2> QED
    BY <1>5, <2>1, <2>2 DEF InHand
<1>9. ASSUME NEW k \in Legs, GuardClears(k)
      PROVE  Pursued'
  <2>1. k \in giving /\ Busy(k) /\ flow[k] = "done" /\ UNCHANGED <<leg, h, flow>>
    BY <1>9 DEF GuardClears, Busy, InOrder
  <2>2. \A j \in Legs : flow[j] \in {"none", "done"}
    BY <1>1, <2>1, Sole
  <2>3. \A j \in Legs : ~Alive(j) /\ ~InHand(j)
    BY <1>2, <2>1 DEF Undisturbed, GivenUp
  <2> QED
    BY <1>4, <2>1, <2>2, <2>3 DEF Alive, InHand
<1>10. CASE CancelReads
  <2>1. \A j \in Legs : Alive(j)' => Alive(j)
    BY <1>1, <1>10, HungUp DEF CancelReads, Alive
  <2>2. UNCHANGED <<flow, h, action>>
    BY <1>10 DEF CancelReads
  <2> QED
    BY <1>5, <2>1, <2>2 DEF InHand
<1>11. CASE CancelClears
  <2>1. cancel # Idle /\ UNCHANGED <<leg, flow, h>>
    BY <1>11 DEF CancelClears, Idle
  <2>2. ~action.answered /\ \A j \in Legs : flow[j] \in {"none", "done"}
    BY <1>2, <1>11 DEF CancelClears
  <2>3. \A j \in Legs : Alive(j) => ~Intact
    BY <1>2, <2>1, <2>2 DEF Undisturbed, GivenUp
  <2>4. \A j \in Legs : ~InHand(j)
    BY <1>3, <2>2
  <2> QED
    BY <1>2, <1>4, <2>1, <2>2, <2>3, <2>4 DEF Alive, InHand
<1>12. ASSUME NEW k \in Legs, Agent(k)
       PROVE  Pursued'
  <2>1. Alive(k) /\ UNCHANGED <<flow, action>>
    BY <1>12 DEF Agent, AgentAnswers, AgentEnds, AgentPresses, Alive
  <2>2. \A j \in Legs : h'[j] \in {h[j], "answered"} /\ (Alive(j)' => Alive(j))
    BY <1>1, <1>12, <2>1 DEF Agent, AgentAnswers, AgentEnds, AgentPresses, Steps, LegHungUp, Alive
  <2> QED
    BY <1>5, <2>1, <2>2 DEF InHand
<1>13. ASSUME NEW k \in Legs, Handler(k)
       PROVE  Pursued'
  <2>1. h[k] \notin {"none", "done"} /\ Busy(k) /\ UNCHANGED flow
    BY <1>13
       DEF Handler, Answered, HelperStarts, Announced, Decides, Aborts, Resumes, Finalizes,
           Bridges, Busy
  <2>2. \A j \in Legs : j # k => h'[j] = h[j] /\ leg'[j] = leg[j]
    BY <1>1, <1>13
       DEF Handler, Answered, HelperStarts, Announced, Decides, Aborts, Resumes, Finalizes, Bridges,
       Steps, LegHungUp
  <2>3. \A j \in Legs : j # k => flow[j] \in {"none", "done"} /\ ~Alive(j)' /\ ~InHand(j)'
    BY <1>1, <2>1, <2>2, Sole DEF Alive, InHand
  <2>4. flow[k] \in {"register", "done"}
    BY <1>1, <2>1 DEF InOrder, FlowAt
  <2>5. Alive(k)' => Alive(k)
    BY <1>1, <1>13
       DEF Handler, Answered, HelperStarts, Announced, Decides, Aborts, Resumes, Finalizes, Bridges,
       LegHungUp, Alive
  <2>6. CASE Answered(k)
    <3>1. CASE action.on
      BY <1>2, <2>1, <2>3, <2>4, <2>6, <3>1, ActionAfter DEF Pursued
    <3>2. CASE ~action.on
      BY <1>1, <1>2, <1>3, <2>1, <2>3, <2>4, <2>5, <2>6, <3>2 DEF Answered, Steps, InHand, Pursued
    <3> QED
      BY <3>1, <3>2
  <2>7. CASE HelperStarts(k) \/ Announced(k) \/ Aborts(k) \/ Finalizes(k) \/ Decides(k)
    <3>1. InHand(k)
      BY <2>7 DEF HelperStarts, Announced, Aborts, Finalizes, Decides, InHand
    <3>2. action'.on = action.on /\ action'.leg = action.leg /\ action'.answered = action.answered
      BY <2>7, ActionAfter DEF HelperStarts, Announced, Aborts, Finalizes
    <3> QED
      BY <1>3, <2>1, <2>3, <2>4, <2>5, <3>1, <3>2 DEF Pursued
  <2>8. CASE Bridges(k)
    <3>1. InHand(k)
      BY <2>8 DEF Bridges, InHand
    <3>2. action'.on /\ action'.leg = k /\ action'.answered
      BY <1>3, <2>8, <3>1, ActionAfter
    <3> QED
      BY <2>1, <2>3, <2>4, <3>2 DEF Pursued
  <2>9. CASE Resumes(k)
    <3>1. ~Alive(k)' /\ ~InHand(k)'
      BY <1>1, <2>5, <2>9 DEF Resumes, Steps, InHand, Undisturbed, HeldByAction
    <3> QED
      BY <1>4, <2>1, <2>3, <2>4, <3>1
  <2> QED
    BY <1>13, <2>6, <2>7, <2>8, <2>9 DEF Handler
<1>14. CASE Speaks \/ SpeechEnds \/ CallerHangsUp
  <2>1. UNCHANGED <<leg, flow, h, action>>
    BY <1>14 DEF Speaks, SpeechEnds, CallerHangsUp
  <2> QED
    BY <1>5, <2>1 DEF Alive, InHand
<1>15. CASE Ending
  BY <1>5, <1>15, EndingTakes, EndingSpares DEF Alive, InHand
<1> QED
  BY <1>6, <1>7, <1>8, <1>9, <1>10, <1>11, <1>12, <1>13, <1>14, <1>15 DEF Next, Ending

-----------------------------------------------------------------------------
(* The mapping, and who gives a transfer up.                                *)

LEMMA MappedOwnKeeps ==
    ASSUME TypeOK, InOrder, EndsInOrder, Undisturbed, Next, Clean'
    PROVE  MappedOwn'
<1> USE Arithmetic DEF shared, channels, fixed, ending, NoLegChange, NoMapChange
<1> SUFFICES ASSUME Present'
             PROVE  MappedOwn'
  BY DEF MappedOwn
<1>1. /\ flow \in [Legs -> FlowAt] /\ action \in Actions /\ action.leg \in 0 .. MaxLegs /\ OneRequest
      /\ mapped \subseteq Legs
  BY Typed DEF Undisturbed
<1>2. Present /\ stored /\ (Intact' => Intact) /\ odd' \cap {"double", "crossed"} = {}
  BY PresentBefore DEF Clean, Orderly
<1>3. /\ \A k \in mapped : action.on /\ action.leg = k
      /\ cancel # Idle \/ giving # {} => mapped = {}
  BY <1>2 DEF Undisturbed, MappedOwn
<1>4. ASSUME mapped' = {}
      PROVE  MappedOwn'
  BY <1>4 DEF MappedOwn
<1>5. ASSUME mapped' \subseteq mapped, action'.on = action.on, action'.leg = action.leg,
             cancel' \in {cancel, Idle}, giving' \subseteq giving
      PROVE  MappedOwn'
  BY <1>3, <1>5 DEF MappedOwn
<1>6. ASSUME NEW k \in Legs, Asked(k)
      PROVE  MappedOwn'
  <2>1. mapped = {} /\ UNCHANGED mapped
    BY <1>3, <1>6, AskedAlone DEF Asked
  <2> QED
    BY <1>4, <2>1
<1>7. ASSUME NEW k \in Legs, Collected(k) \/ Dials(k)
      PROVE  MappedOwn'
  BY <1>5, <1>7 DEF Collected, Dials
<1>8. ASSUME NEW k \in Legs, Holds(k)
      PROVE  MappedOwn'
  <2>1. action'.on = action.on /\ action'.leg = action.leg
    BY <1>1, <1>8 DEF Holds, Actions
  <2> QED
    BY <1>5, <1>8, <2>1 DEF Holds
<1>9. ASSUME NEW k \in Legs, OriginateFails(k)
      PROVE  MappedOwn'
  <2>1. Busy(k) /\ action.leg # k
    BY <1>9 DEF OriginateFails, Busy, InOrder
  <2>2. action.leg = 0
    BY <1>1, <2>1 DEF OneRequest
  <2>3. mapped = {}
    BY <1>1, <1>3, <2>2
  <2> QED
    BY <1>4, <1>9, <2>3 DEF OriginateFails
<1>10. ASSUME NEW k \in Legs, Registers(k)
       PROVE  MappedOwn'
  <2>1. action.on /\ cancel = Idle /\ Busy(k) /\ flow[k] # "done"
    BY <1>2, <1>10 DEF Registers, Busy
  <2>2. action' = [action EXCEPT !.leg = k]
    BY <1>2, <1>10, <2>1 DEF Registers
  <2>3. action'.on /\ action'.leg = k
    BY <1>1, <2>1, <2>2 DEF Actions
  <2>4. \A j \in mapped : j = k
    BY <1>1, <1>3, <2>1 DEF OneRequest
  <2>5. giving = {}
    <3>1. ASSUME NEW j \in Legs, j \in giving
          PROVE  FALSE
      BY <1>1, <2>1, <3>1 DEF OneRequest, Busy, InOrder
    <3> QED
      BY <3>1, Typed
  <2> QED
    BY <1>10, <2>1, <2>3, <2>4, <2>5 DEF Registers, MappedOwn
<1>11. ASSUME NEW k \in Legs, GuardFires(k)
       PROVE  MappedOwn'
  <2>1. CASE action.leg = k
    BY <1>2, <1>3, <1>11, <2>1 DEF GuardFires, Unregistered, MappedOwn
  <2>2. CASE action.leg # k
    BY <1>2, <1>5, <1>11, <2>2 DEF GuardFires
  <2> QED
    BY <2>1, <2>2
<1>12. ASSUME NEW k \in Legs, GuardClears(k)
       PROVE  MappedOwn'
  BY <1>3, <1>4, <1>12 DEF GuardClears
<1>13. CASE CancelReads
  <2>1. mapped' = {}
    <3>1. CASE action.leg = 0
      BY <1>1, <1>3, <1>13, <3>1 DEF CancelReads
    <3>2. CASE action.leg # 0
      BY <1>1, <1>3, <1>13, <3>2 DEF CancelReads, Unregistered
    <3> QED
      BY <3>1, <3>2
  <2> QED
    BY <1>4, <2>1
<1>14. CASE CancelClears
  BY <1>3, <1>4, <1>14 DEF CancelClears, Idle
<1>15. ASSUME NEW k \in Legs, Agent(k)
       PROVE  MappedOwn'
  BY <1>5, <1>15 DEF Agent, AgentAnswers, AgentEnds, AgentPresses
<1>16. ASSUME NEW k \in Legs, Answered(k)
       PROVE  MappedOwn'
  <2>1. CASE action.on
    <3>1. cancel = Idle /\ giving = {} /\ action.leg \in {0, k}
      BY <1>2, <1>16, <2>1 DEF Answered
    <3>2. mapped' \subseteq {k} /\ UNCHANGED <<cancel, giving>>
      BY <1>1, <1>2, <1>3, <1>16, <2>1, <3>1 DEF Answered
    <3>3. action'.on /\ action'.leg = k
      BY <1>2, <1>16, <2>1, ActionAfter
    <3> QED
      BY <3>1, <3>2, <3>3 DEF MappedOwn
  <2>2. CASE ~action.on
    BY <1>5, <1>16, <2>2 DEF Answered, Unregistered
  <2> QED
    BY <2>1, <2>2
<1>17. ASSUME NEW k \in Legs, HelperStarts(k) \/ Announced(k) \/ Aborts(k) \/ Finalizes(k) \/ Decides(k)
       PROVE  MappedOwn'
  <2>1. action'.on = action.on /\ action'.leg = action.leg
    BY <1>17, ActionAfter DEF HelperStarts, Announced, Aborts, Finalizes
  <2>2. mapped' \subseteq mapped /\ UNCHANGED <<cancel, giving>>
    BY <1>17 DEF HelperStarts, Announced, Aborts, Finalizes, Decides, Unregistered
  <2> QED
    BY <1>5, <2>1, <2>2
<1>18. ASSUME NEW k \in Legs, Bridges(k)
       PROVE  MappedOwn'
  <2>1. InHand(k)
    BY <1>18 DEF Bridges, InHand
  <2>2. action.on /\ action.leg = k
    BY <1>2, <2>1 DEF Undisturbed, Pursued
  <2>3. action'.on = action.on /\ action'.leg = action.leg
    BY <1>1, <1>18, <2>2, ActionAfter DEF Actions
  <2> QED
    BY <1>5, <1>18, <2>3 DEF Bridges
<1>19. ASSUME NEW k \in Legs, Resumes(k)
       PROVE  MappedOwn'
  <2>1. InHand(k)
    BY <1>19 DEF Resumes, InHand
  <2>2. action.leg = k
    BY <1>2, <2>1 DEF Undisturbed, Pursued
  <2> QED
    BY <1>3, <1>4, <1>19, <2>2 DEF Resumes, Unregistered
<1>20. CASE Speaks \/ SpeechEnds \/ CallerHangsUp
  BY <1>5, <1>20 DEF Speaks, SpeechEnds, CallerHangsUp
<1>21. CASE Ending
  BY <1>5, <1>21, EndingTakes
<1> QED
  BY <1>6, <1>7, <1>8, <1>9, <1>10, <1>11, <1>12, <1>13, <1>14, <1>15, <1>16, <1>17, <1>18, <1>19, <1>20, <1>21
     DEF Next, Flow, Handler, Ending

LEMMA GivenUpKeeps ==
    ASSUME TypeOK, InOrder, EndsInOrder, Undisturbed, Next, Clean'
    PROVE  GivenUp'
<1> USE Arithmetic DEF shared, channels, fixed, ending, NoLegChange, NoMapChange
<1> SUFFICES ASSUME Present'
             PROVE  GivenUp'
  BY DEF GivenUp
<1>1. /\ flow \in [Legs -> FlowAt] /\ leg \in [Legs -> LegAt] /\ h \in [Legs -> HandlerAt] /\ action \in Actions
      /\ action.leg \in 0 .. MaxLegs /\ OneRequest /\ giving \subseteq Legs
  BY Typed DEF Undisturbed
<1>2. Present /\ stored /\ (Intact' => Intact) /\ odd' \cap {"double", "crossed"} = {}
  BY PresentBefore DEF Clean, Orderly
<1>3. /\ cancel # Idle => \A k \in Legs : Alive(k) => action.leg # k /\ (Intact => flow[k] = "register")
      /\ giving # {} => \A k \in Legs : ~Alive(k) /\ ~InHand(k)
  BY <1>2 DEF Undisturbed, GivenUp
<1>4. ASSUME cancel' = cancel \/ cancel' = Idle, giving' \subseteq giving,
             \A j \in Legs : /\ Alive(j)' => Alive(j)
                             /\ InHand(j)' => InHand(j)
                             /\ (Intact' => flow'[j] = flow[j]),
             action'.leg \in {action.leg, 0}
      PROVE  GivenUp'
  BY <1>2, <1>3, <1>4 DEF GivenUp
<1>5. ASSUME cancel' = Idle, giving' = {}
      PROVE  GivenUp'
  BY <1>5 DEF GivenUp
<1>6. ASSUME NEW k \in Legs, Asked(k)
      PROVE  GivenUp'
  BY <1>5, <1>6, AskedAlone DEF Asked
<1>7. ASSUME NEW k \in Legs, Flow(k)
      PROVE  GivenUp'
  <2>1. flow[k] \notin {"none", "done"} /\ Busy(k)
    BY <1>7 DEF Flow, Collected, Holds, Dials, OriginateFails, Registers, Busy
  <2>2. giving = {}
    <3>1. ASSUME NEW j \in Legs, j \in giving
          PROVE  FALSE
      BY <1>1, <2>1, <3>1 DEF OneRequest, Busy, InOrder
    <3> QED
      BY <1>1, <3>1
  <2>3. giving' = {} /\ cancel' = cancel
    BY <1>7, <2>2 DEF Flow, Collected, Holds, Dials, OriginateFails, Registers
  <2>4. CASE Registers(k)
    BY <1>2, <1>5, <2>3, <2>4 DEF Registers
  <2>5. CASE ~Registers(k)
    <3>1. \A j \in Legs : j # k => flow'[j] = flow[j] /\ leg'[j] = leg[j]
      BY <1>1, <1>7 DEF Flow, Collected, Holds, Dials, OriginateFails, Registers
    <3>2. Alive(k)' => flow'[k] = "register"
      BY <1>1, <1>7, <2>5 DEF Flow, Collected, Holds, Dials, OriginateFails, Alive, InOrder
    <3>3. action'.leg \in {action.leg, 0}
      BY <1>1, <1>7, <2>5 DEF Flow, Collected, Holds, Dials, OriginateFails, Actions, Off
    <3>4. action.leg # k
      BY <1>7, <2>5 DEF Flow, Collected, Holds, Dials, OriginateFails, InOrder
    <3> QED
      BY <1>2, <1>3, <2>3, <3>1, <3>2, <3>3, <3>4 DEF GivenUp, Alive
  <2> QED
    BY <2>4, <2>5
<1>8. ASSUME NEW k \in Legs, GuardFires(k)
      PROVE  GivenUp'
  <2>1. UNCHANGED <<flow, h, action, cancel>>
    BY <1>8 DEF GuardFires
  <2>2. \A j \in Legs : Alive(j)' => Alive(j)
    BY <1>8, HungUp DEF GuardFires, Alive
  <2>3. CASE action.on /\ action.leg = k /\ ~action.answered
    <3>1. \A j \in Legs : ~InHand(j)
      BY <1>2, <2>3 DEF Undisturbed, Pursued
    <3>2. flow[k] = "done" /\ \A j \in Legs : Alive(j)' => Alive(j) /\ j # k
      BY <1>2, <1>8, <2>3, HungUp DEF GuardFires, InOrder
    <3>3. \A j \in Legs : Alive(j) => j = k
      BY <1>1, <2>3 DEF OneRequest, Busy
    <3>4. \A j \in Legs : ~Alive(j)' /\ ~InHand(j)'
      BY <2>1, <3>1, <3>2, <3>3 DEF InHand
    <3> QED
      BY <3>4 DEF GivenUp
  <2>4. CASE ~(action.on /\ action.leg = k /\ ~action.answered)
    <3>1. giving' = giving
      BY <1>8, <2>4 DEF GuardFires
    <3> QED
      BY <1>4, <2>1, <2>2, <3>1 DEF InHand
  <2> QED
    BY <2>3, <2>4
<1>9. ASSUME NEW k \in Legs, GuardClears(k)
      PROVE  GivenUp'
  BY <1>4, <1>9 DEF GuardClears, Alive, InHand, Off
<1>10. CASE CancelReads
  <2>1. \A j \in Legs : Alive(j)' => Alive(j) /\ (action.leg = 0 \/ j # action.leg)
    BY <1>1, <1>10, HungUp DEF CancelReads, Alive
  <2>2. UNCHANGED <<flow, h, giving, action>>
    BY <1>10 DEF CancelReads
  <2>3. \A j \in Legs : Alive(j) /\ Intact => action.leg = j \/ flow[j] = "register"
    BY <1>2 DEF Undisturbed, Pursued
  <2>4. \A j \in Legs : Alive(j)' => action'.leg # j /\ (Intact' => flow'[j] = "register")
    BY <1>2, <2>1, <2>2, <2>3
  <2>5. \A j \in Legs : InHand(j)' => InHand(j)
    BY <2>2 DEF InHand
  <2> QED
    BY <1>3, <2>1, <2>2, <2>4, <2>5 DEF GivenUp
<1>11. CASE CancelClears
  <2>1. UNCHANGED <<leg, flow, h, giving>> /\ cancel' = Idle /\ action'.leg = 0
    BY <1>11 DEF CancelClears, Off
  <2> QED
    BY <1>4, <2>1 DEF Alive, InHand
<1>12. ASSUME NEW k \in Legs, Agent(k)
       PROVE  GivenUp'
  <2>1. Alive(k) /\ UNCHANGED <<flow, cancel, giving, action>>
    BY <1>12 DEF Agent, AgentAnswers, AgentEnds, AgentPresses, Alive
  <2>2. \A j \in Legs : h'[j] \in {h[j], "answered"} /\ (Alive(j)' => Alive(j))
    BY <1>1, <1>12, <2>1 DEF Agent, AgentAnswers, AgentEnds, AgentPresses, Steps, LegHungUp, Alive
  <2> QED
    BY <1>4, <2>1, <2>2 DEF InHand
<1>13. ASSUME NEW k \in Legs, Handler(k)
       PROVE  GivenUp'
  <2>1. UNCHANGED <<flow, cancel, giving>>
    BY <1>13 DEF Handler, Answered, HelperStarts, Announced, Decides, Aborts, Resumes, Finalizes, Bridges
  <2>2. \A j \in Legs : j # k => h'[j] = h[j] /\ leg'[j] = leg[j]
    BY <1>1, <1>13
       DEF Handler, Answered, HelperStarts, Announced, Decides, Aborts, Resumes, Finalizes, Bridges,
       Steps, LegHungUp
  <2>3. Alive(k)' => Alive(k)
    BY <1>1, <1>13
       DEF Handler, Answered, HelperStarts, Announced, Decides, Aborts, Resumes, Finalizes, Bridges,
       LegHungUp, Alive
  <2>4. \A j \in Legs : Alive(j)' => Alive(j)
    BY <2>2, <2>3 DEF Alive
  <2>5. CASE Answered(k) /\ action.on
    BY <1>2, <1>5, <2>1, <2>5 DEF Answered
  <2>6. CASE ~(Answered(k) /\ action.on)
    <3>1. InHand(k)' => InHand(k)
      BY <1>1, <1>13, <2>6
         DEF Handler, Answered, HelperStarts, Announced, Decides, Aborts, Resumes, Finalizes,
             Bridges,
         Steps, InHand
    <3>2. \A j \in Legs : InHand(j)' => InHand(j)
      BY <2>2, <3>1 DEF InHand
    <3>3. action'.leg \in {action.leg, 0}
      <4>1. CASE Answered(k)
        BY <2>6, <4>1, ActionAfter
      <4>2. CASE HelperStarts(k) \/ Announced(k) \/ Aborts(k) \/ Finalizes(k) \/ Decides(k)
        BY <4>2, ActionAfter DEF HelperStarts, Announced, Aborts, Finalizes
      <4>3. CASE Bridges(k)
        <5>1. action.leg = k
          BY <1>2, <4>3 DEF Bridges, InHand, Undisturbed, Pursued
        <5> QED
          BY <4>3, <5>1, ActionAfter
      <4>4. CASE Resumes(k)
        BY <4>4 DEF Resumes, Off
      <4> QED
        BY <1>13, <4>1, <4>2, <4>3, <4>4 DEF Handler
    <3> QED
      BY <1>4, <2>1, <2>4, <3>2, <3>3
  <2> QED
    BY <2>5, <2>6
<1>14. CASE Speaks \/ SpeechEnds \/ CallerHangsUp
  <2>1. UNCHANGED <<leg, flow, h, cancel, giving, action>>
    BY <1>14 DEF Speaks, SpeechEnds, CallerHangsUp
  <2> QED
    BY <1>4, <2>1 DEF Alive, InHand
<1>15. CASE Ending
  BY <1>4, <1>15, EndingTakes, EndingSpares DEF Alive, InHand
<1> QED
  BY <1>6, <1>7, <1>8, <1>9, <1>10, <1>11, <1>12, <1>13, <1>14, <1>15 DEF Next, Ending

-----------------------------------------------------------------------------
(* What the caller hears.                                                   *)

LEMMA ResumesFree ==
    ASSUME TypeOK, InOrder, EndsInOrder, Undisturbed, Next, Clean'
    PROVE  \A k \in Legs : h'[k] = "resume" => ~moh' /\ ~Alive(k)'
<1> USE Arithmetic DEF shared, channels, fixed, ending, NoLegChange, NoMapChange
<1>1. /\ flow \in [Legs -> FlowAt] /\ leg \in [Legs -> LegAt] /\ h \in [Legs -> HandlerAt] /\ action.leg \in 0 .. MaxLegs
      /\ OneRequest
  BY Typed DEF Undisturbed
<1>2. SUFFICES ASSUME NEW k \in Legs, h'[k] = "resume"
               PROVE  ~moh' /\ ~Alive(k)'
  OBVIOUS
<1>3. h[k] = "resume" => ~moh /\ ~Alive(k) /\ Busy(k)
  BY DEF Undisturbed, HeldByAction, Busy
<1>4. ASSUME NEW j \in Legs, Asked(j) \/ Flow(j)
      PROVE  ~moh' /\ ~Alive(k)'
  <2>1. h[k] = "resume"
    BY <1>2, <1>4 DEF Asked, Flow, Collected, Holds, Dials, OriginateFails, Registers
  <2>2. ~Holds(j) /\ ~Dials(j)
    BY <1>1, <1>3, <2>1 DEF Holds, Dials, OneRequest, Busy, InOrder
  <2>3. leg' = leg /\ (moh' => moh)
    BY <1>4, <2>2 DEF Asked, Flow, Collected, OriginateFails, Registers
  <2> QED
    BY <1>3, <2>1, <2>3 DEF Alive
<1>5. ASSUME NEW j \in Legs, GuardFires(j) \/ GuardClears(j)
      PROVE  ~moh' /\ ~Alive(k)'
  <2>1. h[k] = "resume" /\ (moh' => moh)
    BY <1>2, <1>5 DEF GuardFires, GuardClears
  <2>2. Alive(k)' => Alive(k)
    BY <1>5, HungUp DEF GuardFires, GuardClears, Alive
  <2> QED
    BY <1>3, <2>1, <2>2
<1>6. CASE CancelReads \/ CancelClears
  <2>1. h[k] = "resume" /\ (moh' => moh)
    BY <1>2, <1>6 DEF CancelReads, CancelClears
  <2>2. Alive(k)' => Alive(k)
    BY <1>1, <1>6, HungUp DEF CancelReads, CancelClears, Alive
  <2> QED
    BY <1>3, <2>1, <2>2
<1>7. ASSUME NEW j \in Legs, Agent(j)
      PROVE  ~moh' /\ ~Alive(k)'
  <2>1. h[k] = "resume" /\ moh' = moh
    BY <1>1, <1>2, <1>7 DEF Agent, AgentAnswers, AgentEnds, AgentPresses, Steps
  <2>2. Alive(k)' => Alive(k)
    BY <1>1, <1>7 DEF Agent, AgentAnswers, AgentEnds, AgentPresses, LegHungUp, Alive
  <2> QED
    BY <1>3, <2>1, <2>2
<1>8. ASSUME NEW j \in Legs, Handler(j)
      PROVE  ~moh' /\ ~Alive(k)'
  <2>1. CASE Aborts(j) /\ j = k
    BY <1>1, <2>1 DEF Aborts, LegHungUp, Alive
  <2>2. CASE ~(Aborts(j) /\ j = k)
    <3>1. h[k] = "resume"
      <4>1. j # k => h'[k] = h[k]
        BY <1>1, <1>8
           DEF Handler, Answered, HelperStarts, Announced, Decides, Aborts, Resumes, Finalizes,
               Bridges, Steps
      <4>2. j = k => FALSE
        BY <1>1, <1>2, <1>8, <2>2
           DEF Handler, Answered, HelperStarts, Announced, Decides, Aborts, Resumes, Finalizes,
           Bridges, Steps
      <4> QED
        BY <1>2, <4>1, <4>2
    <3>2. moh' => moh
      BY <1>8 DEF Handler, Answered, HelperStarts, Announced, Decides, Aborts, Resumes, Finalizes, Bridges
    <3>3. Alive(k)' => Alive(k)
      BY <1>1, <1>8
         DEF Handler, Answered, HelperStarts, Announced, Decides, Aborts, Resumes, Finalizes,
             Bridges,
         LegHungUp, Alive
    <3> QED
      BY <1>3, <3>1, <3>2, <3>3
  <2> QED
    BY <2>1, <2>2
<1>9. CASE Speaks \/ SpeechEnds \/ CallerHangsUp
  BY <1>2, <1>3, <1>9 DEF Speaks, SpeechEnds, CallerHangsUp, Alive
<1>10. CASE Ending
  BY <1>2, <1>3, <1>10, EndingTakes DEF Alive
<1> QED
  BY <1>4, <1>5, <1>6, <1>7, <1>8, <1>9, <1>10 DEF Next, Ending

(* The action knows that the capture was on before the hold. *)
LEMMA PriorKept ==
    ASSUME TypeOK, InOrder, EndsInOrder, Undisturbed, Next, Clean', Present', "deaf" \notin odd',
           NEW k \in Legs, flow'[k] = "dial"
    PROVE  action'.prior = "on"
<1> USE Arithmetic DEF shared, channels, fixed, ending, NoLegChange, NoMapChange
<1>1. /\ flow \in [Legs -> FlowAt] /\ leg \in [Legs -> LegAt] /\ h \in [Legs -> HandlerAt] /\ action \in Actions
      /\ action.leg \in 0 .. MaxLegs /\ OneRequest
  BY Typed DEF Undisturbed
<1>2. Present /\ stored /\ "deaf" \notin odd /\ odd' \cap {"double", "crossed"} = {}
  BY PresentBefore, OddGrows DEF Clean, Orderly
<1>3. CASE Holds(k)
  <2>1. action.on /\ capture
    BY <1>2, <1>3 DEF Holds
  <2>2. action' = [action EXCEPT !.prior = "on"]
    BY <1>2, <1>3, <2>1 DEF Holds
  <2> QED
    BY <1>1, <2>2 DEF Actions
<1>4. CASE ~Holds(k)
  <2>1. flow[k] = "dial"
    <3>1. ASSUME NEW j \in Legs, Asked(j) \/ Flow(j)
          PROVE  flow[k] = "dial"
      BY <1>1, <1>4, <3>1 DEF Asked, Flow, Collected, Holds, Dials, OriginateFails, Registers
    <3>2. ASSUME NEW j \in Legs, Handler(j)
          PROVE  flow[k] = "dial"
      BY <1>1, <1>4, <3>2
         DEF Handler, Answered, HelperStarts, Announced, Decides, Aborts, Resumes, Finalizes,
             Bridges
    <3>3. ASSUME NEW j \in Legs, GuardFires(j) \/ GuardClears(j) \/ Agent(j)
          PROVE  flow[k] = "dial"
      BY <1>1, <1>4, <3>3 DEF GuardFires, GuardClears, Agent, AgentAnswers, AgentEnds, AgentPresses
    <3>4. ASSUME CancelReads \/ CancelClears \/ Speaks \/ SpeechEnds \/ CallerHangsUp
          PROVE  flow[k] = "dial"
      BY <1>1, <1>4, <3>4 DEF CancelReads, CancelClears, Speaks, SpeechEnds, CallerHangsUp
    <3>5. CASE Ending
      BY <3>5, EndingTakes
    <3> QED
      BY <3>1, <3>2, <3>3, <3>4, <3>5 DEF Next, Ending
  <2>2. action.prior = "on" /\ Busy(k)
    BY <1>2, <2>1 DEF Undisturbed, HeldByAction, Busy
  <2>3. ASSUME action'.prior = action.prior
        PROVE  action'.prior = "on"
    BY <2>2, <2>3
  <2>4. h[k] = "none" /\ k \notin giving
    BY <2>1 DEF InOrder
  <2>5. ASSUME NEW j \in Legs, Asked(j) \/ Flow(j)
        PROVE  action'.prior = action.prior
    <3>1. ~Asked(j)
      BY <2>2, AskedAlone
    <3>2. flow[j] \notin {"none", "done"}
      BY <2>5, <3>1 DEF Flow, Collected, Holds, Dials, OriginateFails, Registers
    <3>3. j = k
      BY <1>1, <2>2, <3>2 DEF OneRequest, Busy
    <3>4. Dials(k) \/ OriginateFails(k)
      BY <1>4, <2>1, <2>5, <3>1, <3>3 DEF Flow, Collected, Registers
    <3>5. flow'[k] # "dial"
      BY <1>1, <3>4 DEF Dials, OriginateFails
    <3> QED
      BY <3>5
  <2>6. ASSUME NEW j \in Legs, GuardFires(j) \/ GuardClears(j)
        PROVE  action'.prior = action.prior
    <3>1. j \notin giving
      BY <1>1, <2>2, <2>4 DEF OneRequest, Busy
    <3> QED
      BY <2>6, <3>1 DEF GuardFires, GuardClears
  <2>7. ASSUME NEW j \in Legs, Handler(j)
        PROVE  FALSE
    <3>1. h[j] \notin {"none", "done"}
      BY <2>7 DEF Handler, Answered, HelperStarts, Announced, Decides, Aborts, Resumes, Finalizes, Bridges
    <3> QED
      BY <1>1, <2>2, <2>4, <3>1 DEF OneRequest, Busy
  <2>8. CASE CancelReads \/ CancelClears
    <3>1. ~CancelClears
      BY <1>2, <2>1 DEF CancelClears
    <3> QED
      BY <2>3, <2>8, <3>1 DEF CancelReads
  <2>9. ASSUME (\E j \in Legs : Agent(j)) \/ Ending
        PROVE  action'.prior = action.prior
    BY <2>9, EndingTakes DEF Agent, AgentAnswers, AgentEnds, AgentPresses
  <2>10. CASE Speaks \/ SpeechEnds \/ CallerHangsUp
    BY <2>3, <2>10 DEF Speaks, SpeechEnds, CallerHangsUp
  <2> QED
    BY <2>3, <2>5, <2>6, <2>7, <2>8, <2>9, <2>10 DEF Next, Ending
<1> QED
  BY <1>3, <1>4

LEMMA HeldKeeps ==
    ASSUME TypeOK, InOrder, EndsInOrder, Undisturbed, Next, Clean', Present', "deaf" \notin odd', ai', caller' = "up", Held'
    PROVE  action'.on
<1> USE Arithmetic DEF shared, channels, fixed, ending, NoLegChange, NoMapChange
<1>1. /\ flow \in [Legs -> FlowAt] /\ h \in [Legs -> HandlerAt] /\ action \in Actions
      /\ capture \in BOOLEAN /\ speaking \in BOOLEAN /\ moh \in BOOLEAN /\ OneRequest
  BY Typed DEF Undisturbed, TypeOK
<1>2. Present /\ stored /\ ai /\ caller = "up" /\ "deaf" \notin odd /\ odd' \cap {"double", "crossed"} = {}
  <2>1. Present /\ stored /\ ai /\ "deaf" \notin odd /\ odd' \cap {"double", "crossed"} = {}
    BY PresentBefore, OddGrows DEF Clean, Orderly
  <2>2. caller = "up"
    <3>1. ASSUME NEW j \in Legs, Asked(j) \/ Flow(j)
          PROVE  caller' = caller
      BY <3>1 DEF Asked, Flow, Collected, Holds, Dials, OriginateFails, Registers
    <3>2. ASSUME NEW j \in Legs, Handler(j)
          PROVE  caller' = caller
      BY <3>2 DEF Handler, Answered, HelperStarts, Announced, Decides, Aborts, Resumes, Finalizes, Bridges
    <3>3. ASSUME NEW j \in Legs, GuardFires(j) \/ GuardClears(j) \/ Agent(j)
          PROVE  caller' = caller
      BY <3>3 DEF GuardFires, GuardClears, Agent, AgentAnswers, AgentEnds, AgentPresses
    <3>4. CASE CancelReads \/ CancelClears \/ Speaks \/ SpeechEnds \/ CallerHangsUp
      BY <3>4 DEF CancelReads, CancelClears, Speaks, SpeechEnds, CallerHangsUp
    <3>5. CASE Ending
      BY <3>5, EndingTakes
    <3> QED
      BY <3>1, <3>2, <3>3, <3>4, <3>5 DEF Next, Ending
  <2> QED
    BY <2>1, <2>2
<1>3. Held => action.on
  BY <1>2 DEF Held, Undisturbed, HeldByAction
<1>4. ASSUME Held, action'.on = action.on
      PROVE  action'.on
  BY <1>3, <1>4
<1>5. ASSUME NEW k \in Legs, Asked(k)
      PROVE  action'.on
  BY <1>5 DEF Asked, Off
<1>6. ASSUME NEW k \in Legs, Flow(k)
      PROVE  action'.on
  <2>1. CASE Collected(k) \/ Dials(k)
    BY <1>4, <2>1 DEF Collected, Dials, Held
  <2>2. CASE Holds(k)
    <3>1. action.on
      BY <1>2, <2>2 DEF Holds
    <3> QED
      BY <1>1, <2>2, <3>1 DEF Holds, Actions
  <2>3. CASE OriginateFails(k)
    <3>1. action.on /\ action.prior = "on"
      BY <1>2, <2>3 DEF OriginateFails, Undisturbed, HeldByAction
    <3>2. ~moh' /\ capture'
      BY <1>2, <2>3, <3>1 DEF OriginateFails
    <3> QED
      BY <3>2 DEF Held
  <2>4. CASE Registers(k)
    <3>1. action.on
      BY <1>2, <2>4 DEF Registers
    <3> QED
      BY <1>1, <2>4, <3>1 DEF Registers, Actions
  <2> QED
    BY <1>6, <2>1, <2>2, <2>3, <2>4 DEF Flow
<1>7. ASSUME NEW k \in Legs, GuardFires(k) \/ Agent(k)
      PROVE  action'.on
  <2>1. UNCHANGED <<moh, capture, speaking, action>>
    BY <1>2, <1>7 DEF GuardFires, Agent, AgentAnswers, AgentEnds, AgentPresses
  <2> QED
    BY <1>4, <2>1 DEF Held
<1>8. ASSUME NEW k \in Legs, GuardClears(k)
      PROVE  action'.on
  BY <1>8 DEF GuardClears, Held
<1>9. CASE CancelReads
  BY <1>4, <1>9 DEF CancelReads, Held
<1>10. CASE CancelClears
  BY <1>10 DEF CancelClears, Held
<1>11. ASSUME NEW k \in Legs, Handler(k)
       PROVE  action'.on
  <2>1. CASE Answered(k)
    <3>1. UNCHANGED <<moh, capture, speaking>>
      BY <2>1 DEF Answered
    <3> QED
      BY <1>3, <2>1, <3>1, ActionAfter DEF Held
  <2>2. CASE Resumes(k)
    <3>1. ~moh /\ UNCHANGED moh /\ capture'
      BY <2>2 DEF Resumes, Undisturbed, HeldByAction
    <3> QED
      BY <3>1 DEF Held
  <2>3. CASE HelperStarts(k) \/ Announced(k) \/ Decides(k) \/ Aborts(k) \/ Finalizes(k) \/ Bridges(k)
    <3>1. InHand(k)
      BY <2>3 DEF HelperStarts, Announced, Decides, Aborts, Finalizes, Bridges, InHand
    <3>2. action.on
      BY <1>2, <3>1 DEF Undisturbed, Pursued
    <3> QED
      BY <2>3, <3>2, ActionAfter DEF HelperStarts, Announced, Aborts, Finalizes
  <2> QED
    BY <1>11, <2>1, <2>2, <2>3 DEF Handler
<1>12. CASE Speaks \/ SpeechEnds
  <2>1. Held
    BY <1>1, <1>12 DEF Speaks, SpeechEnds, Held
  <2> QED
    BY <1>4, <1>12, <2>1 DEF Speaks, SpeechEnds
<1>13. CASE CallerHangsUp
  BY <1>13 DEF CallerHangsUp
<1>14. CASE Ending
  BY <1>4, <1>14, EndingTakes
<1> QED
  BY <1>5, <1>6, <1>7, <1>8, <1>9, <1>10, <1>11, <1>12, <1>13, <1>14 DEF Next, Ending

-----------------------------------------------------------------------------
(* Helper media and agents on the line.                                     *)

LEMMA EndingFollowed ==
    ASSUME TypeOK, Undisturbed, Ending
    PROVE  Followed'
<1> DEFINE WithMedia == {"announce", "wait", "failed", "declined", "finalize"}
           OnLine(k) == leg[k] \in {"up", "bridged"}
           Found(k)  == (~ActionRead /\ action.leg = k) \/ (cleanup = "read" /\ read = k)
<1>1. /\ leg \in [Legs -> LegAt] /\ h \in [Legs -> HandlerAt] /\ action.leg \in 0 .. MaxLegs /\ helper \subseteq Legs
      /\ read \in 0 .. MaxLegs /\ Followed
  BY Typed DEF Undisturbed, TypeOK
<1>2. CASE CleanupReads
  <2>1. ~ActionRead /\ Present /\ cleanup' = "read" /\ read' = action.leg /\ UNCHANGED <<leg, h>>
    BY <1>2 DEF CleanupReads, ActionRead, Present, channels
  <2>2. \A k \in helper : action.leg = k
    BY <1>1, <2>1 DEF Followed, Undisturbed, Pursued, InHand
  <2>3. helper' = {}
    BY <1>2, <2>2 DEF CleanupReads
  <2> QED
    BY <1>1, <2>1, <2>3 DEF Followed, ActionRead
<1>3. CASE CleanupReleases
  <2>1. ActionRead /\ cleanup = "read" /\ UNCHANGED <<h, helper>>
    BY <1>3 DEF CleanupReleases, ActionRead
  <2>2. \A k \in Legs : OnLine(k)' => OnLine(k) /\ read # k
    BY <1>1, <1>3, HungUp DEF CleanupReleases, Alive
  <2> QED
    BY <1>1, <2>1, <2>2 DEF Followed
<1>4. CASE CleanupFrees \/ CleanupRemoves
  <2>1. ActionRead /\ cleanup # "read" /\ UNCHANGED <<leg, helper>>
    BY <1>4 DEF CleanupFrees, CleanupRemoves, ActionRead, channels
  <2>2. \A k \in Legs : h[k] = "answered" => h'[k] = "answered"
    BY <1>1, <1>4 DEF CleanupFrees, CleanupRemoves, Interrupted
  <2> QED
    BY <1>1, <2>1, <2>2 DEF Followed
<1>5. CASE CleanupCancels \/ CleanupStops \/ CallerEnded \/ ToolsDie \/ \E k \in Legs : LegEnded(k)
  <2>1. UNCHANGED <<leg, h, helper, action>> /\ (UNCHANGED ending \/ (~ActionRead /\ ~ActionRead'))
    BY <1>5 DEF CleanupCancels, CleanupStops, CallerEnded, ToolsDie, LegEnded, ActionRead, shared, channels, ending
  <2> QED
    BY <1>1, <2>1 DEF Followed, ActionRead, ending
<1> QED
  BY <1>2, <1>3, <1>4, <1>5 DEF Ending, Cleanup

LEMMA FollowedKeeps ==
    ASSUME TypeOK, InOrder, EndsInOrder, Undisturbed, Next, Clean'
    PROVE  Followed'
<1> USE Arithmetic DEF shared, channels, fixed, ending, NoLegChange, NoMapChange
<1> DEFINE WithMedia == {"announce", "wait", "failed", "declined", "finalize"}
           OnLine(k) == leg[k] \in {"up", "bridged"}
           Found(k)  == (~ActionRead /\ action.leg = k) \/ (cleanup = "read" /\ read = k)
<1>1. /\ flow \in [Legs -> FlowAt] /\ leg \in [Legs -> LegAt] /\ h \in [Legs -> HandlerAt] /\ action \in Actions
      /\ action.leg \in 0 .. MaxLegs /\ OneRequest /\ helper \subseteq Legs
  BY Typed DEF Undisturbed
<1>2. odd' \cap {"double", "crossed"} = {} /\ "late" \notin odd'
  BY DEF Clean, Orderly
<1>3. /\ \A k \in helper : h[k] \in WithMedia
      /\ ActionRead => helper = {}
      /\ \A k \in Legs : OnLine(k) => h[k] = "answered" \/ Found(k)
      /\ ~ActionRead => Present
      /\ Present => stored
  BY DEF Undisturbed, Followed, EndsInOrder, ActionRead, Present
<1>4. ASSUME helper' \subseteq helper, UNCHANGED ending, \A k \in helper' : h'[k] \in WithMedia,
             \A k \in Legs : OnLine(k)' => h'[k] = "answered" \/ Found(k)'
      PROVE  Followed'
  BY <1>1, <1>3, <1>4 DEF Followed, ActionRead
<1>5. ASSUME helper' \subseteq helper, UNCHANGED ending, h' = h, \A k \in Legs : ~OnLine(k)'
      PROVE  Followed'
  BY <1>3, <1>4, <1>5
<1>6. ASSUME helper' \subseteq helper, UNCHANGED ending, h' = h, action'.leg = action.leg \/ ActionRead,
             \A k \in Legs : OnLine(k)' => OnLine(k)
      PROVE  Followed'
  <2>1. \A k \in Legs : Found(k) => Found(k)'
    BY <1>6 DEF ActionRead
  <2> QED
    BY <1>3, <1>4, <1>6, <2>1
<1>7. ASSUME NEW k \in Legs, Asked(k)
      PROVE  Followed'
  <2>1. \A j \in Legs : ~Alive(j)
    BY <1>7, AskedAlone DEF Busy
  <2> QED
    BY <1>5, <1>7, <2>1 DEF Asked, Alive
<1>8. ASSUME NEW k \in Legs, Flow(k)
      PROVE  Followed'
  <2>1. flow[k] \notin {"none", "done"} /\ Busy(k)
    BY <1>8 DEF Flow, Collected, Holds, Dials, OriginateFails, Registers, Busy
  <2>2. \A j \in Legs : j # k => ~OnLine(j)
    BY <1>1, <2>1, Sole DEF Alive
  <2>3. UNCHANGED <<h, helper, ending>>
    BY <1>8 DEF Flow, Collected, Holds, Dials, OriginateFails, Registers
  <2>4. CASE Registers(k)
    <3>1. action'.leg \in {action.leg, k} /\ leg' = leg
      BY <1>1, <2>4 DEF Registers, Actions
    <3>2. Found(k) => Found(k)'
      BY <2>3, <3>1 DEF ActionRead
    <3> QED
      BY <1>3, <1>4, <2>2, <2>3, <3>1, <3>2
  <2>5. CASE ~Registers(k)
    <3>1. \A j \in Legs : j # k => leg'[j] = leg[j]
      BY <1>1, <1>8 DEF Flow, Collected, Holds, Dials, OriginateFails, Registers
    <3>2. ~OnLine(k)'
      BY <1>1, <1>8, <2>5 DEF Flow, Collected, Holds, Dials, OriginateFails, InOrder
    <3> QED
      BY <1>5, <2>2, <2>3, <3>1, <3>2
  <2> QED
    BY <2>4, <2>5
<1>9. ASSUME NEW k \in Legs, GuardFires(k)
      PROVE  Followed'
  <2>1. \A j \in Legs : OnLine(j)' => OnLine(j)
    BY <1>9, HungUp DEF GuardFires
  <2> QED
    BY <1>6, <1>9, <2>1 DEF GuardFires
<1>10. ASSUME NEW k \in Legs, GuardClears(k)
       PROVE  Followed'
  <2>1. giving # {} /\ UNCHANGED <<leg, h, helper, ending>>
    BY <1>10 DEF GuardClears
  <2>2. CASE ActionRead
    BY <1>6, <2>1, <2>2
  <2>3. CASE ~ActionRead
    <3>1. \A j \in Legs : ~Alive(j)
      BY <1>3, <2>1, <2>3 DEF Undisturbed, GivenUp
    <3> QED
      BY <1>5, <2>1, <3>1 DEF Alive
  <2> QED
    BY <2>2, <2>3
<1>11. CASE CancelReads
  <2>1. \A j \in Legs : OnLine(j)' => OnLine(j)
    BY <1>1, <1>11, HungUp DEF CancelReads
  <2> QED
    BY <1>6, <1>11, <2>1 DEF CancelReads
<1>12. CASE CancelClears
  <2>1. cancel # Idle /\ UNCHANGED <<leg, h, helper, ending>>
    BY <1>12 DEF CancelClears, Idle
  <2>2. CASE ActionRead
    BY <1>6, <2>1, <2>2
  <2>3. CASE ~ActionRead
    <3>1. \A j \in Legs : OnLine(j) => h[j] = "answered"
      BY <1>3, <2>1, <2>3 DEF Undisturbed, GivenUp, Alive, ActionRead
    <3> QED
      BY <1>3, <1>4, <2>1, <3>1
  <2> QED
    BY <2>2, <2>3
<1>13. ASSUME NEW k \in Legs, AgentAnswers(k)
       PROVE  Followed'
  <2>1. h[k] = "none" /\ h' = [h EXCEPT ![k] = "answered"] /\ leg' = [leg EXCEPT ![k] = "up"]
    BY <1>13 DEF AgentAnswers, Steps, InOrder
  <2>2. UNCHANGED <<helper, ending, action>>
    BY <1>13 DEF AgentAnswers
  <2>3. k \notin helper
    BY <1>3, <2>1
  <2>4. \A j \in helper : h'[j] \in WithMedia
    BY <1>1, <1>3, <2>1, <2>3
  <2>5. \A j \in Legs : OnLine(j)' => h'[j] = "answered" \/ Found(j)
    BY <1>1, <1>3, <2>1
  <2>6. \A j \in Legs : Found(j) => Found(j)'
    BY <2>2 DEF ActionRead
  <2> QED
    BY <1>4, <2>2, <2>4, <2>5, <2>6
<1>14. ASSUME NEW k \in Legs, AgentEnds(k) \/ AgentPresses(k)
       PROVE  Followed'
  <2>1. \A j \in Legs : OnLine(j)' => OnLine(j)
    BY <1>14, HungUp DEF AgentEnds, AgentPresses
  <2> QED
    BY <1>6, <1>14, <2>1 DEF AgentEnds, AgentPresses
<1>15. ASSUME NEW k \in Legs, Handler(k)
       PROVE  Followed'
  <2>1. h[k] \notin {"none", "done"} /\ Busy(k)
    BY <1>15
       DEF Handler, Answered, HelperStarts, Announced, Decides, Aborts, Resumes, Finalizes,
           Bridges, Busy
  <2>2. \A j \in Legs : j # k => h'[j] = h[j] /\ leg'[j] = leg[j]
    BY <1>1, <1>15
       DEF Handler, Answered, HelperStarts, Announced, Decides, Aborts, Resumes, Finalizes, Bridges,
       Steps, LegHungUp
  <2>3. \A j \in Legs : j # k => ~OnLine(j)' /\ j \notin helper
    BY <1>1, <1>3, <2>1, <2>2, Sole DEF Alive
  <2>4. UNCHANGED ending
    BY <1>15
       DEF Handler, Answered, HelperStarts, Announced, Decides, Aborts, Resumes, Finalizes, Bridges
  <2>5. ASSUME OnLine(k)' => OnLine(k) /\ h[k] # "answered", action' = action \/ action'.leg \in {action.leg, k}
         PROVE  OnLine(k)' => Found(k)'
    BY <1>3, <2>4, <2>5 DEF ActionRead
  <2>6. ASSUME helper' \subseteq helper, k \in helper' => h'[k] \in WithMedia,
               OnLine(k)' => h'[k] = "answered" \/ Found(k)'
        PROVE  Followed'
    BY <1>1, <1>4, <2>3, <2>6, <2>4
  <2>7. CASE Answered(k)
    <3>1. k \notin helper /\ UNCHANGED helper
      BY <1>3, <2>7 DEF Answered
    <3>2. CASE stored /\ action.on
      <4>1. ~ActionRead
        BY <1>2, <2>7, <3>2 DEF Answered
      <4>2. Found(k)'
        BY <2>7, <2>4, <3>2, <4>1, ActionAfter DEF ActionRead
      <4> QED
        BY <2>6, <3>1, <4>2
    <3>3. CASE ~(stored /\ action.on)
      <4>1. LegHungUp(k)
        BY <2>7, <3>3 DEF Answered
      <4>2. ~OnLine(k)'
        BY <1>1, <4>1, HungUp DEF Alive
      <4> QED
        BY <2>6, <3>1, <4>2
    <3> QED
      BY <3>2, <3>3
  <2>8. CASE HelperStarts(k)
    <3>1. /\ UNCHANGED <<leg, action>>
          /\ helper' = helper \/ (helper' = helper \cup {k} /\ ~ActionRead /\ h'[k] \in WithMedia)
      BY <1>1, <1>2, <2>8 DEF HelperStarts, Steps
    <3>2. OnLine(k)' => Found(k)'
      BY <2>8, <2>5, <3>1 DEF HelperStarts
    <3>3. k \notin helper
      BY <1>3, <2>8 DEF HelperStarts
    <3>4. ASSUME NEW j \in helper'
          PROVE  h'[j] \in WithMedia
      <4>1. CASE j = k
        BY <3>1, <3>3, <4>1
      <4>2. CASE j # k
        <5>1. j \in helper /\ j \in Legs
          BY <1>1, <3>1, <4>2
        <5> QED
          BY <1>3, <2>2, <4>2, <5>1
      <4> QED
        BY <4>1, <4>2
    <3>5. ActionRead' => helper' = {}
      BY <1>3, <2>4, <3>1 DEF ActionRead
    <3> QED
      BY <1>1, <2>3, <3>1, <3>2, <3>4, <3>5 DEF Followed
  <2>9. CASE Announced(k)
    <3>1. UNCHANGED <<leg, action>> /\ h'[k] \in WithMedia /\ helper' \subseteq helper
      BY <1>1, <2>9 DEF Announced, Steps
    <3>2. OnLine(k)' => Found(k)'
      BY <2>9, <2>5, <3>1 DEF Announced
    <3> QED
      BY <2>6, <3>1, <3>2
  <2>10. CASE Decides(k)
    <3>1. UNCHANGED <<leg, helper>> /\ action'.leg = action.leg /\ (stored => h'[k] \in WithMedia)
      BY <1>1, <2>10, ActionAfter DEF Decides, Steps
    <3>2. OnLine(k)' => Found(k)'
      BY <2>10, <2>5, <3>1 DEF Decides
    <3>3. ~stored => helper = {}
      BY <1>3
    <3> QED
      BY <2>6, <3>1, <3>2, <3>3
  <2>11. CASE Aborts(k)
    <3>1. helper' = helper \ {k} /\ LegHungUp(k)
      BY <2>11 DEF Aborts
    <3>2. ~OnLine(k)'
      BY <1>1, <3>1, HungUp DEF Alive
    <3> QED
      BY <2>6, <3>1, <3>2
  <2>12. CASE Resumes(k)
    <3>1. UNCHANGED <<helper, leg>> /\ k \notin helper
      BY <1>3, <2>12 DEF Resumes
    <3>2. ~OnLine(k)
      BY <2>12 DEF Resumes, Undisturbed, HeldByAction, Alive
    <3> QED
      BY <2>6, <3>1, <3>2
  <2>13. CASE Finalizes(k)
    <3>1. helper' = helper \ {k} /\ UNCHANGED <<leg, action>>
      BY <2>13 DEF Finalizes
    <3>2. OnLine(k)' => Found(k)'
      BY <2>13, <2>5, <3>1 DEF Finalizes
    <3> QED
      BY <2>6, <3>1, <3>2
  <2>14. CASE Bridges(k)
    <3>1. helper' = helper /\ k \notin helper
      BY <1>3, <2>14 DEF Bridges
    <3>2. OnLine(k)' => OnLine(k)
      BY <1>1, <2>14 DEF Bridges
    <3>3. action' = action \/ action'.leg = k
      BY <2>14, ActionAfter
    <3>4. OnLine(k)' => Found(k)'
      BY <2>14, <2>5, <3>2, <3>3 DEF Bridges
    <3> QED
      BY <2>6, <3>1, <3>4
  <2> QED
    BY <1>15, <2>7, <2>8, <2>9, <2>10, <2>11, <2>12, <2>13, <2>14 DEF Handler
<1>16. CASE Speaks \/ SpeechEnds \/ CallerHangsUp
  <2>1. UNCHANGED <<helper, ending, h, action, leg>>
    BY <1>16 DEF Speaks, SpeechEnds, CallerHangsUp
  <2> QED
    BY <1>6, <2>1
<1>17. CASE Ending
  BY <1>17, EndingFollowed DEF EndsInOrder
<1> QED
  BY <1>7, <1>8, <1>9, <1>10, <1>11, <1>12, <1>13, <1>14, <1>15, <1>16, <1>17 DEF Next, Agent, Ending

-----------------------------------------------------------------------------
(* The theorems.                                                            *)

LEMMA Start == Init => IInv
<1> SUFFICES ASSUME Init
             PROVE  IInv
  OBVIOUS
<1> USE DEF Init
<1>1. action = [on |-> FALSE, leg |-> 0, answered |-> FALSE, decision |-> "none", prior |-> "unset"]
  BY DEF Off
<1>2. /\ \A k \in Legs : flow[k] = "none" /\ leg[k] = "none" /\ h[k] = "none"
      /\ mapped = {} /\ guard = {} /\ giving = {} /\ helper = {} /\ stored /\ caller = "up"
      /\ ~moh /\ capture /\ cancel = Idle
  OBVIOUS
<1>3. TypeOK
  <2>1. action \in Actions
    BY <1>1, Arithmetic DEF Actions
  <2>2. /\ flow \in [Legs -> FlowAt] /\ leg \in [Legs -> LegAt] /\ h \in [Legs -> HandlerAt]
        /\ digit \in [Legs -> {"none", "accept", "other"}]
    BY DEF FlowAt, LegAt, HandlerAt
  <2>3. screening \in BOOLEAN /\ streaming \in BOOLEAN
    BY TransferAssumption
  <2>4. cancel \in 0 .. 1 /\ cleanup \in CleanupAt /\ read \in 0 .. MaxLegs
    BY Arithmetic DEF Idle, CleanupAt
  <2> QED
    BY <2>1, <2>2, <2>3, <2>4 DEF TypeOK
<1>4. InOrder
  BY <1>1, <1>2, Arithmetic DEF InOrder
<1>5. \A k \in Legs : ~Busy(k) /\ ~Alive(k) /\ ~InHand(k)
  BY <1>2 DEF Busy, Alive, InHand
<1>6. OneRequest /\ EndsInOrder
  BY <1>2, <1>5 DEF OneRequest, EndsInOrder
<1>7. Pursued /\ MappedOwn /\ GivenUp
  BY <1>2, <1>5 DEF Pursued, MappedOwn, GivenUp
<1>8. HeldByAction /\ Followed
  BY <1>2, <1>5 DEF HeldByAction, Followed, ActionRead
<1> QED
  BY <1>3, <1>4, <1>6, <1>7, <1>8 DEF IInv, Undisturbed

LEMMA Step == IInv /\ [Next]_vars => IInv'
<1>1. ASSUME IInv, Next
      PROVE  IInv'
  <2>1. TypeOK' /\ InOrder' /\ EndsInOrder'
    BY <1>1, TypeKeeps, OrderKeeps, EndsKeeps DEF IInv
  <2>2. ASSUME Clean'
        PROVE  Undisturbed'
    <3>1. TypeOK /\ InOrder /\ EndsInOrder /\ Undisturbed
      BY <1>1, <2>2, CleanBefore DEF IInv
    <3>2. OneRequest' /\ Pursued'
      BY <1>1, <2>2, <3>1, OneRequestKeeps, PursuedKeeps
    <3>3. MappedOwn' /\ GivenUp' /\ Followed'
      BY <1>1, <2>2, <3>1, MappedOwnKeeps, GivenUpKeeps, FollowedKeeps
    <3>4. HeldByAction'
      <4>1. \A k \in Legs : h'[k] = "resume" => ~moh' /\ ~Alive(k)'
        BY <1>1, <2>2, <3>1, ResumesFree
      <4>2. "deaf" \notin odd' /\ Present' => \A k \in Legs : flow'[k] = "dial" => action'.prior = "on"
        BY <1>1, <2>2, <3>1, PriorKept
      <4>3. "deaf" \notin odd' /\ Present' /\ ai' /\ caller' = "up" /\ Held' => action'.on
        BY <1>1, <2>2, <3>1, HeldKeeps
      <4> QED
        BY <4>1, <4>2, <4>3 DEF HeldByAction, Held
    <3> QED
      BY <3>2, <3>3, <3>4 DEF Undisturbed
  <2> QED
    BY <2>1, <2>2 DEF IInv
<1>2. ASSUME IInv, UNCHANGED vars
      PROVE  IInv'
  <2>1. UNCHANGED <<screening, streaming, cleanup, read, caller, stored, ai, moh, capture, speaking, action, leg, ended, mapped,
                    digit, guard, helper, flow, h, giving, cancel, odd>>
    BY <1>2 DEF vars, shared, channels
  <2>2. TypeOK' /\ InOrder' /\ EndsInOrder' /\ (Clean' => Clean)
    BY <1>2, <2>1 DEF IInv, TypeOK, InOrder, EndsInOrder, Present, Intact, Clean, Orderly
  <2>3. Undisturbed => Undisturbed'
    BY <2>1 DEF Undisturbed, OneRequest, Pursued, MappedOwn, GivenUp, HeldByAction, Followed,
       Busy, Alive, InHand, Present, Intact, ActionRead
  <2> QED
    BY <1>2, <2>2, <2>3 DEF IInv
<1> QED
  BY <1>1, <1>2

(* What is known of the session, the action, the legs and the handlers in  *)
(* every reachable state.                                                   *)
THEOREM Safety == Spec => []IInv
BY Start, Step, PTL DEF Spec

(* For any number of requests every reachable state is well typed.          *)
THEOREM TypeCorrect == Spec => []TypeOK
<1>1. IInv => TypeOK
  BY DEF IInv
<1> QED
  BY <1>1, Safety, PTL

(* A caller who is not being transferred is neither on hold nor unheard,    *)
(* however the transfer ended, but for the exceptions that CallerResumed    *)
(* names.                                                                   *)
THEOREM Resumed == Spec => []CallerResumed
<1>1. IInv => CallerResumed
  BY DEF IInv, EndsInOrder, Present, Undisturbed, HeldByAction, CallerResumed, Clean, Orderly
<1> QED
  BY <1>1, Safety, PTL

(* When the cleanup is over no helper media is left, and no agent but one   *)
(* whose answer has not been handled yet, unless something came after the   *)
(* cleanup had read the action (OtherLegCleanedUp, which the code violates).*)
THEOREM Released == Spec => []AgentReleased
<1>1. IInv => AgentReleased
  BY DEF IInv, Undisturbed, Followed, ActionRead, AgentReleased, Clean
<1> QED
  BY <1>1, Safety, PTL

(* The end of a leg that was declined, cancelled or given up is not the     *)
(* end of the call.                                                         *)
THEOREM Harmless == Spec => GivenUpHarmless
<1> DEFINE Harm == \A k \in Legs : k \in ended /\ (action.leg # k \/ k \in giving) /\ Orderly
                                       => (ended' = ended \ {k} => cleanup' = cleanup)
<1>1. ASSUME IInv, Next
      PROVE  Harm
  <2> SUFFICES ASSUME NEW k \in Legs, k \in ended, action.leg # k \/ k \in giving, Orderly,
                      ended' = ended \ {k}
               PROVE  cleanup' = cleanup
    OBVIOUS
  <2>1. CASE Cleanup
    <3>1. ended \subseteq ended'
      BY <2>1 DEF Cleanup, CleanupCancels, CleanupStops, CleanupReads, CleanupReleases, CleanupFrees,
         CleanupRemoves, LegHungUp, channels
    <3> QED
      BY <3>1
  <2>2. CASE CallerEnded
    BY <2>2 DEF CallerEnded, channels
  <2>3. ASSUME NEW j \in Legs, LegEnded(j)
        PROVE  cleanup' = cleanup
    <3>1. j = k
      BY <2>3 DEF LegEnded
    <3>2. CASE cleanup = "none"
      <4>1. Clean /\ Present
        BY <1>1, <3>2 DEF IInv, EndsInOrder, Intact, Present, Clean
      <4>2. k \notin mapped
        BY <1>1, <4>1 DEF IInv, Undisturbed, MappedOwn
      <4> QED
        BY <2>3, <3>1, <4>2 DEF LegEnded
    <3>3. CASE cleanup # "none"
      BY <2>3, <3>3 DEF LegEnded
    <3> QED
      BY <3>2, <3>3
  <2>4. CASE ToolsDie
    BY <2>4 DEF ToolsDie, ending
  <2>5. CASE ~Ending
    BY <1>1, <2>5, NotEnding DEF ending
  <2> QED
    BY <2>1, <2>2, <2>3, <2>4, <2>5 DEF Ending
<1>2. ASSUME UNCHANGED vars
      PROVE  Harm
  BY <1>2 DEF vars
<1>3. IInv /\ [Next]_vars => [Harm]_vars
  BY <1>1, <1>2
<1> QED
  BY <1>3, Safety, PTL DEF Spec, GivenUpHarmless

-----------------------------------------------------------------------------
(* A transfer is being decided.                                             *)

(* The bridge refused the agent, and the handler took it for a success.     *)
CouldNotJoin == action.decision = "accepted" /\ "refused" \in odd /\ action.leg \in mapped

(* Its request or the handler of its agent is at work, the agent has joined *)
(* the caller, it is being given up, its guard sleeps, or the end of its    *)
(* leg, which ends the call, is still to be handled.                        *)
(* What is left is the agent who accepted and could not join.               *)
Deciding ==
    \/ \E k \in Legs : flow[k] \notin {"none", "done"} \/ h[k] \notin {"none", "done"} \/ leg[k] = "bridged"
    \/ cancel # Idle \/ giving # {}
    \/ action.leg \in guard /\ ~action.answered
    \/ action.leg \in ended \cap mapped
    \/ CouldNotJoin

(* Before the agent's answer it is the request, the guard or the            *)
(* cancellation that goes on.                                               *)
Requested ==
    \/ \E k \in Legs : flow[k] \notin {"none", "done"}
    \/ cancel # Idle \/ giving # {} \/ action.leg \in guard

(* After it, the handler of that leg; until it resumes the caller the leg   *)
(* is mapped.                                                               *)
Handled ==
    /\ action.leg \in Legs /\ (action.leg \in mapped \/ h[action.leg] = "resume")
    /\ \/ h[action.leg] \notin {"none", "done"} \/ leg[action.leg] = "bridged" \/ action.leg \in ended
       \/ CouldNotJoin

DecidingInv ==
    Clean /\ cleanup = "none" /\ action.on => IF action.answered THEN Handled ELSE Requested

LEMMA DecidingKeeps ==
    ASSUME IInv, DecidingInv, Next, Clean', cleanup' = "none", action'.on
    PROVE  IF action'.answered THEN Handled' ELSE Requested'
<1>1. TypeOK /\ InOrder /\ EndsInOrder /\ Clean /\ Undisturbed /\ stored /\ Present /\ Intact /\ cleanup = "none"
  <2>1. TypeOK /\ InOrder /\ EndsInOrder /\ Clean /\ Undisturbed
    BY CleanBefore DEF IInv
  <2>2. cleanup = "none"
    BY NotEnding DEF Ending, Cleanup, CleanupCancels, CleanupStops, CleanupReads, CleanupReleases,
       CleanupFrees, CleanupRemoves, ToolsDie, CallerEnded, LegEnded, ending
  <2> QED
    BY <2>1, <2>2 DEF EndsInOrder, Present, Intact
<1>2. /\ action.on => IF action.answered THEN Handled ELSE Requested
      /\ action \in Actions /\ action.leg \in 0 .. MaxLegs /\ 0 \notin Legs
      /\ h \in [Legs -> HandlerAt] /\ leg \in [Legs -> LegAt] /\ flow \in [Legs -> FlowAt]
  BY <1>1, Typed, Arithmetic DEF DecidingInv
<1> DEFINE Goal == IF action'.answered THEN Handled' ELSE Requested'
<1>3. ASSUME NEW k \in Legs, Asked(k)
      PROVE  Goal
  <2>1. action' = [on |-> TRUE, leg |-> 0, answered |-> FALSE, decision |-> "none", prior |-> "unset"]
    BY <1>3 DEF Asked, Off
  <2>2. flow'[k] \notin {"none", "done"}
    BY <1>2, <1>3 DEF Asked
  <2> QED
    BY <2>1, <2>2 DEF Requested
<1>4. ASSUME NEW k \in Legs, Collected(k) \/ Holds(k) \/ Dials(k)
      PROVE  Goal
  <2>1. /\ action.on /\ action'.answered = action.answered /\ action'.leg = action.leg
        /\ action'.decision = action.decision /\ odd \subseteq odd'
    BY <1>1, <1>2, <1>4, OddGrows DEF Collected, Holds, Dials, shared, Actions, Undisturbed, Pursued
  <2>2. flow'[k] \notin {"none", "done"} /\ UNCHANGED <<mapped, h, ended>>
    BY <1>1, <1>2, <1>4, <2>1 DEF Collected, Holds, Dials, shared, channels
  <2>3. leg[k] = "none" \/ UNCHANGED leg
    BY <1>4 DEF Collected, Holds, Dials, channels, IInv, InOrder
  <2>4. action.answered => Handled'
    <3>1. \A j \in Legs : leg[j] = "bridged" => leg'[j] = "bridged"
      BY <1>2, <1>4, <2>3 DEF Collected, Holds, Dials, channels
    <3> QED
      BY <1>1, <1>2, <2>1, <2>2, <3>1 DEF Handled, CouldNotJoin
  <2> QED
    BY <2>1, <2>2, <2>4 DEF Requested
<1>5. ASSUME NEW k \in Legs, OriginateFails(k)
      PROVE  Goal
  <2>1. ~action'.on
    BY <1>1, <1>5 DEF OriginateFails, Off
  <2> QED
    BY <2>1
<1>6. ASSUME NEW k \in Legs, Registers(k)
      PROVE  Goal
  <2>1. /\ action.on /\ action'.answered = action.answered /\ action'.leg = k
        /\ action'.decision = action.decision /\ odd \subseteq odd'
        /\ mapped' = mapped \cup {k} /\ guard' = guard \cup {k} /\ UNCHANGED <<leg, h, ended>>
    BY <1>1, <1>2, <1>6, OddGrows DEF Registers, Actions
  <2>2. action.leg \in {0, k}
    BY <1>1, <1>6 DEF Registers, Undisturbed, OneRequest, Busy
  <2>3. action.answered => Handled'
    BY <1>1, <1>2, <2>1, <2>2 DEF Handled, CouldNotJoin
  <2> QED
    BY <2>1, <2>3 DEF Requested
<1>7. ASSUME NEW k \in Legs, GuardFires(k)
      PROVE  Goal
  <2>1. action' = action /\ UNCHANGED <<h, flow, cancel, odd>>
    BY <1>7 DEF GuardFires, shared
  <2>2. CASE action.leg = k /\ ~action.answered
    BY <1>1, <1>7, <2>1, <2>2 DEF GuardFires, Requested
  <2>3. CASE ~(action.leg = k /\ ~action.answered)
    <3>1. UNCHANGED <<mapped, leg, ended, giving>> /\ guard' = guard \ {k}
      BY <1>1, <1>7, <2>3 DEF GuardFires, NoMapChange, NoLegChange
    <3> QED
      BY <1>1, <1>2, <2>1, <2>3, <3>1 DEF Handled, Requested, CouldNotJoin
  <2> QED
    BY <2>2, <2>3
<1>8. ASSUME (\E k \in Legs : GuardClears(k) \/ Resumes(k)) \/ CancelClears
      PROVE  Goal
  <2>1. ~action'.on
    BY <1>8 DEF GuardClears, Resumes, CancelClears, Off
  <2> QED
    BY <2>1
<1>9. CASE CancelReads
  <2>1. cancel' # Idle /\ action' = action /\ ~action.answered
    BY <1>9 DEF CancelReads, Idle, shared
  <2> QED
    BY <2>1 DEF Requested
<1>10. ASSUME NEW k \in Legs, Agent(k)
       PROVE  Goal
  <2>1. action' = action /\ UNCHANGED <<mapped, guard, flow, cancel, giving, odd>>
    BY <1>10 DEF Agent, AgentAnswers, AgentEnds, AgentPresses, shared
  <2>2. \A j \in Legs : h[j] # "none" => h'[j] = h[j]
    BY <1>1, <1>2, <1>10 DEF Agent, AgentAnswers, AgentEnds, AgentPresses, Steps, IInv, InOrder
  <2>3. \A j \in Legs : leg[j] = "bridged" => leg'[j] = "bridged" \/ j \in ended'
    BY <1>2, <1>10 DEF Agent, AgentAnswers, AgentEnds, AgentPresses, LegHungUp, Alive
  <2>4. ended \subseteq ended' /\ \A j \in Legs : h[j] = "none" => h'[j] \in {"none", "answered"}
    BY <1>2, <1>10 DEF Agent, AgentAnswers, AgentEnds, AgentPresses, LegHungUp, Steps
  <2> QED
    BY <1>1, <1>2, <2>1, <2>2, <2>3, <2>4 DEF Handled, Requested, CouldNotJoin
<1>11. ASSUME NEW k \in Legs, Answered(k)
       PROVE  Goal
  <2>1. action.on
    BY <1>11 DEF Answered
  <2>2. action'.answered /\ action'.leg = k /\ k \in mapped' /\ h'[k] \notin {"none", "done"}
    BY <1>1, <1>2, <1>11, <2>1, ActionAfter DEF Answered, Steps
  <2> QED
    BY <2>2 DEF Handled
<1>12. ASSUME NEW k \in Legs,
              HelperStarts(k) \/ Announced(k) \/ Decides(k) \/ Finalizes(k) \/ Aborts(k) \/ Bridges(k)
       PROVE  Goal
  <2>1. action.on /\ action.answered /\ action.leg = k /\ action'.answered /\ action'.leg = k
    <3>1. InHand(k)
      BY <1>12 DEF HelperStarts, Announced, Decides, Finalizes, Aborts, Bridges, InHand
    <3>2. action.on /\ action.answered /\ action.leg = k
      BY <1>1, <3>1 DEF Undisturbed, Pursued
    <3> QED
      BY <1>1, <1>12, <3>2, ActionAfter DEF HelperStarts, Announced, Finalizes, Aborts, shared
  <2>2. Handled
    BY <1>2, <2>1
  <2>3. CASE Aborts(k)
    <3>1. h'[k] = "resume"
      BY <1>2, <2>3 DEF Aborts, Steps
    <3> QED
      BY <2>1, <3>1 DEF Handled
  <2>4. CASE ~Aborts(k)
    <3>1. h[k] # "resume" /\ UNCHANGED mapped
      BY <1>12, <2>4 DEF HelperStarts, Announced, Decides, Finalizes, Bridges, channels
    <3>2. CASE Bridges(k)
      <4>1. action'.decision = "accepted"
        BY <1>2, <2>1, <3>2 DEF Bridges, Actions
      <4>2. leg'[k] = "bridged" \/ "refused" \in odd'
        BY <1>2, <3>2 DEF Bridges
      <4> QED
        BY <2>1, <2>2, <3>1, <4>1, <4>2 DEF Handled, CouldNotJoin
    <3>3. CASE ~Bridges(k)
      <4>1. h'[k] \notin {"none", "done"}
        BY <1>1, <1>2, <1>12, <2>4, <3>3 DEF HelperStarts, Announced, Decides, Finalizes, Steps
      <4> QED
        BY <2>1, <2>2, <3>1, <4>1 DEF Handled
    <3> QED
      BY <3>2, <3>3
  <2> QED
    BY <2>3, <2>4
<1>13. ASSUME NEW k \in Legs, LegEnded(k)
       PROVE  Goal
  <2>1. k \notin mapped
    BY <1>1, <1>13 DEF LegEnded
  <2>2. /\ ended' = ended \ {k} /\ action' = action
        /\ UNCHANGED <<mapped, h, leg, flow, cancel, giving, guard, odd>>
    BY <1>13 DEF LegEnded, shared
  <2> QED
    BY <1>1, <1>2, <2>1, <2>2 DEF Handled, Requested, CouldNotJoin
<1>14. CASE Speaks \/ SpeechEnds \/ CallerHangsUp
  <2>1. action' = action /\ UNCHANGED <<channels, flow, h, giving, cancel, odd>>
    BY <1>14 DEF Speaks, SpeechEnds, CallerHangsUp
  <2> QED
    BY <1>1, <1>2, <2>1 DEF channels, Handled, Requested, CouldNotJoin
<1>15. ~(CallerEnded \/ Cleanup \/ ToolsDie)
  BY <1>1 DEF CallerEnded, Cleanup, CleanupCancels, CleanupStops, CleanupReads, CleanupReleases,
     CleanupFrees, CleanupRemoves, ToolsDie
<1> QED
  BY <1>3, <1>4, <1>5, <1>6, <1>7, <1>8, <1>9, <1>10, <1>11, <1>12, <1>13, <1>14, <1>15
     DEF Next, Flow, Handler


(* Unless requests overlap or meet a cancellation or a guard half-done, a   *)
(* transfer that is on, in a call that has not ended, never waits for       *)
(* nothing: something that will decide it is at work, or the agent and the  *)
(* caller are connected.  The exception is the agent whom the bridge        *)
(* refused: the transfer is taken for accepted and stays on                 *)
(* (AcceptedIsBridged, which the code violates).                            *)
THEOREM TransfersPursued == Spec => [](Clean /\ cleanup = "none" /\ action.on => Deciding)
<1>1. Init => DecidingInv
  BY DEF Init, Off, DecidingInv
<1>2. IInv /\ DecidingInv /\ [Next]_vars => DecidingInv'
  <2>1. ASSUME IInv, DecidingInv, UNCHANGED vars
        PROVE  DecidingInv'
    BY <2>1 DEF vars, shared, channels, DecidingInv, Clean, Orderly, Handled, Requested, CouldNotJoin
  <2> QED
    BY <2>1, DecidingKeeps DEF DecidingInv
<1>3. IInv /\ DecidingInv => (Clean /\ cleanup = "none" /\ action.on => Deciding)
  BY DEF DecidingInv, Handled, Requested, Deciding
<1> QED
  BY <1>1, <1>2, <1>3, Safety, PTL DEF Spec
=============================================================================
