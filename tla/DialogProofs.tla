---------------------------- MODULE DialogProofs ----------------------------
(***************************************************************************)
(* What hears and answers the caller, each under its own specification.    *)
(* The local AI server, for any sessions, messages and reloads: one job    *)
(* holds the LLM's lock, and only that job has a thread in a model; no     *)
(* session is answered more often than it has begun a turn; and nobody     *)
(* waits for the LLM in vain.  The pipeline's dialog, for any queue,       *)
(* transcripts and turns: what the caller says is answered in one turn,    *)
(* and none of it is forgotten.                                            *)
(***************************************************************************)
EXTENDS MCPipelineDialog, FiniteSetTheorems, TLAPS

-----------------------------------------------------------------------------
(* The local AI server: the inductive invariant.                            *)

Job == [of : Tasks \cup {Nobody}, lock : {"waits", "holds"}, on : Nat]

(* The lock has one holder, which may have given up its turn, and whoever   *)
(* has a thread is that holder.                                             *)
Orderly(q) ==
    /\ q \in Seq(Job)
    /\ \A i, j \in DOMAIN q : q[i].lock = "holds" /\ q[j].lock = "holds" => i = j
    /\ \A i \in DOMAIN q : q[i].on # 0 => q[i].lock = "holds"

(* The inductive invariant. *)
IInv == Orderly(jobs) /\ models \in Nat

-----------------------------------------------------------------------------
(* The operations on the queue.                                             *)

LEMMA RemoveAtIs ==
    ASSUME NEW S, NEW q \in Seq(S), NEW i \in DOMAIN q
    PROVE  /\ RemoveAt(q, i) \in Seq(S)
           /\ Len(RemoveAt(q, i)) = Len(q) - 1
           /\ \A j \in 1 .. Len(q) - 1 : RemoveAt(q, i)[j] = IF j < i THEN q[j] ELSE q[j + 1]
<1> DEFINE front == SubSeq(q, 1, i - 1)
           back == SubSeq(q, i + 1, Len(q))
<1>1. i \in 1 .. Len(q) /\ Len(q) \in Nat
  OBVIOUS
<1>2. front \in Seq(S) /\ Len(front) = i - 1 /\ \A j \in 1 .. i - 1 : front[j] = q[j]
  BY <1>1
<1>3. back \in Seq(S) /\ Len(back) = Len(q) - i /\ \A j \in 1 .. Len(q) - i : back[j] = q[i + j]
  BY <1>1
<1> HIDE DEF front, back
<1>4. RemoveAt(q, i) = front \o back
  BY DEF RemoveAt, front, back
<1>5. front \o back \in Seq(S) /\ Len(front \o back) = Len(q) - 1
  BY <1>1, <1>2, <1>3
<1>6. ASSUME NEW j \in 1 .. Len(q) - 1
      PROVE  (front \o back)[j] = IF j < i THEN q[j] ELSE q[j + 1]
  <2>1. CASE j < i
    BY <1>1, <1>2, <1>3, <2>1
  <2>2. CASE j >= i
    <3>1. (front \o back)[j] = back[j - (i - 1)]
      <4>1. front \in Seq(S) /\ back \in Seq(S) /\ Len(front) = i - 1 /\ Len(back) = Len(q) - i
        BY <1>2, <1>3
      <4>2. j > Len(front) /\ j \in 1 .. Len(front) + Len(back)
        BY <1>1, <2>2, <4>1
      <4>3. (front \o back)[j] = back[j - Len(front)]
        BY <4>1, <4>2, SMTT(20)
      <4> QED
        BY <4>1, <4>3
    <3>2. j - (i - 1) \in 1 .. Len(q) - i /\ i + (j - (i - 1)) = j + 1
      BY <1>1, <2>2
    <3>3. back[j - (i - 1)] = q[j + 1]
      BY <1>3, <3>2
    <3>4. ~(j < i)
      BY <1>1, <2>2
    <3> QED
      BY <3>1, <3>3, <3>4
  <2>3. j < i \/ j >= i
    BY <1>1
  <2> QED
    BY <2>1, <2>2, <2>3
<1> QED
  BY <1>4, <1>5, <1>6

LEMMA OrderlyRemoved ==
    ASSUME NEW q, Orderly(q), NEW i \in DOMAIN q
    PROVE  Orderly(RemoveAt(q, i))
<1> DEFINE r == RemoveAt(q, i)
<1>1. /\ q \in Seq(Job) /\ r \in Seq(Job) /\ DOMAIN r = 1 .. Len(q) - 1 /\ i \in 1 .. Len(q)
      /\ \A j \in 1 .. Len(q) - 1 : r[j] = IF j < i THEN q[j] ELSE q[j + 1]
  BY RemoveAtIs DEF Orderly
<1> DEFINE from(j) == IF j < i THEN j ELSE j + 1
<1> HIDE DEF r
<1>2. \A j \in DOMAIN r : from(j) \in DOMAIN q /\ r[j] = q[from(j)]
  BY <1>1
<1>3. \A j, k \in DOMAIN r : from(j) = from(k) => j = k
  BY <1>1
<1> HIDE DEF from
<1>4. r \in Seq(Job)
  BY <1>1
<1>5. ASSUME NEW j \in DOMAIN r, NEW k \in DOMAIN r, r[j].lock = "holds", r[k].lock = "holds"
      PROVE  j = k
  BY <1>2, <1>3, <1>5 DEF Orderly
<1>6. ASSUME NEW j \in DOMAIN r, r[j].on # 0
      PROVE  r[j].lock = "holds"
  BY <1>2, <1>6 DEF Orderly
<1> QED
  BY <1>4, <1>5, <1>6, Zenon DEF Orderly, r

LEMMA OrderlyAsked ==
    ASSUME NEW q, Orderly(q), NEW c \in Tasks
    PROVE  Orderly(Asked(c, q))
<1> DEFINE new == [of |-> c, lock |-> "waits", on |-> 0]
<1>1. new \in Job /\ new.lock = "waits" /\ new.on = 0
  BY DEF Job
<1> HIDE DEF new
<1>2. Append(q, new) \in Seq(Job) /\ DOMAIN Append(q, new) = 1 .. Len(q) + 1
      /\ \A j \in 1 .. Len(q) : Append(q, new)[j] = q[j] /\ j \in DOMAIN q
      /\ Append(q, new)[Len(q) + 1] = new /\ Len(q) \in Nat
  BY <1>1 DEF Orderly
<1>3. Orderly(Append(q, new))
  BY <1>1, <1>2 DEF Orderly
<1> QED
  BY <1>3 DEF Asked, new

LEMMA OrderlyAbandoned ==
    ASSUME Orderly(jobs), NEW c
    PROVE  Orderly(Abandoned(c))
<1> DEFINE q == Abandoned(c)
<1>1. /\ jobs \in Seq(Job) /\ DOMAIN q = DOMAIN jobs
      /\ \A i \in DOMAIN jobs : q[i] \in Job /\ q[i].lock = jobs[i].lock /\ q[i].on = jobs[i].on
  <2>1. jobs \in Seq(Job)
    BY DEF Orderly
  <2>2. ASSUME NEW i \in DOMAIN jobs
        PROVE  q[i] \in Job /\ q[i].lock = jobs[i].lock /\ q[i].on = jobs[i].on
    <3>1. jobs[i] \in Job
      BY <2>1
    <3>2. q[i] = IF jobs[i].of = c THEN [jobs[i] EXCEPT !.of = Nobody] ELSE jobs[i]
      BY DEF Abandoned
    <3> QED
      BY <3>1, <3>2 DEF Job
  <2> QED
    BY <2>1, <2>2 DEF Abandoned
<1>2. q \in Seq(Job)
  <2>1. DOMAIN jobs = 1 .. Len(jobs) /\ Len(jobs) \in Nat
    BY <1>1
  <2> QED
    BY <1>1, <2>1 DEF Abandoned
<1> HIDE DEF q
<1>3. ASSUME NEW i \in DOMAIN q, NEW j \in DOMAIN q, q[i].lock = "holds", q[j].lock = "holds"
      PROVE  i = j
  BY <1>1, <1>3 DEF Orderly
<1>4. ASSUME NEW i \in DOMAIN q, q[i].on # 0
      PROVE  q[i].lock = "holds"
  BY <1>1, <1>4 DEF Orderly
<1> QED
  BY <1>2, <1>3, <1>4, Zenon DEF Orderly, q

(* The lock is given to a job when no job has it. *)
LEMMA OrderlyServed ==
    ASSUME Orderly(jobs), models \in Nat, NEW i \in DOMAIN jobs, Served(i)
    PROVE  Orderly([jobs EXCEPT ![i] = [@ EXCEPT !.lock = "holds", !.on = models]])
<1> DEFINE new == [jobs[i] EXCEPT !.lock = "holds", !.on = models]
           q == [jobs EXCEPT ![i] = new]
<1>1. new \in Job /\ new.lock = "holds" /\ jobs \in Seq(Job)
  <2>1. jobs \in Seq(Job) /\ jobs[i] \in Job
    BY DEF Orderly
  <2> QED
    BY <2>1 DEF Job
<1> HIDE DEF new
<1>2. q \in Seq(Job) /\ DOMAIN q = DOMAIN jobs /\ q[i] = new /\ \A j \in DOMAIN jobs \ {i} : q[j] = jobs[j]
  BY <1>1
<1> HIDE DEF q
<1>3. Orderly(q)
  BY <1>1, <1>2 DEF Orderly, Served
<1> QED
  BY <1>3 DEF q, new

-----------------------------------------------------------------------------
(* What a step does to the queue: nothing, or one of these.                 *)

Gone(q) == q = jobs \/ \E i \in DOMAIN jobs : q = RemoveAt(jobs, i)

Moves ==
    \/ Gone(jobs')
    \/ \E c \in Tasks : jobs' = Abandoned(c)
    \/ \E c \in Tasks : \E rest : Gone(rest) /\ jobs' = Asked(c, rest)
    \/ \E i \in DOMAIN jobs :
         Served(i) /\ jobs' = [jobs EXCEPT ![i] = [@ EXCEPT !.lock = "holds", !.on = models]]

LEMMA MovesKeepOrder ==
    ASSUME IInv, Moves
    PROVE  Orderly(jobs')
<1>1. ASSUME NEW q, Gone(q) PROVE Orderly(q)
  BY <1>1, OrderlyRemoved DEF Gone, IInv
<1> QED
  BY <1>1, OrderlyAsked, OrderlyAbandoned, OrderlyServed DEF IInv, Moves

LEMMA ContinuesMoves ==
    ASSUME NEW c \in Tasks, NEW said, NEW rest, Gone(rest), Continues(c, said, rest)
    PROVE  Moves
BY DEF Continues, AsksAgain, Answers, Responds, Repairs, Moves

LEMMA JobOverMoves ==
    ASSUME IInv, NEW i \in DOMAIN jobs, NEW said, JobOver(i, said)
    PROVE  Moves
<1>1. Gone(RemoveAt(jobs, i))
  BY DEF Gone
<1>2. CASE Waited(i)
  <2>1. jobs[i].of \in Tasks
    <3>1. jobs[i] \in Job
      BY DEF IInv, Orderly
    <3> QED
      BY <1>2, <3>1 DEF Job, Waited
  <2> QED
    BY <1>1, <1>2, <2>1, ContinuesMoves DEF JobOver
<1>3. CASE ~Waited(i)
  BY <1>1, <1>3 DEF JobOver, Moves
<1> QED
  BY <1>2, <1>3

LEMMA HandlerIsTask ==
    ASSUME NEW s \in Sessions
    PROVE  Handler(s) \in Tasks
<1>1. MaxTimers \in [Sessions -> Nat]
  BY ServerAssumption
<1>2. 0 \in 0 .. MaxTimers[s]
  BY <1>1
<1> QED
  BY <1>2 DEF Handler, Tasks

LEMMA StepMoves ==
    ASSUME IInv, Next
    PROVE  Moves /\ models' \in Nat
<1> USE DEF Moves, Gone, vars, config, peer, timers, hearing, server
<1>0. ASSUME Loads PROVE models' \in Nat
  BY <1>0 DEF Loads, IInv
<1>1. ASSUME NEW c \in Tasks, Task(c)
      PROVE  Moves /\ models' \in Nat
  <2>1. CASE TimerStarts(c) \/ TimerFires(c) \/ Spoken(c)
    BY <2>1 DEF TimerStarts, TimerFires, Spoken, IInv
  <2>2. CASE TimerCancelled(c)
    BY <2>2 DEF TimerCancelled, IInv
  <2>3. CASE FinalSent(c)
    BY <2>3 DEF FinalSent, IInv
  <2>4. CASE TimesOut(c)
    BY <2>4 DEF TimesOut, Answers, TurnFrame, IInv
  <2>5. ASSUME NEW s \in Sessions, Session(s) PROVE Moves /\ models' \in Nat
    BY <2>5, <1>0 DEF Session, AudioFed, VoskFed, StreamFed, SegmentFed, Fed, ModelsLoaded,
         SessionEnds, IInv
  <2>6. c[1] \in Sessions
    BY DEF Tasks
  <2> QED
    BY <1>1, <2>1, <2>2, <2>3, <2>4, <2>5, <2>6 DEF Task
<1>2. ASSUME NEW s \in Sessions, Client(s)
      PROVE  Moves /\ models' \in Nat
  BY <1>2, HandlerIsTask DEF Client, AudioArrives, BargeIn, Requested, ReloadAsked, ClientLeaves, Begins, IInv
<1>3. ASSUME NEW s \in Sessions, SuppressionEnds(s) \/ Warmed(s)
      PROVE  Moves /\ models' \in Nat
  BY <1>3 DEF SuppressionEnds, Warmed, IInv
<1>4. ASSUME NEW i \in DOMAIN jobs, LlmReloaded(i)
      PROVE  Moves /\ models' \in Nat
  BY <1>0, <1>4 DEF LlmReloaded
<1>5. ASSUME NEW i \in DOMAIN jobs, NEW said, JobOver(i, said)
      PROVE  Moves /\ models' \in Nat
  BY <1>5, JobOverMoves DEF JobOver, TurnFrame, IInv
<1>6. ASSUME NEW i \in DOMAIN jobs, JobBegins(i)
      PROVE  Moves /\ models' \in Nat
  <2>1. CASE loaded
    BY <1>6, <2>1 DEF JobBegins, TurnFrame, IInv
  <2>2. CASE ~loaded
    BY <1>5, <1>6, <2>2 DEF JobBegins
  <2> QED
    BY <2>1, <2>2
<1>7. ASSUME NEW i \in DOMAIN jobs, ThreadEnds(i)
      PROVE  Moves /\ models' \in Nat
  BY <1>5, <1>7 DEF ThreadEnds
<1> HIDE DEF Moves
<1> QED
  BY <1>1, <1>2, <1>3, <1>4, <1>6, <1>7 DEF Next, Lock, Threads

-----------------------------------------------------------------------------
(* The theorems.                                                            *)

(* The LLM's lock has one holder at a time, and only it has a thread.       *)
THEOREM LockHeldByOne == Spec => []IInv
<1>1. Init => IInv
  <2>1. <<>> \in Seq(Job) /\ DOMAIN <<>> = {}
    OBVIOUS
  <2>2. Init => jobs = <<>> /\ models = 1
    BY DEF Init
  <2> QED
    BY <2>1, <2>2 DEF IInv, Orderly
<1>2. IInv /\ [Next]_vars => IInv'
  <2>1. ASSUME IInv, Next PROVE IInv'
    BY <2>1, StepMoves, MovesKeepOrder DEF IInv
  <2>2. ASSUME IInv, UNCHANGED vars PROVE IInv'
    BY <2>2 DEF IInv, vars, server
  <2> QED
    BY <2>1, <2>2
<1> QED
  BY <1>1, <1>2, PTL DEF Spec

(* Two jobs never run in one model, whatever gave up waiting for them: the  *)
(* shielded task keeps the lock until its thread has ended.                 *)
THEOREM OneJobPerModel == Spec => []OneJob
<1>1. IInv => OneJob
  BY DEF IInv, Orderly, OneJob
<1> QED
  BY <1>1, LockHeldByOne, PTL


-----------------------------------------------------------------------------
(* The local AI server: the types, and what the sessions owe.               *)

Awaits(c) == at[c] \in {"llm", "retry", "request"}
Waiting(s) == {c \in Tasks : c[1] = s /\ Awaits(c)}

\* Who is referred to has begun.
TimersBegun ==
    /\ \A s \in Sessions : idle_task[s] # 0 => at[<<s, idle_task[s]>>] # "none"
    /\ \A c \in cancelled : at[c] # "none"

\* A handler that is being fed may begin one more timer.
RoomToBegin == \A s \in Sessions : at[Handler(s)] = "feed" => Cardinality(Begun(s)) < MaxTimers[s]

\* Who waits for an answer is owed one.
OwedCovers == \A s \in Sessions : Cardinality(Waiting(s)) <= owed[s]

LEMMA TaskParts ==
    /\ MaxTimers \in [Sessions -> Nat]
    /\ \A c \in Tasks : c[1] \in Sessions /\ c[2] \in 0 .. MaxTimers[c[1]] /\ c = <<c[1], c[2]>>
    /\ \A s \in Sessions : \A k \in 0 .. MaxTimers[s] :
         <<s, k>> \in Tasks /\ <<s, k>>[1] = s /\ <<s, k>>[2] = k
    /\ \A s \in Sessions : Handler(s) \in Tasks /\ Handler(s)[1] = s /\ Handler(s)[2] = 0
<1>1. MaxTimers \in [Sessions -> Nat]
  BY ServerAssumption
<1>2. \A c \in Tasks : c[1] \in Sessions /\ c[2] \in 0 .. MaxTimers[c[1]] /\ c = <<c[1], c[2]>>
  BY DEF Tasks
<1>3. \A s \in Sessions : \A k \in 0 .. MaxTimers[s] : <<s, k>> \in Tasks
  BY DEF Tasks
<1>4. \A s \in Sessions : 0 \in 0 .. MaxTimers[s]
  BY <1>1
<1> QED
  BY <1>1, <1>2, <1>3, <1>4 DEF Handler

LEMMA TasksFinite ==
    ASSUME NEW s \in Sessions
    PROVE  IsFiniteSet({c \in Tasks : c[1] = s})
<1>1. MaxTimers[s] \in Nat
  BY TaskParts
<1>2. IsFiniteSet(0 .. MaxTimers[s])
  BY <1>1, FS_Interval
<1>3. IsFiniteSet({s} \X (0 .. MaxTimers[s]))
  <2>1. IsFiniteSet({s})
    BY FS_Singleton
  <2> QED
    BY <1>2, <2>1, FS_Product
<1>4. {c \in Tasks : c[1] = s} \subseteq {s} \X (0 .. MaxTimers[s])
  BY TaskParts
<1> QED
  BY <1>3, <1>4, FS_Subset

-----------------------------------------------------------------------------
(* The sessions' connections and what they hear.                            *)

PeerType ==
    /\ plan \in Plans /\ mode \in [Hearing -> Modes] /\ backend \in plan.backends
    /\ sent \in [Sessions -> Nat] /\ open \in [Sessions -> BOOLEAN]

HearType ==
    /\ recognizer \in [Sessions -> {"none", "silent", "speech"}]
    /\ dropped \subseteq Sessions /\ suppressed \subseteq Sessions
    /\ last_final_text \in [Sessions -> Texts \cup {"", "unset"}]
    /\ user \in [Sessions -> Texts \cup {""}]

TextType == text \in [Tasks -> Texts \cup {""}]

TimerType ==
    /\ at \in [Tasks -> Steps] /\ cancelled \subseteq Tasks
    /\ idle_task \in [Sessions -> Nat]
    /\ \A s \in Sessions : idle_task[s] \in 0 .. MaxTimers[s]

LlmType ==
    /\ \A i \in DOMAIN jobs : jobs[i].on <= models
    /\ models \in Nat /\ loaded \in BOOLEAN /\ stt \in BOOLEAN
    /\ warm \in [Sessions -> 0 .. models]

\* The disjuncts of a step, JobOver with what it was told.
Jobs ==
    \/ \E i \in DOMAIN jobs : \E said \in {"text", "hangup", "empty"} : JobOver(i, said)
    \/ \E i \in DOMAIN jobs : /\ jobs' = [jobs EXCEPT ![i] = [@ EXCEPT !.lock = "holds", !.on = models]]
                              /\ UNCHANGED <<at, text, idle_task, owed>> /\ TurnFrame
    \/ \E i \in DOMAIN jobs : LlmReloaded(i)

LEMMA StepIs ==
    ASSUME Next
    PROVE  \/ \E c \in Tasks : \/ TimerStarts(c) \/ TimerCancelled(c) \/ TimerFires(c)
                               \/ FinalSent(c) \/ TimesOut(c) \/ Spoken(c)
           \/ \E s \in Sessions : \/ AudioFed(s) \/ ModelsLoaded(s) \/ SessionEnds(s)
                                  \/ Client(s) \/ SuppressionEnds(s) \/ Warmed(s)
           \/ Jobs
<1>1. ASSUME NEW i \in DOMAIN jobs, JobBegins(i)
      PROVE  Jobs
  BY <1>1 DEF JobBegins, Jobs
<1>2. ASSUME NEW i \in DOMAIN jobs, ThreadEnds(i)
      PROVE  Jobs
  BY <1>2 DEF ThreadEnds, Jobs
<1>3. ASSUME NEW i \in DOMAIN jobs, LlmReloaded(i)
      PROVE  Jobs
  BY <1>3 DEF Jobs
<1>4. ASSUME NEW c \in Tasks, Task(c)
      PROVE  \/ TimerStarts(c) \/ TimerCancelled(c) \/ TimerFires(c)
             \/ FinalSent(c) \/ TimesOut(c) \/ Spoken(c)
             \/ \E s \in Sessions : AudioFed(s) \/ ModelsLoaded(s) \/ SessionEnds(s)
  BY <1>4, TaskParts DEF Task, Session
<1> QED
  BY <1>1, <1>2, <1>3, <1>4 DEF Next, Lock, Threads

\* What a job's end does.
LEMMA JobOverIs ==
    ASSUME IInv, NEW i \in DOMAIN jobs, NEW said, JobOver(i, said)
    PROVE  /\ TurnFrame
           /\ \/ UNCHANGED <<at, text, idle_task, owed>>
              \/ \E c \in Tasks : Continues(c, said, RemoveAt(jobs, i))
<1>1. jobs[i] \in Job
  BY DEF IInv, Orderly
<1>2. jobs[i].of # Nobody => jobs[i].of \in Tasks
  BY <1>1 DEF Job
<1> QED
  BY <1>2 DEF JobOver, Waited

LEMMA PeerKeeps ==
    ASSUME PeerType, Next
    PROVE  PeerType'
<1> USE DEF PeerType, Hearing
<1>1. ASSUME UNCHANGED <<config, peer>>
      PROVE  PeerType'
  BY <1>1 DEF config, peer
<1>2. ASSUME NEW s \in Sessions, Client(s)
      PROVE  PeerType'
  <2>1. ASSUME NEW message, Arrives(s, message)
        PROVE  PeerType'
    BY <2>1 DEF Arrives, config
  <2>2. CASE ClientLeaves(s)
    BY <2>2 DEF ClientLeaves, config
  <2> QED
    BY <1>2, <2>1, <2>2 DEF Client, AudioArrives, BargeIn, Requested, ReloadAsked, Begins
<1>3. ASSUME NEW c \in Tasks, TimerStarts(c) \/ TimerCancelled(c) \/ TimerFires(c) \/ FinalSent(c) \/
                              TimesOut(c) \/ Spoken(c)
      PROVE  PeerType'
  BY <1>1, <1>3 DEF TimerStarts, TimerCancelled, TimerFires, FinalSent, TimesOut, Spoken, TurnFrame
<1>4. ASSUME NEW s \in Sessions,
             AudioFed(s) \/ ModelsLoaded(s) \/ SessionEnds(s) \/ SuppressionEnds(s) \/ Warmed(s)
      PROVE  PeerType'
  BY <1>1, <1>4 DEF AudioFed, VoskFed, StreamFed, SegmentFed, Fed, ModelsLoaded, SessionEnds,
     SuppressionEnds, Warmed
<1>5. CASE Jobs
  BY <1>1, <1>5 DEF Jobs, JobOver, TurnFrame, LlmReloaded
<1> QED
  BY <1>2, <1>3, <1>4, <1>5, StepIs

LEMMA ResetsHears ==
    ASSUME HearType, NEW s \in Sessions, NEW c, NEW said \in Texts \cup {"", "unset"}, Resets(s, c, said),
           suppressed' \subseteq Sessions, user' \in [Sessions -> Texts \cup {""}]
    PROVE  HearType'
BY DEF HearType, Resets

LEMMA HearKeeps ==
    ASSUME HearType, TextType, Next
    PROVE  HearType'
<1>1. ASSUME UNCHANGED <<hearing, user>>
      PROVE  HearType'
  BY <1>1 DEF HearType, hearing
<1>2. ASSUME NEW s \in Sessions, Client(s)
      PROVE  HearType'
  <2>1. CASE AudioArrives(s)
    <3>1. CASE UNCHANGED hearing
      BY <1>1, <2>1, <3>1 DEF AudioArrives
    <3>2. CASE Resets(s, Handler(s), "") /\ UNCHANGED suppressed
      BY <2>1, <3>2, ResetsHears DEF AudioArrives, HearType
    <3>3. CASE /\ dropped' = dropped \ {s} /\ UNCHANGED <<last_final_text, suppressed>>
               /\ recognizer' = recognizer \/ recognizer' = [recognizer EXCEPT ![s] = "silent"]
      BY <2>1, <3>3 DEF AudioArrives, HearType
    <3> QED
      BY <2>1, <3>1, <3>2, <3>3 DEF AudioArrives, timers
  <2>2. CASE BargeIn(s)
    BY <2>2 DEF BargeIn, HearType
  <2>3. CASE Requested(s) \/ ReloadAsked(s) \/ ClientLeaves(s)
    BY <1>1, <2>3 DEF Requested, ReloadAsked, ClientLeaves, Begins
  <2> QED
    BY <1>2, <2>1, <2>2, <2>3 DEF Client
<1>3. ASSUME NEW c \in Tasks, TimerStarts(c) \/ TimerCancelled(c) \/ TimesOut(c)
      PROVE  HearType'
  BY <1>1, <1>3 DEF TimerStarts, TimerCancelled, TimesOut, TurnFrame
<1>4. ASSUME NEW c \in Tasks, TimerFires(c)
      PROVE  HearType'
  <2>1. recognizer' = recognizer \/ recognizer' = [recognizer EXCEPT ![c[1]] = "silent"]
    BY <1>4 DEF TimerFires
  <2> QED
    BY <1>4, <2>1, TaskParts DEF TimerFires, HearType
<1>5. ASSUME NEW c \in Tasks, FinalSent(c)
      PROVE  HearType'
  <2>1. user' = user \/ user' = [user EXCEPT ![c[1]] = text[c]]
    BY <1>5 DEF FinalSent
  <2>2. /\ user' \in [Sessions -> Texts \cup {""}] /\ suppressed' = suppressed
        /\ text[c] \in Texts \cup {"", "unset"}
    <3>1. text[c] \in Texts \cup {""}
      BY DEF TextType
    <3>2. suppressed' = suppressed
      BY <1>5 DEF FinalSent
    <3>3. user' \in [Sessions -> Texts \cup {""}]
      BY <2>1, <3>1 DEF HearType
    <3> QED
      BY <3>1, <3>2, <3>3
  <2>3. CASE Resets(c[1], c, text[c])
    BY <2>2, <2>3, TaskParts, ResetsHears DEF HearType
  <2>4. CASE UNCHANGED <<cancelled, recognizer, dropped, last_final_text>>
    BY <2>2, <2>4 DEF HearType
  <2> QED
    BY <1>5, <2>3, <2>4 DEF FinalSent
<1>6. ASSUME NEW c \in Tasks, Spoken(c)
      PROVE  HearType'
  <2>1. CASE suppressed' = suppressed \cup {c[1]} /\ Resets(c[1], c, "")
    <3>1. c[1] \in Sessions
      BY TaskParts
    <3>2. suppressed' \subseteq Sessions
      BY <2>1, <3>1 DEF HearType
    <3>3. user' = user
      BY <1>6 DEF Spoken
    <3> QED
      BY <2>1, <3>1, <3>2, <3>3, ResetsHears DEF HearType
  <2>2. CASE UNCHANGED <<cancelled, recognizer, dropped, last_final_text, suppressed>>
    BY <1>6, <2>2 DEF HearType, Spoken
  <2> QED
    BY <1>6, <2>1, <2>2 DEF Spoken
<1>7. ASSUME NEW s \in Sessions, AudioFed(s)
      PROVE  HearType'
  <2>1. /\ UNCHANGED <<dropped, last_final_text, suppressed, user>>
        /\ recognizer' = recognizer \/ \E words \in {"silent", "speech"} : recognizer' = [recognizer EXCEPT ![s] = words]
    BY <1>7 DEF AudioFed, VoskFed, StreamFed, SegmentFed, Fed
  <2> QED
    BY <2>1 DEF HearType
<1>8. ASSUME NEW s \in Sessions, SessionEnds(s)
      PROVE  HearType'
  BY <1>8, ResetsHears DEF SessionEnds, HearType
<1>9. ASSUME NEW s \in Sessions, SuppressionEnds(s)
      PROVE  HearType'
  BY <1>9 DEF SuppressionEnds, HearType
<1>10. ASSUME NEW s \in Sessions, ModelsLoaded(s) \/ Warmed(s)
       PROVE  HearType'
  BY <1>1, <1>10 DEF ModelsLoaded, Warmed
<1>11. CASE Jobs
  BY <1>1, <1>11 DEF Jobs, JobOver, TurnFrame, LlmReloaded
<1> QED
  BY <1>2, <1>3, <1>4, <1>5, <1>6, <1>7, <1>8, <1>9, <1>10, <1>11, StepIs

-----------------------------------------------------------------------------
(* The LLM.                                                                 *)

Bounded(queue, n) == \A i \in DOMAIN queue : queue[i].on <= n

LEMMA BoundedKeeps ==
    ASSUME IInv, Bounded(jobs, models), Moves
    PROVE  Bounded(jobs', models)
<1> USE DEF Bounded
<1>1. jobs \in Seq(Job) /\ models \in Nat
  BY DEF IInv, Orderly
<1>2. ASSUME NEW queue, Gone(queue)
      PROVE  queue \in Seq(Job) /\ Bounded(queue, models)
  <2>1. CASE queue = jobs
    BY <1>1, <2>1
  <2>2. ASSUME NEW i \in DOMAIN jobs, queue = RemoveAt(jobs, i)
        PROVE  queue \in Seq(Job) /\ Bounded(queue, models)
    <3>1. /\ queue \in Seq(Job) /\ Len(queue) = Len(jobs) - 1
          /\ \A j \in 1 .. Len(jobs) - 1 : queue[j] = IF j < i THEN jobs[j] ELSE jobs[j + 1]
      BY <1>1, <2>2, RemoveAtIs
    <3>2. DOMAIN jobs = 1 .. Len(jobs) /\ DOMAIN queue = 1 .. Len(jobs) - 1 /\ Len(jobs) \in Nat
      BY <1>1, <3>1
    <3> QED
      BY <3>1, <3>2
  <2> QED
    BY <1>2, <2>1, <2>2 DEF Gone
<1>3. ASSUME NEW c \in Tasks, jobs' = Abandoned(c)
      PROVE  Bounded(jobs', models)
  <2>1. \A i \in DOMAIN jobs : jobs[i] \in Job
    BY <1>1
  <2>2. \A i \in DOMAIN jobs : jobs'[i].on = jobs[i].on
    BY <1>3, <2>1 DEF Abandoned, Job
  <2>3. DOMAIN jobs' = DOMAIN jobs
    BY <1>3 DEF Abandoned
  <2> QED
    BY <2>2, <2>3
<1>4. ASSUME NEW c \in Tasks, NEW rest, Gone(rest), jobs' = Asked(c, rest)
      PROVE  Bounded(jobs', models)
  <2>1. rest \in Seq(Job) /\ Bounded(rest, models)
    BY <1>2, <1>4
  <2> DEFINE new == [of |-> c, lock |-> "waits", on |-> 0]
  <2>2. new \in Job /\ new.on = 0
    BY DEF Job
  <2>3. jobs' = Append(rest, new)
    BY <1>4 DEF Asked
  <2> HIDE DEF new
  <2>4. /\ Len(rest) \in Nat /\ DOMAIN jobs' = 1 .. Len(rest) + 1 /\ jobs'[Len(rest) + 1] = new
        /\ \A i \in 1 .. Len(rest) : jobs'[i] = rest[i] /\ i \in DOMAIN rest
    BY <2>1, <2>2, <2>3
  <2>5. \A i \in DOMAIN jobs' : i \in 1 .. Len(rest) \/ i = Len(rest) + 1
    BY <2>4
  <2> QED
    BY <1>1, <2>1, <2>2, <2>4, <2>5
<1>5. ASSUME NEW i \in DOMAIN jobs, jobs' = [jobs EXCEPT ![i] = [@ EXCEPT !.lock = "holds", !.on = models]]
      PROVE  Bounded(jobs', models)
  <2>1. jobs[i] \in Job
    BY <1>1
  <2>2. jobs'[i].on = models
    BY <1>5, <2>1 DEF Job
  <2> QED
    BY <1>1, <1>5, <2>2
<1> QED
  BY <1>2, <1>3, <1>4, <1>5 DEF Moves

\* The server's models are replaced by newer ones.
Renews ==
    /\ models' \in Nat /\ models' >= models /\ loaded' \in BOOLEAN /\ stt' \in BOOLEAN
    /\ \/ warm' = warm
       \/ \E s \in Sessions : warm' = [warm EXCEPT ![s] = models'] \/ warm' = [warm EXCEPT ![s] = 0]

LEMMA StepRenews ==
    ASSUME LlmType, Next
    PROVE  Renews
<1> USE DEF LlmType, Renews
<1>1. ASSUME UNCHANGED server
      PROVE  Renews
  BY <1>1 DEF server
<1>2. ASSUME Loads
      PROVE  models' \in Nat /\ models' >= models /\ loaded' \in BOOLEAN
  <2>1. CASE loaded' = TRUE /\ models' = models + 1
    BY <2>1
  <2>2. CASE loaded' = FALSE /\ models' = models
    <3>1. models' \in Nat /\ models' >= models
      BY <2>2
    <3> QED
      BY <2>2, <3>1
  <2> QED
    BY <1>2, <2>1, <2>2 DEF Loads
<1>3. ASSUME NEW c \in Tasks, TimerStarts(c) \/ TimerCancelled(c) \/ TimerFires(c) \/ FinalSent(c) \/
                              TimesOut(c) \/ Spoken(c)
      PROVE  Renews
  BY <1>1, <1>3 DEF TimerStarts, TimerCancelled, TimerFires, FinalSent, TimesOut, Spoken, TurnFrame
<1>4. ASSUME NEW s \in Sessions, AudioFed(s) \/ SessionEnds(s) \/ SuppressionEnds(s)
      PROVE  Renews
  BY <1>1, <1>4 DEF AudioFed, VoskFed, StreamFed, SegmentFed, Fed, SessionEnds, SuppressionEnds
<1>5. ASSUME NEW s \in Sessions, ModelsLoaded(s)
      PROVE  Renews
  BY <1>2, <1>5 DEF ModelsLoaded
<1>6. ASSUME NEW s \in Sessions, Warmed(s)
      PROVE  Renews
  <2>1. warm' = [warm EXCEPT ![s] = 0] /\ UNCHANGED <<models, loaded, stt>>
    BY <1>6 DEF Warmed
  <2>2. models' >= models
    BY <2>1
  <2> QED
    BY <2>1, <2>2
<1>7. ASSUME NEW s \in Sessions, AudioArrives(s) \/ BargeIn(s) \/ ClientLeaves(s)
      PROVE  Renews
  BY <1>1, <1>7 DEF AudioArrives, BargeIn, ClientLeaves
<1>8. ASSUME NEW s \in Sessions, Requested(s) \/ ReloadAsked(s)
      PROVE  Renews
  <2>1. UNCHANGED <<models, loaded, warm>> /\ stt' \in BOOLEAN
    BY <1>8 DEF Requested, ReloadAsked, Begins
  <2> QED
    BY <2>1
<1>9. CASE Jobs
  <2>1. ASSUME NEW i \in DOMAIN jobs, LlmReloaded(i)
        PROVE  Renews
    BY <1>2, <2>1 DEF LlmReloaded
  <2> QED
    BY <1>1, <1>9, <2>1 DEF Jobs, JobOver, TurnFrame
<1> QED
  BY <1>3, <1>4, <1>5, <1>6, <1>7, <1>8, <1>9, StepIs DEF Client

LEMMA LlmKeeps ==
    ASSUME IInv, LlmType, Next
    PROVE  LlmType'
<1>1. Renews
  BY StepRenews
<1>2. jobs' \in Seq(Job) /\ Bounded(jobs', models)
  BY StepMoves, MovesKeepOrder, BoundedKeeps DEF LlmType, Bounded, Orderly
<1>3. \A i \in DOMAIN jobs' : jobs'[i].on \in Nat
  <2>1. \A i \in DOMAIN jobs' : jobs'[i] \in Job
    BY <1>2
  <2> QED
    BY <2>1 DEF Job
<1>4. \A i \in DOMAIN jobs' : jobs'[i].on <= models'
  BY <1>1, <1>2, <1>3 DEF Bounded, Renews, LlmType
<1>5. \A n \in 0 .. models : n \in 0 .. models'
  BY <1>1 DEF Renews, LlmType
<1>6. warm' \in [Sessions -> 0 .. models']
  BY <1>1, <1>5 DEF Renews, LlmType
<1> QED
  BY <1>1, <1>4, <1>6 DEF LlmType, Renews

-----------------------------------------------------------------------------
(* The coroutines: what one of them does to its own place, to the timers    *)
(* and to what its session is owed.                                         *)

Awaiting == {"llm", "retry", "request"}

Moved(c, step) == at[c] # "none" /\ step \in Steps \ {"none"} /\ To(c, step)

\* One coroutine goes on; it asks, or is answered, if its session is owed more or less.
TurnMoves ==
    \/ at' = at /\ owed' = owed
    \/ \E c \in Tasks : \E step \in Steps :
         /\ Moved(c, step)
         /\ step = "feed" => c = Handler(c[1]) /\ Cardinality(Begun(c[1])) < MaxTimers[c[1]]
         /\ \/ owed' = owed /\ (step \in Awaiting => at[c] \in Awaiting)
            \/ owed' = [owed EXCEPT ![c[1]] = @ + 1]
            \/ owed' = [owed EXCEPT ![c[1]] = @ - 1] /\ at[c] \in Awaiting /\ step \notin Awaiting

\* A timer may be forgotten, and one that is referred to cancelled.
IdleMoves ==
    /\ idle_task' \in [Sessions -> Nat] /\ \A s \in Sessions : idle_task'[s] \in {idle_task[s], 0}
    /\ \A c \in cancelled' :
         c \in cancelled \/ \E s \in Sessions : c \in Tasks /\ idle_task[s] # 0 /\ c = <<s, idle_task[s]>>

Goes == TurnMoves /\ IdleMoves

LEMMA IdleRests ==
    ASSUME TimerType, UNCHANGED timers
    PROVE  IdleMoves
BY DEF TimerType, IdleMoves, timers

LEMMA IdleForgotten ==
    ASSUME TimerType, NEW c \in Tasks,
           idle_task' = Forgotten(c) \/ UNCHANGED idle_task, cancelled' \subseteq cancelled
    PROVE  IdleMoves
<1>1. c[1] \in Sessions
  BY TaskParts
<1> QED
  BY <1>1 DEF TimerType, IdleMoves, Forgotten

LEMMA CancelledIs ==
    ASSUME NEW s \in Sessions, NEW c, NEW d \in IdleCancelled(s, c)
    PROVE  d \in Tasks /\ idle_task[s] # 0 /\ d = <<s, idle_task[s]>>
BY DEF IdleCancelled, Timers

LEMMA IdleReset ==
    ASSUME TimerType, NEW s \in Sessions, NEW c, NEW said, Resets(s, c, said)
    PROVE  IdleMoves
BY CancelledIs DEF TimerType, IdleMoves, Resets

LEMMA ReturnsMoves ==
    ASSUME NEW c, at[c] # "none", Returns(c)
    PROVE  \E step \in {"read", "over"} : Moved(c, step)
BY DEF Returns, Moved, Steps

\* To a step where nothing is awaited, with nothing owed for it.
LEMMA Rested ==
    ASSUME NEW c \in Tasks, NEW step, Moved(c, step), step \notin Awaiting \cup {"feed"}, owed' = owed
    PROVE  TurnMoves
BY DEF TurnMoves, Moved

LEMMA FinalMoves ==
    ASSUME TimerType, NEW c \in Tasks,
           at[c] # "none", NEW said, Final(c, said), owed' = owed, UNCHANGED cancelled
    PROVE  Goes
<1>1. CASE To(c, "emit") /\ UNCHANGED idle_task
  <2>1. Moved(c, "emit")
    BY <1>1 DEF Moved, Steps
  <2>2. TurnMoves
    BY <2>1, Rested DEF Awaiting
  <2> QED
    BY <1>1, <2>2, IdleForgotten DEF Goes
<1>2. CASE Returns(c) /\ idle_task' = Forgotten(c)
  <2>1. TurnMoves
    BY <1>2, ReturnsMoves, Rested DEF Awaiting
  <2> QED
    BY <1>2, <2>1, IdleForgotten DEF Goes
<1> QED
  BY <1>1, <1>2 DEF Final

LEMMA AnswersGoes ==
    ASSUME TimerType, NEW c \in Tasks, at[c] \in Awaiting, NEW said, NEW rest, Answers(c, said, rest),
           UNCHANGED cancelled
    PROVE  Goes
<1>1. at[c] # "none"
  BY DEF Awaiting
<1>2. owed' = [owed EXCEPT ![c[1]] = @ - 1]
  BY DEF Answers
<1>3. CASE To(c, "speak") /\ UNCHANGED idle_task
  <2>1. Moved(c, "speak") /\ "speak" \in Steps
    BY <1>1, <1>3 DEF Moved, Steps
  <2>2. "speak" \notin Awaiting /\ "speak" # "feed"
    BY DEF Awaiting
  <2>3. TurnMoves
    BY <1>2, <2>1, <2>2 DEF TurnMoves
  <2> QED
    BY <1>3, <2>3, IdleForgotten DEF Goes
<1>4. CASE Returns(c) /\ idle_task' = Forgotten(c)
  <2>1. PICK step \in {"read", "over"} : Moved(c, step)
    BY <1>1, <1>4, ReturnsMoves
  <2>2. step \in Steps /\ step \notin Awaiting /\ step # "feed"
    BY DEF Awaiting, Steps
  <2>3. TurnMoves
    BY <1>2, <2>1, <2>2 DEF TurnMoves
  <2> QED
    BY <1>4, <2>3, IdleForgotten DEF Goes
<1> QED
  BY <1>3, <1>4 DEF Answers

LEMMA ContinuesGoes ==
    ASSUME TimerType, NEW c \in Tasks, NEW said, NEW rest, Continues(c, said, rest), UNCHANGED cancelled
    PROVE  Goes
<1>1. CASE at[c] \in Awaiting /\ Answers(c, said, rest)
  BY <1>1, AnswersGoes
<1>2. CASE at[c] = "llm" /\ AsksAgain(c, rest)
  <2>1. Moved(c, "retry") /\ "retry" \in Steps /\ owed' = owed /\ UNCHANGED idle_task
    BY <1>2 DEF AsksAgain, Moved, Steps
  <2>2. TurnMoves
    BY <1>2, <2>1 DEF TurnMoves, Awaiting
  <2> QED
    BY <2>1, <2>2, IdleForgotten DEF Goes
<1>3. CASE at[c] \in {"tool", "repair"} /\ Responds(c, rest)
  <2>1. Returns(c) /\ owed' = owed /\ UNCHANGED idle_task
    BY <1>3 DEF Responds
  <2>2. TurnMoves
    BY <1>3, <2>1, ReturnsMoves, Rested DEF Awaiting
  <2> QED
    BY <2>1, <2>2, IdleForgotten DEF Goes
<1>4. CASE at[c] = "tool" /\ Repairs(c, rest)
  <2>1. Moved(c, "repair") /\ owed' = owed /\ UNCHANGED idle_task
    BY <1>4 DEF Repairs, Moved, Steps
  <2>2. TurnMoves
    BY <2>1, Rested DEF Awaiting
  <2> QED
    BY <2>1, <2>2, IdleForgotten DEF Goes
<1> QED
  BY <1>1, <1>2, <1>3, <1>4 DEF Continues, Awaiting

LEMMA TasksGo ==
    ASSUME TimerType, TimersBegun, NEW c \in Tasks,
           TimerStarts(c) \/ TimerCancelled(c) \/ TimerFires(c) \/ FinalSent(c) \/ TimesOut(c) \/ Spoken(c)
    PROVE  Goes
<1>0. c[1] \in Sessions
  BY TaskParts
<1>1. CASE TimerStarts(c)
  <2>1. Moved(c, "sleep") /\ owed' = owed /\ UNCHANGED timers
    BY <1>1 DEF TimerStarts, Runs, Moved, Steps
  <2>2. TurnMoves
    BY <2>1, Rested DEF Awaiting
  <2> QED
    BY <2>1, <2>2, IdleRests DEF Goes
<1>2. CASE TimerCancelled(c)
  <2>1. Moved(c, "over") /\ owed' = owed
    BY <1>2 DEF TimerCancelled, TimersBegun, Moved, Steps
  <2>2. TurnMoves
    BY <2>1, Rested DEF Awaiting
  <2>3. IdleMoves
    BY <1>0, <1>2 DEF TimerCancelled, TimerType, IdleMoves
  <2> QED
    BY <2>2, <2>3 DEF Goes
<1>3. CASE TimerFires(c)
  <2>1. at[c] = "sleep" /\ owed' = owed /\ UNCHANGED cancelled
    BY <1>3 DEF TimerFires, Runs
  <2>2. CASE Returns(c) /\ idle_task' = Forgotten(c)
    <3>1. TurnMoves
      BY <2>1, <2>2, ReturnsMoves, Rested DEF Awaiting
    <3> QED
      BY <2>1, <2>2, <3>1, IdleForgotten DEF Goes
  <2>3. ASSUME NEW said, Final(c, said)
        PROVE  Goes
    BY <2>1, <2>3, FinalMoves
  <2> QED
    BY <1>3, <2>2, <2>3 DEF TimerFires
<1>4. CASE FinalSent(c)
  <2>1. at[c] = "emit"
    BY <1>4 DEF FinalSent, Runs
  <2>2. IdleMoves
    <3>1. CASE open[c[1]]
      BY <1>0, <1>4, <3>1, IdleReset DEF FinalSent
    <3>2. CASE ~open[c[1]]
      BY <1>4, <3>2, IdleForgotten DEF FinalSent
    <3> QED
      BY <3>1, <3>2
  <2>3. CASE To(c, "llm") /\ owed' = [owed EXCEPT ![c[1]] = @ + 1]
    <3>1. Moved(c, "llm") /\ "llm" \in Steps
      BY <2>1, <2>3 DEF Moved, Steps
    <3>2. TurnMoves
      BY <2>3, <3>1 DEF TurnMoves
    <3> QED
      BY <2>2, <3>2 DEF Goes
  <2>4. CASE Returns(c) /\ owed' = owed
    <3>1. TurnMoves
      BY <2>1, <2>4, ReturnsMoves, Rested DEF Awaiting
    <3> QED
      BY <2>2, <3>1 DEF Goes
  <2> QED
    BY <1>4, <2>3, <2>4 DEF FinalSent
<1>5. CASE TimesOut(c)
  BY <1>5, AnswersGoes DEF TimesOut, TurnFrame, Awaiting
<1>6. CASE Spoken(c)
  <2>1. at[c] # "none" /\ Returns(c) /\ owed' = owed
    BY <1>6 DEF Spoken
  <2>2. TurnMoves
    BY <2>1, ReturnsMoves, Rested DEF Awaiting
  <2>3. IdleMoves
    BY <1>0, <1>6, IdleReset, IdleForgotten DEF Spoken
  <2> QED
    BY <2>2, <2>3 DEF Goes
<1> QED
  BY <1>1, <1>2, <1>3, <1>4, <1>5, <1>6

LEMMA JobsGo ==
    ASSUME TimerType, IInv, Jobs
    PROVE  Goes
<1>1. ASSUME UNCHANGED <<at, idle_task, cancelled, owed>>
      PROVE  Goes
  BY <1>1, IdleRests DEF Goes, TurnMoves, timers
<1>2. ASSUME NEW i \in DOMAIN jobs, NEW said, JobOver(i, said)
      PROVE  Goes
  BY <1>1, <1>2, JobOverIs, ContinuesGoes DEF TurnFrame
<1>3. ASSUME NEW i \in DOMAIN jobs, LlmReloaded(i)
      PROVE  Goes
  <2>1. jobs[i].of \in Tasks
    <3>1. jobs[i] \in Job
      BY DEF IInv, Orderly
    <3> QED
      BY <1>3, <3>1 DEF LlmReloaded, Reloads, Job
  <2>2. Moved(jobs[i].of, "read") /\ owed' = owed /\ UNCHANGED timers
    BY <1>3 DEF LlmReloaded, Reloads, Moved, Steps
  <2>3. TurnMoves
    BY <2>1, <2>2, Rested DEF Awaiting
  <2> QED
    BY <2>2, <2>3, IdleRests DEF Goes
<1> QED
  BY <1>1, <1>2, <1>3 DEF Jobs, TurnFrame

Schedule(s) == at[Handler(s)] = "feed" /\ Schedules(s) /\ owed' = owed

LEMMA SessionsGo ==
    ASSUME TimerType, NEW s \in Sessions,
           \/ AudioFed(s) \/ ModelsLoaded(s) \/ SessionEnds(s)
           \/ Client(s) \/ SuppressionEnds(s) \/ Warmed(s)
    PROVE  Goes \/ Schedule(s)
<1>0. Handler(s) \in Tasks /\ Handler(s)[1] = s /\ Handler(s)[2] = 0
  BY TaskParts
<1>1. ASSUME NEW step \in Steps \ {"none", "feed"}, at[Handler(s)] # "none", To(Handler(s), step),
             step \notin Awaiting, owed' = owed, UNCHANGED timers
      PROVE  Goes
  <2>1. TurnMoves
    BY <1>0, <1>1, Rested DEF Moved
  <2> QED
    BY <1>1, <2>1, IdleRests DEF Goes
<1>2. ASSUME UNCHANGED <<at, owed>>, IdleMoves
      PROVE  Goes
  BY <1>2 DEF Goes, TurnMoves
<1>3. CASE AudioFed(s)
  <2>1. at[Handler(s)] = "feed" /\ owed' = owed
    BY <1>3 DEF AudioFed, VoskFed, StreamFed, SegmentFed, Fed
  <2>2. CASE Heard(s)
    BY <1>0, <2>1, <2>2, FinalMoves DEF Heard
  <2>3. CASE HeardPart(s)
    BY <2>1, <2>3 DEF HeardPart, Schedule
  <2>4. CASE HeardNothing(s)
    <3>1. TurnMoves
      BY <1>0, <2>1, <2>4, ReturnsMoves, Rested DEF HeardNothing, Awaiting
    <3>2. IdleMoves
      BY <2>4, IdleRests DEF HeardNothing, timers
    <3> QED
      BY <3>1, <3>2 DEF Goes
  <2> QED
    BY <1>3, <2>2, <2>3, <2>4 DEF AudioFed, VoskFed, StreamFed, SegmentFed
<1>4. CASE ModelsLoaded(s)
  <2>1. \E step \in {"warm", "read"} : To(Handler(s), step)
    BY <1>4 DEF ModelsLoaded
  <2> QED
    BY <1>1, <1>4, <2>1 DEF ModelsLoaded, Awaiting, Steps
<1>5. CASE Warmed(s)
  BY <1>1, <1>5 DEF Warmed, Awaiting, Steps
<1>6. CASE SessionEnds(s)
  <2>1. Moved(Handler(s), "over") /\ owed' = owed /\ Resets(s, Handler(s), "")
    BY <1>6 DEF SessionEnds, Moved, Steps
  <2>2. TurnMoves
    BY <1>0, <2>1, Rested DEF Awaiting
  <2> QED
    BY <2>1, <2>2, IdleReset DEF Goes
<1>7. CASE SuppressionEnds(s) \/ BargeIn(s) \/ ClientLeaves(s)
  BY <1>2, <1>7, IdleRests DEF SuppressionEnds, BargeIn, ClientLeaves
<1>8. CASE AudioArrives(s)
  <2>1. at[Handler(s)] = "read" /\ owed' = owed /\ Cardinality(Begun(s)) < MaxTimers[s]
    BY <1>8 DEF AudioArrives, Arrives
  <2>2. CASE UNCHANGED <<at, timers, hearing>>
    BY <1>2, <2>1, <2>2, IdleRests
  <2>3. CASE Resets(s, Handler(s), "") /\ UNCHANGED <<at, suppressed>>
    BY <1>2, <2>1, <2>3, IdleReset
  <2>4. CASE To(Handler(s), "feed") /\ UNCHANGED <<cancelled, idle_task, last_final_text, suppressed>>
    <3>1. Moved(Handler(s), "feed") /\ "feed" \in Steps
      BY <2>1, <2>4 DEF Moved, Steps
    <3>2. "feed" \notin Awaiting
      BY DEF Awaiting
    <3>3. TurnMoves
      BY <1>0, <2>1, <3>1, <3>2 DEF TurnMoves
    <3> QED
      BY <2>4, <3>3, IdleRests DEF Goes, timers
  <2> QED
    BY <1>8, <2>2, <2>3, <2>4 DEF AudioArrives
<1>9. CASE Requested(s)
  <2>1. CASE Begins(s, "llm_request", "request", Asked(Handler(s), jobs)) /\ owed' = [owed EXCEPT ![s] = @ + 1]
    <3>1. Moved(Handler(s), "request") /\ "request" \in Steps /\ UNCHANGED timers
      BY <2>1 DEF Begins, Arrives, Moved, Steps
    <3>2. TurnMoves
      BY <1>0, <2>1, <3>1 DEF TurnMoves
    <3> QED
      BY <3>1, <3>2, IdleRests DEF Goes
  <2>2. ASSUME NEW message, NEW queue, NEW step \in {"say", "read", "tool", "lock"},
               Begins(s, message, step, queue), owed' = owed
        PROVE  Goes
    BY <1>1, <2>2 DEF Begins, Arrives, Awaiting, Steps
  <2> QED
    BY <1>9, <2>1, <2>2 DEF Requested
<1>10. CASE ReloadAsked(s)
  BY <1>1, <1>10 DEF ReloadAsked, Begins, Arrives, Awaiting, Steps
<1> QED
  BY <1>3, <1>4, <1>5, <1>6, <1>7, <1>8, <1>9, <1>10 DEF Client

LEMMA TextKeeps ==
    ASSUME IInv, TextType, Next
    PROVE  TextType'
<1> USE DEF TextType
<1>1. ASSUME text' = text \/ \E c \in Tasks : \E said \in Texts \cup {""} : text' = [text EXCEPT ![c] = said]
      PROVE  TextType'
  BY <1>1
<1>2. ASSUME NEW c \in Tasks, NEW said \in Texts \cup {""}, Final(c, said)
      PROVE  TextType'
  BY <1>1, <1>2 DEF Final
<1>3. ASSUME NEW c, NEW said, NEW rest, Answers(c, said, rest)
      PROVE  text' = [text EXCEPT ![c] = ""]
  BY <1>3 DEF Answers
<1>4. ASSUME NEW c \in Tasks, NEW said, NEW rest, Continues(c, said, rest)
      PROVE  TextType'
  BY <1>1, <1>3, <1>4 DEF Continues, AsksAgain, Repairs, Responds
<1>5. ASSUME NEW c \in Tasks,
             TimerStarts(c) \/ TimerCancelled(c) \/ FinalSent(c) \/ TimesOut(c) \/ Spoken(c)
      PROVE  TextType'
  BY <1>1, <1>3, <1>5 DEF TimerStarts, TimerCancelled, FinalSent, TimesOut, Spoken
<1>6. ASSUME NEW c \in Tasks, TimerFires(c)
      PROVE  TextType'
  BY <1>1, <1>2, <1>6 DEF TimerFires
<1>7. ASSUME NEW s \in Sessions, AudioFed(s)
      PROVE  TextType'
  <2>1. ASSUME Heard(s)
        PROVE  TextType'
    BY <1>2, <2>1, TaskParts DEF Heard
  <2> QED
    BY <1>1, <1>7, <2>1 DEF AudioFed, VoskFed, StreamFed, SegmentFed, HeardPart, HeardNothing
<1>8. ASSUME NEW s \in Sessions,
             ModelsLoaded(s) \/ SessionEnds(s) \/ Client(s) \/ SuppressionEnds(s) \/ Warmed(s)
      PROVE  TextType'
  BY <1>1, <1>8 DEF ModelsLoaded, SessionEnds, Client, AudioArrives, BargeIn, Requested, ReloadAsked,
     ClientLeaves,
     Begins, SuppressionEnds, Warmed
<1>9. CASE Jobs
  BY <1>1, <1>4, <1>9, JobOverIs DEF Jobs, LlmReloaded
<1> QED
  BY <1>5, <1>6, <1>7, <1>8, <1>9, StepIs

LEMMA StepGoes ==
    ASSUME TimerType, TimersBegun, IInv, Next
    PROVE  Goes \/ \E s \in Sessions : Schedule(s)
BY StepIs, TasksGo, JobsGo, SessionsGo

\* One coroutine's step changes its own place only, and nobody's beginning.
LEMMA OnlyOneGoes ==
    ASSUME TimerType, TurnMoves
    PROVE  /\ at' \in [Tasks -> Steps]
           /\ \A d \in Tasks : at[d] = "none" <=> at'[d] = "none"
           /\ \A s \in Sessions : Begun(s)' = Begun(s)
<1>1. at' \in [Tasks -> Steps] /\ \A d \in Tasks : at[d] = "none" <=> at'[d] = "none"
  <2>1. CASE at' = at
    BY <2>1 DEF TimerType
  <2>2. ASSUME NEW c \in Tasks, NEW step, Moved(c, step)
        PROVE  at' \in [Tasks -> Steps] /\ \A d \in Tasks : at[d] = "none" <=> at'[d] = "none"
    BY <2>2 DEF TimerType, Moved, To
  <2> QED
    BY <2>1, <2>2 DEF TurnMoves
<1> QED
  BY <1>1 DEF Begun, Timers

\* The timer that is scheduled is the session's next.
LEMMA ScheduleDoes ==
    ASSUME TimerType, RoomToBegin, NEW s \in Sessions, Schedule(s)
    PROVE  \E k \in 1 .. MaxTimers[s] :
             /\ k = Cardinality(Begun(s)) + 1
             /\ at' = [at EXCEPT ![Handler(s)] = "read", ![<<s, k>>] = "new"]
             /\ idle_task' = [idle_task EXCEPT ![s] = k]
             /\ cancelled' = cancelled \cup IdleCancelled(s, Handler(s))
             /\ owed' = owed
<1>1. IsFiniteSet(Begun(s))
  <2>1. Begun(s) \subseteq {c \in Tasks : c[1] = s}
    BY DEF Begun, Timers
  <2> QED
    BY <2>1, TasksFinite, FS_Subset
<1>2. Cardinality(Begun(s)) \in Nat
  BY <1>1, FS_CardinalityType
<1>3. Cardinality(Begun(s)) < MaxTimers[s]
  BY DEF RoomToBegin, Schedule
<1>4. Cardinality(Begun(s)) + 1 \in 1 .. MaxTimers[s]
  BY <1>2, <1>3, TaskParts
<1> QED
  BY <1>4 DEF Schedule, Schedules

LEMMA TimersKeep ==
    ASSUME TimerType, TimersBegun, RoomToBegin, IInv, Next
    PROVE  TimerType' /\ TimersBegun' /\ RoomToBegin'
<1>0. \A s \in Sessions : idle_task[s] \in 0 .. MaxTimers[s] /\ MaxTimers[s] \in Nat
  BY TaskParts DEF TimerType
<1>1. CASE Goes
  <2> USE DEF Goes
  <2>1. /\ at' \in [Tasks -> Steps]
        /\ \A d \in Tasks : at[d] = "none" <=> at'[d] = "none"
        /\ \A s \in Sessions : Begun(s)' = Begun(s)
    BY <1>1, OnlyOneGoes
  <2>2. TimerType'
    BY <1>0, <1>1, <2>1 DEF TimerType, IdleMoves
  <2>3. TimersBegun'
    <3>1. \A c \in cancelled' : at'[c] # "none"
      BY <1>1, <2>1 DEF TimerType, TimersBegun, IdleMoves
    <3>2. ASSUME NEW s \in Sessions, idle_task'[s] # 0
          PROVE  at'[<<s, idle_task'[s]>>] # "none"
      <4>1. idle_task'[s] = idle_task[s] /\ <<s, idle_task[s]>> \in Tasks
        BY <1>0, <1>1, <3>2, TaskParts DEF IdleMoves
      <4> QED
        BY <2>1, <3>2, <4>1 DEF TimersBegun
    <3> QED
      BY <3>1, <3>2 DEF TimersBegun
  <2>4. RoomToBegin'
    <3>1. SUFFICES ASSUME NEW s \in Sessions, at'[Handler(s)] = "feed"
                   PROVE  Cardinality(Begun(s)) < MaxTimers[s]
      BY <2>1 DEF RoomToBegin, Handler
    <3>2. CASE at[Handler(s)] = "feed"
      BY <3>2 DEF RoomToBegin
    <3>3. CASE at[Handler(s)] # "feed"
      <4>1. PICK c \in Tasks, step \in Steps :
              /\ Moved(c, step)
              /\ step = "feed" => c = Handler(c[1]) /\ Cardinality(Begun(c[1])) < MaxTimers[c[1]]
        BY <1>1, <3>1, <3>3 DEF TurnMoves
      <4>2. c = Handler(s) /\ step = "feed"
        BY <3>1, <3>3, <4>1, TaskParts DEF Moved, To, TimerType
      <4> QED
        BY <4>1, <4>2, TaskParts
    <3> QED
      BY <3>2, <3>3
  <2> QED
    BY <2>2, <2>3, <2>4
<1>2. ASSUME NEW s \in Sessions, Schedule(s)
      PROVE  TimerType' /\ TimersBegun' /\ RoomToBegin'
  <2>1. PICK k \in 1 .. MaxTimers[s] :
          /\ at' = [at EXCEPT ![Handler(s)] = "read", ![<<s, k>>] = "new"]
          /\ idle_task' = [idle_task EXCEPT ![s] = k]
          /\ cancelled' = cancelled \cup IdleCancelled(s, Handler(s))
    BY <1>2, ScheduleDoes
  <2>2. /\ k \in Nat /\ k # 0 /\ k \in 0 .. MaxTimers[s] /\ <<s, k>> \in Tasks /\ <<s, k>>[1] = s
        /\ <<s, k>>[2] = k
    BY <1>0, TaskParts
  <2>3. /\ Handler(s) \in Tasks /\ Handler(s)[1] = s /\ Handler(s)[2] = 0 /\ Handler(s) # <<s, k>>
    BY <2>2, TaskParts
  <2>4. at' \in [Tasks -> Steps] /\ at'[Handler(s)] = "read" /\ at'[<<s, k>>] = "new"
        /\ \A d \in Tasks : d # Handler(s) /\ d # <<s, k>> => at'[d] = at[d]
    BY <2>1, <2>2, <2>3 DEF TimerType, Steps
  <2>5. \A d \in Tasks : at[d] # "none" => at'[d] # "none"
    BY <2>4
  <2>6. \A d \in IdleCancelled(s, Handler(s)) : d \in Tasks /\ at[d] # "none"
    <3>1. ASSUME NEW d \in IdleCancelled(s, Handler(s))
          PROVE  d \in Tasks /\ at[d] # "none"
      BY CancelledIs DEF TimersBegun
    <3> QED
      BY <3>1
  <2>7. idle_task' \in [Sessions -> Nat] /\ idle_task'[s] = k /\ \A r \in Sessions : r # s => idle_task'[r] = idle_task[r]
    BY <2>1, <2>2 DEF TimerType
  <2>8. TimerType'
    <3>1. \A r \in Sessions : idle_task'[r] \in 0 .. MaxTimers[r]
      BY <1>0, <2>2, <2>7
    <3>2. cancelled' \subseteq Tasks
      BY <2>1, <2>6 DEF TimerType
    <3> QED
      BY <2>4, <2>7, <3>1, <3>2 DEF TimerType
  <2>9. TimersBegun'
    <3>1. \A c \in cancelled' : at'[c] # "none"
      BY <2>1, <2>5, <2>6 DEF TimerType, TimersBegun
    <3>2. ASSUME NEW r \in Sessions, idle_task'[r] # 0
          PROVE  at'[<<r, idle_task'[r]>>] # "none"
      <4>1. CASE r = s
        BY <2>4, <2>7, <4>1
      <4>2. CASE r # s
        <5>1. idle_task'[r] = idle_task[r] /\ <<r, idle_task[r]>> \in Tasks
          BY <1>0, <2>7, <4>2, TaskParts
        <5> QED
          BY <2>5, <3>2, <5>1 DEF TimersBegun
      <4> QED
        BY <4>1, <4>2
    <3> QED
      BY <3>1, <3>2 DEF TimersBegun
  <2>10. RoomToBegin'
    <3>1. SUFFICES ASSUME NEW r \in Sessions, at'[Handler(r)] = "feed"
                   PROVE  Cardinality(Begun(r)') < MaxTimers[r]
      BY DEF RoomToBegin, Handler
    <3>2. r # s
      BY <2>4, <3>1
    <3>3. Handler(r) \in Tasks /\ Handler(r)[1] = r /\ Handler(r) # Handler(s) /\ Handler(r) # <<s, k>>
      BY <2>2, <2>3, <3>2, TaskParts
    <3>4. at[Handler(r)] = "feed"
      BY <2>4, <3>1, <3>3
    <3>5. \A d \in Timers(r) : d \in Tasks /\ d # Handler(s) /\ d # <<s, k>>
      BY <2>2, <2>3, <3>2 DEF Timers
    <3>6. Begun(r)' = Begun(r)
      BY <2>4, <3>5 DEF Begun, Timers
    <3> QED
      BY <3>4, <3>6 DEF RoomToBegin
  <2> QED
    BY <2>8, <2>9, <2>10
<1> QED
  BY <1>1, <1>2, StepGoes

-----------------------------------------------------------------------------
(* What is owed.                                                            *)

OwedType == owed \in [Sessions -> Nat]

LEMMA OwedKeeps ==
    ASSUME TimerType, TimersBegun, RoomToBegin, IInv, OwedType, OwedCovers, Next
    PROVE  OwedType' /\ OwedCovers'
<1>1. \A s \in Sessions : IsFiniteSet(Waiting(s)) /\ Cardinality(Waiting(s)) \in Nat
  <2>1. ASSUME NEW s \in Sessions
        PROVE  IsFiniteSet(Waiting(s)) /\ Cardinality(Waiting(s)) \in Nat
    <3>1. Waiting(s) \subseteq {c \in Tasks : c[1] = s}
      BY DEF Waiting
    <3>2. IsFiniteSet(Waiting(s))
      BY <3>1, TasksFinite, FS_Subset
    <3> QED
      BY <3>2, FS_CardinalityType
  <2> QED
    BY <2>1
\* Nobody of session s begins to wait.
<1>2. ASSUME NEW s \in Sessions, \A d \in Tasks : d[1] = s /\ Awaits(d)' => Awaits(d), owed'[s] = owed[s]
      PROVE  owed'[s] \in Nat /\ Cardinality(Waiting(s)') <= owed'[s]
  <2>1. Waiting(s)' \subseteq Waiting(s)
    BY <1>2 DEF Waiting
  <2>2. IsFiniteSet(Waiting(s)') /\ Cardinality(Waiting(s)') <= Cardinality(Waiting(s))
    BY <1>1, <2>1, FS_Subset
  <2>3. Cardinality(Waiting(s)') \in Nat
    BY <2>2, FS_CardinalityType
  <2> QED
    BY <1>1, <1>2, <2>2, <2>3 DEF OwedCovers, OwedType
<1>3. CASE TurnMoves
  <2>1. CASE at' = at /\ owed' = owed
    BY <1>2, <2>1 DEF Awaits, OwedType, OwedCovers, Waiting
  <2>2. ASSUME NEW c \in Tasks, NEW step \in Steps, Moved(c, step),
               \/ owed' = owed /\ (step \in Awaiting => at[c] \in Awaiting)
               \/ owed' = [owed EXCEPT ![c[1]] = @ + 1]
               \/ owed' = [owed EXCEPT ![c[1]] = @ - 1] /\ at[c] \in Awaiting /\ step \notin Awaiting
        PROVE  OwedType' /\ OwedCovers'
    <3>1. at'[c] = step /\ \A d \in Tasks : d # c => at'[d] = at[d]
      BY <2>2 DEF Moved, To, TimerType
    <3>2. c[1] \in Sessions /\ \A d \in Tasks : d # c => (Awaits(d)' <=> Awaits(d))
      BY <3>1, TaskParts DEF Awaits
    <3>3. \A s \in Sessions : s # c[1] => owed'[s] = owed[s]
      BY <2>2, <3>2 DEF OwedType
    <3>4. \A s \in Sessions : s # c[1] => owed'[s] \in Nat /\ Cardinality(Waiting(s)') <= owed'[s]
      BY <1>2, <3>2, <3>3
    <3>5. owed'[c[1]] \in Nat /\ Cardinality(Waiting(c[1])') <= owed'[c[1]]
      <4>1. CASE owed' = owed /\ (step \in Awaiting => at[c] \in Awaiting)
        BY <1>2, <3>1, <3>2, <4>1 DEF Awaits, Awaiting
      <4>2. CASE owed' = [owed EXCEPT ![c[1]] = @ + 1]
        <5>1. Waiting(c[1])' \subseteq Waiting(c[1]) \cup {c}
          BY <3>2 DEF Waiting
        <5>2. /\ IsFiniteSet(Waiting(c[1]) \cup {c})
              /\ Cardinality(Waiting(c[1]) \cup {c}) <= Cardinality(Waiting(c[1])) + 1
              /\ Cardinality(Waiting(c[1]) \cup {c}) \in Nat
          <6>1. /\ IsFiniteSet(Waiting(c[1]) \cup {c})
                /\ Cardinality(Waiting(c[1]) \cup {c}) =
                     IF c \in Waiting(c[1]) THEN Cardinality(Waiting(c[1])) ELSE Cardinality(Waiting(c[1])) + 1
            BY <1>1, <3>2, FS_AddElement
          <6> QED
            BY <1>1, <3>2, <6>1
        <5>3. IsFiniteSet(Waiting(c[1])') /\ Cardinality(Waiting(c[1])') <= Cardinality(Waiting(c[1]) \cup {c})
          BY <5>1, <5>2, FS_Subset
        <5>4. Cardinality(Waiting(c[1])') \in Nat
          BY <5>3, FS_CardinalityType
        <5>5. owed[c[1]] \in Nat /\ Cardinality(Waiting(c[1])) <= owed[c[1]] /\ owed'[c[1]] = owed[c[1]] + 1
          BY <3>2, <4>2 DEF OwedType, OwedCovers
        <5> QED
          BY <1>1, <3>2, <5>2, <5>3, <5>4, <5>5
      <4>3. CASE owed' = [owed EXCEPT ![c[1]] = @ - 1] /\ at[c] \in Awaiting /\ step \notin Awaiting
        <5>1. c \in Waiting(c[1]) /\ ~Awaits(c)'
          BY <3>1, <4>3 DEF Waiting, Awaits, Awaiting
        <5>2. Waiting(c[1])' \subseteq Waiting(c[1]) \ {c}
          BY <3>2, <5>1 DEF Waiting
        <5>3. /\ IsFiniteSet(Waiting(c[1]) \ {c})
              /\ Cardinality(Waiting(c[1]) \ {c}) = Cardinality(Waiting(c[1])) - 1
          BY <1>1, <3>2, <5>1, FS_RemoveElement
        <5>4. IsFiniteSet(Waiting(c[1])') /\ Cardinality(Waiting(c[1])') <= Cardinality(Waiting(c[1]) \ {c})
          BY <5>2, <5>3, FS_Subset
        <5>5. Cardinality(Waiting(c[1])') \in Nat /\ Cardinality(Waiting(c[1]) \ {c}) \in Nat
          BY <5>3, <5>4, FS_CardinalityType
        <5>6. owed[c[1]] \in Nat /\ Cardinality(Waiting(c[1])) <= owed[c[1]] /\ owed'[c[1]] = owed[c[1]] - 1
          BY <3>2, <4>3 DEF OwedType, OwedCovers
        <5> QED
          BY <1>1, <3>2, <5>3, <5>4, <5>5, <5>6
      <4> QED
        BY <2>2, <4>1, <4>2, <4>3
    <3>6. DOMAIN owed' = Sessions /\ owed' = [s \in Sessions |-> owed'[s]]
      BY <2>2 DEF OwedType
    <3>7. OwedCovers'
      BY <3>4, <3>5 DEF OwedCovers
    <3> QED
      BY <3>4, <3>5, <3>6, <3>7 DEF OwedType
  <2> QED
    BY <1>3, <2>1, <2>2 DEF TurnMoves
<1>4. ASSUME NEW s \in Sessions, Schedule(s)
      PROVE  OwedType' /\ OwedCovers'
  <2>1. PICK k \in 1 .. MaxTimers[s] :
          at' = [at EXCEPT ![Handler(s)] = "read", ![<<s, k>>] = "new"] /\ owed' = owed
    BY <1>4, ScheduleDoes
  <2>2. \A d \in Tasks : Awaits(d)' => Awaits(d)
    BY <2>1 DEF Awaits, TimerType
  <2> QED
    BY <1>2, <2>1, <2>2 DEF OwedType, OwedCovers
<1> QED
  BY <1>3, <1>4, StepGoes DEF Goes

-----------------------------------------------------------------------------

TypesInv ==
    /\ IInv /\ PeerType /\ HearType /\ TextType /\ TimerType /\ LlmType
    /\ TimersBegun /\ RoomToBegin /\ OwedType /\ OwedCovers

LEMMA TypesStart == Init => TypesInv
<1> SUFFICES ASSUME Init
             PROVE  TypesInv
  OBVIOUS
<1>0. <<>> \in Seq(Job) /\ DOMAIN <<>> = {}
  OBVIOUS
<1>1. IInv /\ LlmType
  <2>1. /\ jobs = <<>> /\ models = 1 /\ loaded = TRUE /\ stt = TRUE
        /\ warm = [s \in Sessions |-> 0] /\ suppressed = {}
    BY DEF Init
  <2>2. IInv
    BY <1>0, <2>1 DEF IInv, Orderly
  <2>3. jobs \in Seq(Job) /\ models \in Nat \ {0}
    BY <1>0, <2>1
  <2>4. loaded \in BOOLEAN /\ stt \in BOOLEAN
    BY <2>1
  <2> QED
    BY <1>0, <2>1, <2>2, <2>3, <2>4 DEF LlmType
<1> USE DEF Init
<1>2. PeerType /\ HearType /\ TextType /\ OwedType
  BY DEF PeerType, HearType, TextType, OwedType
<1>3. TimerType
  BY TaskParts DEF TimerType, Steps
<1>4. TimersBegun /\ RoomToBegin
  BY TaskParts DEF TimersBegun, RoomToBegin
<1>5. OwedCovers
  <2>1. \A s \in Sessions : Waiting(s) = {}
    BY DEF Waiting, Awaits
  <2>2. \A s \in Sessions : owed[s] = 0
    OBVIOUS
  <2> HIDE DEF Init
  <2>3. \A s \in Sessions : Cardinality(Waiting(s)) = 0
    BY <2>1, FS_EmptySet
  <2> QED
    BY <2>2, <2>3 DEF OwedCovers
<1> QED
  BY <1>1, <1>2, <1>3, <1>4, <1>5 DEF TypesInv

LEMMA TypesStep == TypesInv /\ [Next]_vars => TypesInv'
<1>1. ASSUME TypesInv, Next
      PROVE  TypesInv'
  <2>1. IInv'
    BY <1>1, StepMoves, MovesKeepOrder DEF IInv, TypesInv
  <2>2. PeerType' /\ HearType' /\ TextType' /\ LlmType'
    BY <1>1, PeerKeeps, HearKeeps, TextKeeps, LlmKeeps DEF TypesInv
  <2>3. TimerType' /\ TimersBegun' /\ RoomToBegin' /\ OwedType' /\ OwedCovers'
    BY <1>1, TimersKeep, OwedKeeps DEF TypesInv
  <2> QED
    BY <2>1, <2>2, <2>3 DEF TypesInv
<1>2. ASSUME TypesInv, UNCHANGED vars
      PROVE  TypesInv'
  BY <1>2 DEF TypesInv, IInv, PeerType, Hearing, HearType, TextType, TimerType, LlmType, TimersBegun,
     RoomToBegin,
     OwedType, OwedCovers, Waiting, Awaits, Begun, Timers, vars, config, peer, timers, hearing, server
<1> QED
  BY <1>1, <1>2

\* For any sessions, plans and reloads every reachable state of the local AI server is
\* well typed; above all, no session is ever given an answer to a turn it did not begin:
\* it is owed at least as many as its coroutines wait for.
THEOREM ServerTypeCorrect == Spec => [](TypeOK /\ OwedCovers)
<1>1. TypesInv => TypeOK /\ OwedCovers
  <2> SUFFICES ASSUME TypesInv
               PROVE  TypeOK
    BY DEF TypesInv
  <2>1. \A i \in DOMAIN jobs : /\ jobs[i].of \in Tasks \cup {Nobody} /\ jobs[i].lock \in {"waits", "holds"}
                               /\ jobs[i].on \in 0 .. models
    <3>1. models \in Nat /\ \A i \in DOMAIN jobs : jobs[i] \in Job /\ jobs[i].on <= models
      BY DEF TypesInv, IInv, Orderly, LlmType
    <3> QED
      BY <3>1 DEF Job
  <2> QED
    BY <2>1 DEF TypesInv, TypeOK, PeerType, HearType, TextType, TimerType, LlmType, OwedType
<1> QED
  BY <1>1, TypesStart, TypesStep, PTL DEF Spec

-----------------------------------------------------------------------------
(* The local AI server: who waits for the LLM.                              *)

Parked == {"llm", "retry", "request", "tool", "repair", "lock"}

\* A coroutine has one job at most.
Single(q) == \A i, j \in DOMAIN q : q[i].of = q[j].of /\ q[i].of # Nobody => i = j

\* Who waits for the LLM has its job in the queue, unless it is about to be cancelled;
\* and what a job returns is waited for, unless nobody is named.
JobsAwaited ==
    /\ \A c \in Tasks : at[c] \in Parked => c \in cancelled \/ \E i \in DOMAIN jobs : jobs[i].of = c
    /\ \A i \in DOMAIN jobs : jobs[i].of # Nobody => at[jobs[i].of] \in Parked

\* A thread is running, or the first of the queue can have the lock.
LockMoves == jobs # <<>> => Served(1) \/ \E i \in DOMAIN jobs : jobs[i].on # 0

\* Whoever holds the lock has a thread, which does not reload the models.
JobsInv ==
    /\ Single(jobs) /\ JobsAwaited /\ models # 0
    /\ \A i \in DOMAIN jobs : jobs[i].lock = "holds" => jobs[i].on # 0
    /\ \A i \in DOMAIN jobs : jobs[i].on # 0 /\ jobs[i].of # Nobody => at[jobs[i].of] # "lock"

LEMMA RemovedJobs ==
    ASSUME IInv, NEW i \in DOMAIN jobs, NEW q, q = RemoveAt(jobs, i), Single(jobs)
    PROVE  /\ q \in Seq(Job) /\ Single(q)
           /\ \A j \in DOMAIN q : \E k \in DOMAIN jobs : k # i /\ q[j] = jobs[k]
           /\ \A k \in DOMAIN jobs : k # i => \E j \in DOMAIN q : q[j] = jobs[k]
<1> DEFINE from(j) == IF j < i THEN j ELSE j + 1
           to(k) == IF k < i THEN k ELSE k - 1
<1>1. /\ jobs \in Seq(Job) /\ q \in Seq(Job) /\ DOMAIN q = 1 .. Len(jobs) - 1 /\ i \in 1 .. Len(jobs)
      /\ \A j \in 1 .. Len(jobs) - 1 : q[j] = jobs[from(j)]
  BY RemoveAtIs DEF IInv, Orderly
<1>2. /\ \A j \in DOMAIN q : from(j) \in DOMAIN jobs /\ from(j) # i
      /\ \A j, k \in DOMAIN q : from(j) = from(k) => j = k
      /\ \A k \in DOMAIN jobs : k # i => to(k) \in DOMAIN q /\ from(to(k)) = k
  BY <1>1
<1> HIDE DEF from, to
<1>3. \A k \in DOMAIN jobs : k # i => to(k) \in DOMAIN q /\ q[to(k)] = jobs[k]
  BY <1>1, <1>2
<1>4. Single(q)
  BY <1>1, <1>2 DEF Single
<1> QED
  BY <1>1, <1>2, <1>3, <1>4

LEMMA NobodyIsNoTask == Nobody \notin Tasks
BY TaskParts DEF Nobody

\* Nobody begins or ends to wait for the LLM.
LEMMA QuietJobs ==
    ASSUME JobsInv, IInv, UNCHANGED <<jobs, models>> \/ (UNCHANGED jobs /\ models' # 0),
           cancelled \subseteq cancelled',
           \A d \in Tasks : at'[d] = at[d] \/ (at[d] \notin Parked /\ at'[d] \notin Parked)
    PROVE  JobsInv'
<1>1. \A i \in DOMAIN jobs : jobs[i].of \in Tasks \cup {Nobody}
  <2>1. \A i \in DOMAIN jobs : jobs[i] \in Job
    BY DEF IInv, Orderly
  <2> QED
    BY <2>1 DEF Job
<1>2. JobsAwaited'
  BY <1>1 DEF JobsInv, JobsAwaited
<1>3. \A i \in DOMAIN jobs : jobs[i].on # 0 /\ jobs[i].of # Nobody => at'[jobs[i].of] # "lock"
  BY <1>1 DEF JobsInv, JobsAwaited, Parked
<1> QED
  BY <1>2, <1>3 DEF JobsInv

\* One coroutine asks, behind what is left of the queue; it had no other job there.
LEMMA AskedJobs ==
    ASSUME JobsInv, NEW c \in Tasks, NEW q \in Seq(Job), Single(q), jobs' = Asked(c, q),
           \A j \in DOMAIN q : q[j].of # c /\ \E k \in DOMAIN jobs : q[j] = jobs[k],
           \A k \in DOMAIN jobs : jobs[k].of = c \/ \E j \in DOMAIN q : q[j] = jobs[k],
           at \in [Tasks -> Steps], NEW step \in Parked, To(c, step), UNCHANGED models,
           cancelled \subseteq cancelled'
    PROVE  JobsInv'
<1> DEFINE new == [of |-> c, lock |-> "waits", on |-> 0]
<1>1. new.of = c /\ new.lock = "waits" /\ new.on = 0
  OBVIOUS
<1> HIDE DEF new
<1>2. /\ jobs' = Append(q, new) /\ Len(q) \in Nat /\ DOMAIN jobs' = DOMAIN q \cup {Len(q) + 1}
      /\ \A j \in DOMAIN q : jobs'[j] = q[j]
      /\ jobs'[Len(q) + 1] = new /\ Len(q) + 1 \notin DOMAIN q
  BY DEF Asked, new
<1> DEFINE n == Len(q) + 1
<1> HIDE DEF n
<1>3. at'[c] = step /\ \A d \in Tasks : d # c => at'[d] = at[d]
  BY DEF To
<1>4. \A j \in DOMAIN q : q[j].of \in Tasks \cup {Nobody}
  <2>1. \A j \in DOMAIN q : q[j] \in Job
    OBVIOUS
  <2> QED
    BY <2>1 DEF Job
<1>5. Single(jobs')
  BY <1>1, <1>2 DEF Single, n
<1>6. JobsAwaited'
  <2>1. ASSUME NEW d \in Tasks, at'[d] \in Parked
        PROVE  d \in cancelled' \/ \E i \in DOMAIN jobs' : jobs'[i].of = d
    <3>1. CASE d = c
      BY <1>1, <1>2, <3>1
    <3>2. CASE d # c
      <4>1. d \in cancelled \/ \E k \in DOMAIN jobs : jobs[k].of = d
        BY <1>3, <2>1, <3>2 DEF JobsInv, JobsAwaited
      <4> QED
        BY <1>2, <3>2, <4>1
    <3> QED
      BY <3>1, <3>2
  <2>2. ASSUME NEW i \in DOMAIN jobs', jobs'[i].of # Nobody
        PROVE  at'[jobs'[i].of] \in Parked
    <3>1. CASE i \in DOMAIN q
      BY <1>2, <1>3, <1>4, <2>2, <3>1 DEF JobsInv, JobsAwaited
    <3>2. CASE i = Len(q) + 1
      BY <1>1, <1>2, <1>3, <3>2
    <3> QED
      BY <1>2, <3>1, <3>2
  <2> QED
    BY <2>1, <2>2 DEF JobsAwaited
<1>7. \A i \in DOMAIN jobs' : jobs'[i].lock = "holds" => jobs'[i].on # 0
  BY <1>1, <1>2 DEF JobsInv
<1>8. \A i \in DOMAIN jobs' : jobs'[i].on # 0 /\ jobs'[i].of # Nobody => at'[jobs'[i].of] # "lock"
  BY <1>1, <1>2, <1>3, <1>4 DEF JobsInv
<1> QED
  BY <1>5, <1>6, <1>7, <1>8 DEF JobsInv

\* A coroutine gives up; its job stays, for nobody.
LEMMA AbandonedJobs ==
    ASSUME JobsInv, IInv, NEW c \in Tasks, jobs' = Abandoned(c), UNCHANGED models,
           at \in [Tasks -> Steps], NEW step \in Steps \ Parked, To(c, step),
           cancelled \ {c} \subseteq cancelled'
    PROVE  JobsInv'
<1>1. /\ DOMAIN jobs' = DOMAIN jobs /\ \A i \in DOMAIN jobs : jobs[i] \in Job
      /\ \A i \in DOMAIN jobs : /\ jobs'[i].of = IF jobs[i].of = c THEN Nobody ELSE jobs[i].of
                                /\ jobs'[i].lock = jobs[i].lock /\ jobs'[i].on = jobs[i].on
  <2>1. \A i \in DOMAIN jobs : jobs[i] \in Job
    BY DEF IInv, Orderly
  <2> QED
    BY <2>1 DEF Abandoned, Job
<1>2. at'[c] = step /\ \A d \in Tasks : d # c => at'[d] = at[d]
  BY DEF To
<1>3. \A i \in DOMAIN jobs : jobs[i].of \in Tasks \cup {Nobody}
  BY <1>1 DEF Job
<1>4. Single(jobs')
  BY <1>1 DEF JobsInv, Single
<1>5. JobsAwaited'
  BY <1>1, <1>2, <1>3 DEF JobsInv, JobsAwaited
<1> QED
  BY <1>1, <1>2, <1>3, <1>4, <1>5 DEF JobsInv

\* A job is over, and nobody asks again.
LEMMA OverJobs ==
    ASSUME JobsInv, IInv, NEW i \in DOMAIN jobs, jobs' = RemoveAt(jobs, i), models' # 0,
           at \in [Tasks -> Steps], cancelled \subseteq cancelled',
           \/ at' = at /\ (jobs[i].of = Nobody \/ jobs[i].of \in cancelled)
           \/ jobs[i].of # Nobody /\ \E step \in Steps \ Parked : To(jobs[i].of, step)
    PROVE  JobsInv'
<1>1. /\ Single(jobs')
      /\ \A j \in DOMAIN jobs' : \E k \in DOMAIN jobs : k # i /\ jobs'[j] = jobs[k]
      /\ \A k \in DOMAIN jobs : k # i => \E j \in DOMAIN jobs' : jobs'[j] = jobs[k]
  BY RemovedJobs DEF JobsInv
<1>2. \A k \in DOMAIN jobs : jobs[k].of \in Tasks \cup {Nobody}
  <2>1. \A k \in DOMAIN jobs : jobs[k] \in Job
    BY DEF IInv, Orderly
  <2> QED
    BY <2>1 DEF Job
<1>3. \A k \in DOMAIN jobs : k # i /\ jobs[k].of # Nobody => jobs[k].of # jobs[i].of
  BY DEF JobsInv, Single
<1>4. \A d \in Tasks : d # jobs[i].of => at'[d] = at[d]
  BY DEF To
<1>5. ASSUME NEW d \in Tasks, at'[d] \in Parked
      PROVE  d \in cancelled' \/ \E j \in DOMAIN jobs' : jobs'[j].of = d
  <2>1. at[d] \in Parked /\ (d = jobs[i].of => d \in cancelled)
    <3>1. CASE at' = at /\ (jobs[i].of = Nobody \/ jobs[i].of \in cancelled)
      BY <1>5, <3>1, NobodyIsNoTask
    <3>2. CASE jobs[i].of # Nobody /\ \E step \in Steps \ Parked : To(jobs[i].of, step)
      BY <1>2, <1>5, <3>2 DEF To
    <3> QED
      BY <3>1, <3>2
  <2>2. d \in cancelled \/ \E k \in DOMAIN jobs : jobs[k].of = d
    BY <2>1 DEF JobsInv, JobsAwaited
  <2>3. CASE d = jobs[i].of
    BY <2>1, <2>3
  <2>4. CASE d # jobs[i].of
    BY <1>1, <2>2, <2>4
  <2> QED
    BY <2>3, <2>4
<1>6. ASSUME NEW j \in DOMAIN jobs', jobs'[j].of # Nobody
      PROVE  at'[jobs'[j].of] = at[jobs'[j].of] /\ at[jobs'[j].of] \in Parked
  <2>1. PICK k \in DOMAIN jobs : k # i /\ jobs'[j] = jobs[k]
    BY <1>1
  <2> QED
    BY <1>2, <1>3, <1>4, <1>6, <2>1 DEF JobsInv, JobsAwaited
<1>7. \A j \in DOMAIN jobs' : jobs'[j].lock = "holds" => jobs'[j].on # 0
  BY <1>1 DEF JobsInv
<1>8. \A j \in DOMAIN jobs' : jobs'[j].on # 0 /\ jobs'[j].of # Nobody => at'[jobs'[j].of] # "lock"
  BY <1>1, <1>6 DEF JobsInv
<1>9. JobsAwaited'
  BY <1>5, <1>6 DEF JobsAwaited
<1> QED
  BY <1>1, <1>7, <1>8, <1>9 DEF JobsInv

\* A job that asks for the LLM gets the lock and a thread.
LEMMA ServedJobs ==
    ASSUME JobsInv, IInv, NEW i \in DOMAIN jobs, ~Reloads(i),
           jobs' = [jobs EXCEPT ![i] = [@ EXCEPT !.lock = "holds", !.on = models]],
           UNCHANGED <<at, cancelled, models>>
    PROVE  JobsInv'
<1>1. /\ DOMAIN jobs' = DOMAIN jobs /\ \A k \in DOMAIN jobs : k # i => jobs'[k] = jobs[k]
      /\ jobs'[i].of = jobs[i].of /\ jobs'[i].on = models
  <2>1. \A k \in DOMAIN jobs : jobs[k] \in Job
    BY DEF IInv, Orderly
  <2> QED
    BY <2>1 DEF Job
<1>2. \A k \in DOMAIN jobs : jobs'[k].of = jobs[k].of
  BY <1>1
<1>3. Single(jobs') /\ JobsAwaited'
  BY <1>1, <1>2 DEF JobsInv, Single, JobsAwaited
<1>4. \A k \in DOMAIN jobs' : jobs'[k].lock = "holds" => jobs'[k].on # 0
  BY <1>1 DEF JobsInv
<1>5. \A k \in DOMAIN jobs' : jobs'[k].on # 0 /\ jobs'[k].of # Nobody => at'[jobs'[k].of] # "lock"
  BY <1>1 DEF JobsInv, Reloads
<1> QED
  BY <1>3, <1>4, <1>5 DEF JobsInv

-----------------------------------------------------------------------------
(* The steps of the server.                                                 *)

\* A session's finalizers begin in the order of their numbers.
BegunInOrder ==
    \A s \in Sessions : \A k \in 1 .. MaxTimers[s] : at[<<s, k>>] # "none" <=> k <= Cardinality(Begun(s))

LEMMA BegunFinite ==
    ASSUME NEW s \in Sessions
    PROVE  IsFiniteSet(Begun(s)) /\ Cardinality(Begun(s)) \in Nat
<1>1. Begun(s) \subseteq {c \in Tasks : c[1] = s}
  BY DEF Begun, Timers
<1>2. IsFiniteSet(Begun(s))
  BY <1>1, TasksFinite, FS_Subset
<1> QED
  BY <1>2, FS_CardinalityType

LEMMA OrderKeeps ==
    ASSUME TimerType, TimersBegun, RoomToBegin, IInv, BegunInOrder, Next
    PROVE  BegunInOrder'
<1>0. \A s \in Sessions : MaxTimers[s] \in Nat /\ \A k \in 1 .. MaxTimers[s] : k \in Nat /\ k # 0 /\ <<s, k>> \in Tasks
  BY TaskParts
<1>1. CASE TurnMoves
  <2>1. /\ \A d \in Tasks : at[d] = "none" <=> at'[d] = "none"
        /\ \A s \in Sessions : Begun(s)' = Begun(s)
    BY <1>1, OnlyOneGoes
  <2> QED
    BY <1>0, <2>1 DEF BegunInOrder
<1>2. ASSUME NEW s \in Sessions, Schedule(s)
      PROVE  BegunInOrder'
  <2>1. PICK k \in 1 .. MaxTimers[s] :
          /\ k = Cardinality(Begun(s)) + 1
          /\ at' = [at EXCEPT ![Handler(s)] = "read", ![<<s, k>>] = "new"]
    BY <1>2, ScheduleDoes
  <2>2. /\ <<s, k>> \in Tasks /\ <<s, k>>[1] = s /\ <<s, k>>[2] = k /\ k # 0 /\ k \in Nat
        /\ Handler(s) \in Tasks /\ Handler(s)[1] = s /\ Handler(s)[2] = 0
    BY <1>0, TaskParts
  <2>3. /\ at'[<<s, k>>] = "new" /\ at'[Handler(s)] = "read"
        /\ \A d \in Tasks : d # <<s, k>> /\ d # Handler(s) => at'[d] = at[d]
    BY <2>1, <2>2 DEF TimerType
  <2>4. ~(k <= Cardinality(Begun(s))) /\ Cardinality(Begun(s)) \in Nat /\ IsFiniteSet(Begun(s))
    BY <2>1, BegunFinite
  <2>5. at[<<s, k>>] = "none"
    BY <2>4 DEF BegunInOrder
  <2>6. \A r \in Sessions : r # s => Begun(r)' = Begun(r)
    BY <2>2, <2>3 DEF Begun, Timers
  <2>7. Begun(s)' = Begun(s) \cup {<<s, k>>} /\ <<s, k>> \notin Begun(s)
    BY <2>2, <2>3, <2>5 DEF Begun, Timers
  <2>8. Cardinality(Begun(s)') = k
    BY <2>1, <2>4, <2>7, FS_AddElement
  <2>9. ASSUME NEW r \in Sessions, r # s, NEW j \in 1 .. MaxTimers[r]
        PROVE  at'[<<r, j>>] # "none" <=> j <= Cardinality(Begun(r)')
    <3>1. <<r, j>> \in Tasks /\ <<r, j>>[1] = r
      BY <1>0, TaskParts
    <3>2. at'[<<r, j>>] = at[<<r, j>>]
      BY <2>2, <2>3, <2>9, <3>1
    <3> QED
      BY <2>6, <2>9, <3>2 DEF BegunInOrder
  <2>10. ASSUME NEW j \in 1 .. MaxTimers[s]
         PROVE  at'[<<s, j>>] # "none" <=> j <= Cardinality(Begun(s)')
    <3>1. CASE j = k
      BY <2>3, <2>8, <3>1
    <3>2. CASE j # k
      <4>1. <<s, j>> \in Tasks /\ <<s, j>>[2] = j /\ j \in Nat /\ j # 0
        BY <1>0, TaskParts
      <4>2. at'[<<s, j>>] = at[<<s, j>>]
        BY <2>2, <2>3, <3>2, <4>1
      <4>3. j <= Cardinality(Begun(s)) <=> j <= k
        BY <2>1, <2>4, <3>2, <4>1
      <4> QED
        BY <2>8, <4>2, <4>3 DEF BegunInOrder
    <3> QED
      BY <3>1, <3>2
  <2> QED
    BY <2>9, <2>10 DEF BegunInOrder
<1> QED
  BY <1>1, <1>2, StepGoes DEF Goes

LEMMA QuietStep ==
    ASSUME JobsInv, IInv, TimerType, NEW c \in Tasks, at[c] \notin Parked,
           NEW step, step \notin Parked, To(c, step) \/ at' = at,
           UNCHANGED jobs, models' # 0, cancelled \subseteq cancelled'
    PROVE  JobsInv'
<1>1. \A d \in Tasks : at'[d] = at[d] \/ (at[d] \notin Parked /\ at'[d] \notin Parked)
  BY DEF To, TimerType
<1> QED
  BY <1>1, QuietJobs

LEMMA ReturnsTo ==
    ASSUME NEW c, Returns(c)
    PROVE  \E step \in {"read", "over"} : To(c, step)
BY DEF Returns

LEMMA FinalJobs ==
    ASSUME JobsInv, IInv, TimerType, NEW c \in Tasks, at[c] \notin Parked, NEW said, Final(c, said),
           UNCHANGED <<jobs, models, cancelled>>
    PROVE  JobsInv'
<1>1. \E step \in {"emit", "read", "over"} : To(c, step)
  BY ReturnsTo DEF Final
<1>2. models' # 0
  BY DEF JobsInv
<1> QED
  BY <1>1, <1>2, QuietStep DEF Parked

LEMMA AnswersJobs ==
    ASSUME NEW c, NEW said, NEW rest, Answers(c, said, rest)
    PROVE  jobs' = rest /\ \E step \in Steps \ Parked : To(c, step)
<1>1. \E step \in {"speak", "read", "over"} : To(c, step)
  BY ReturnsTo DEF Answers
<1> QED
  BY <1>1 DEF Answers, Steps, Parked

LEMMA JobOverJobs ==
    ASSUME JobsInv, IInv, TimerType, NEW i \in DOMAIN jobs, NEW said, JobOver(i, said)
    PROVE  JobsInv'
<1> DEFINE c == jobs[i].of
           rest == RemoveAt(jobs, i)
<1>1. UNCHANGED <<models, cancelled>> /\ models' # 0
  BY DEF JobOver, TurnFrame, JobsInv, server
<1>2. jobs[i] \in Job /\ at \in [Tasks -> Steps]
  BY DEF IInv, Orderly, TimerType
<1>3. CASE ~Waited(i)
  <2>1. jobs' = rest /\ at' = at /\ (jobs[i].of = Nobody \/ jobs[i].of \in cancelled)
    BY <1>3 DEF JobOver, Waited
  <2> QED
    BY <1>1, <1>2, <2>1, OverJobs
<1>4. CASE Waited(i)
  <2>1. c \in Tasks /\ c # Nobody /\ Continues(c, said, rest)
    BY <1>2, <1>4 DEF JobOver, Waited, Job
  <2>2. CASE Answers(c, said, rest) \/ Responds(c, rest)
    <3>1. jobs' = rest /\ \E step \in Steps \ Parked : To(c, step)
      BY <2>2, AnswersJobs, ReturnsTo DEF Responds, Steps, Parked
    <3> QED
      BY <1>1, <1>2, <2>1, <3>1, OverJobs
  <2>3. CASE AsksAgain(c, rest) \/ Repairs(c, rest)
    <3>1. jobs' = Asked(c, rest) /\ \E step \in Parked : To(c, step)
      BY <2>3 DEF AsksAgain, Repairs, Parked
    <3>2. /\ rest \in Seq(Job) /\ Single(rest)
          /\ \A j \in DOMAIN rest : \E k \in DOMAIN jobs : k # i /\ rest[j] = jobs[k]
          /\ \A k \in DOMAIN jobs : k # i => \E j \in DOMAIN rest : rest[j] = jobs[k]
      BY RemovedJobs DEF JobsInv
    <3>3. \A k \in DOMAIN jobs : k # i => jobs[k].of # c
      BY <2>1 DEF JobsInv, Single
    <3> HIDE DEF rest, c
    <3>4. /\ \A j \in DOMAIN rest : rest[j].of # c /\ \E k \in DOMAIN jobs : rest[j] = jobs[k]
          /\ \A k \in DOMAIN jobs : jobs[k].of = c \/ \E j \in DOMAIN rest : rest[j] = jobs[k]
      <4>1. jobs[i].of = c
        BY DEF c
      <4> QED
        BY <3>2, <3>3, <4>1
    <3> QED
      BY <1>1, <1>2, <2>1, <3>1, <3>2, <3>4, AskedJobs
  <2> QED
    BY <2>1, <2>2, <2>3 DEF Continues
<1> QED
  BY <1>3, <1>4

\* A coroutine that was not waiting for the LLM asks it.
LEMMA BeginsToAsk ==
    ASSUME JobsInv, IInv, TimerType, NEW c \in Tasks, at[c] \notin Parked, NEW step \in Parked, To(c, step),
           jobs' = Asked(c, jobs), UNCHANGED models, cancelled \subseteq cancelled'
    PROVE  JobsInv'
<1>1. jobs \in Seq(Job) /\ Single(jobs) /\ at \in [Tasks -> Steps]
  BY DEF IInv, Orderly, JobsInv, TimerType
<1>2. \A j \in DOMAIN jobs : jobs[j].of # c
  BY NobodyIsNoTask DEF JobsInv, JobsAwaited
<1> QED
  BY <1>1, <1>2, AskedJobs

LEMMA TaskJobs ==
    ASSUME JobsInv, IInv, TimerType, TimersBegun, NEW c \in Tasks,
           TimerStarts(c) \/ TimerCancelled(c) \/ TimerFires(c) \/ FinalSent(c) \/ TimesOut(c) \/ Spoken(c)
    PROVE  JobsInv'
<1>0. models # 0
  BY DEF JobsInv
<1>1. CASE TimerStarts(c)
  BY <1>0, <1>1, QuietStep DEF TimerStarts, Runs, Parked, timers, server
<1>2. CASE TimerCancelled(c)
  <2>1. "over" \in Steps \ Parked /\ at \in [Tasks -> Steps]
    BY DEF Steps, Parked, TimerType
  <2> QED
    BY <1>2, <2>1, AbandonedJobs DEF TimerCancelled, server
<1>3. CASE TimerFires(c)
  <2>1. at[c] \notin Parked /\ UNCHANGED <<jobs, models, cancelled>>
    BY <1>3 DEF TimerFires, Runs, Parked, server
  <2>2. CASE Returns(c)
    BY <1>0, <2>1, <2>2, ReturnsTo, QuietStep DEF Parked
  <2> QED
    BY <1>3, <2>1, <2>2, FinalJobs DEF TimerFires
<1>4. CASE FinalSent(c)
  <2>1. at[c] \notin Parked /\ UNCHANGED models
    BY <1>4 DEF FinalSent, Runs, Parked, server
  <2>2. cancelled \subseteq cancelled'
    BY <1>4 DEF FinalSent, Resets
  <2>3. \/ To(c, "llm") /\ jobs' = Asked(c, jobs)
        \/ Returns(c) /\ UNCHANGED jobs
    BY <1>4 DEF FinalSent
  <2>4. CASE To(c, "llm") /\ jobs' = Asked(c, jobs)
    BY <2>1, <2>2, <2>4, BeginsToAsk DEF Parked
  <2>5. CASE Returns(c) /\ UNCHANGED jobs
    BY <1>0, <2>1, <2>2, <2>5, ReturnsTo, QuietStep DEF Parked
  <2> QED
    BY <2>3, <2>4, <2>5
<1>5. CASE TimesOut(c)
  <2>1. jobs' = Abandoned(c) /\ (\E step \in Steps \ Parked : To(c, step)) /\ UNCHANGED <<models, cancelled>>
    BY <1>5, AnswersJobs DEF TimesOut, TurnFrame, server
  <2> QED
    BY <2>1, AbandonedJobs DEF TimerType
<1>6. CASE Spoken(c)
  <2>1. at[c] \notin Parked /\ Returns(c) /\ UNCHANGED <<jobs, models>>
    BY <1>6 DEF Spoken, Parked, server
  <2>2. cancelled \subseteq cancelled'
    BY <1>6 DEF Spoken, Resets
  <2> QED
    BY <1>0, <2>1, <2>2, ReturnsTo, QuietStep DEF Parked
<1> QED
  BY <1>1, <1>2, <1>3, <1>4, <1>5, <1>6

LEMMA SessionJobs ==
    ASSUME JobsInv, IInv, TimerType, RoomToBegin, BegunInOrder, models \in Nat, NEW s \in Sessions,
           \/ AudioFed(s) \/ ModelsLoaded(s) \/ SessionEnds(s)
           \/ Client(s) \/ SuppressionEnds(s) \/ Warmed(s)
    PROVE  JobsInv'
<1>0. Handler(s) \in Tasks /\ Handler(s)[1] = s /\ Handler(s)[2] = 0 /\ models # 0
  BY TaskParts DEF JobsInv
<1>1. CASE AudioFed(s)
  <2>1. at[Handler(s)] = "feed" /\ UNCHANGED <<jobs, models, owed>>
    BY <1>1 DEF AudioFed, VoskFed, StreamFed, SegmentFed, Fed, server
  <2>2. at[Handler(s)] \notin Parked
    BY <2>1 DEF Parked
  <2>3. CASE Heard(s)
    BY <1>0, <2>1, <2>2, <2>3, FinalJobs DEF Heard
  <2>4. CASE HeardPart(s)
    <3>1. Schedule(s)
      BY <2>1, <2>4 DEF HeardPart, Schedule
    <3>2. PICK k \in 1 .. MaxTimers[s] :
            /\ k = Cardinality(Begun(s)) + 1
            /\ at' = [at EXCEPT ![Handler(s)] = "read", ![<<s, k>>] = "new"]
            /\ cancelled' = cancelled \cup IdleCancelled(s, Handler(s))
      BY <3>1, ScheduleDoes
    <3>3. <<s, k>> \in Tasks /\ ~(k <= Cardinality(Begun(s)))
      BY <3>2, BegunFinite, TaskParts
    <3>4. at[<<s, k>>] = "none"
      BY <3>3 DEF BegunInOrder
    <3>5. \A d \in Tasks : at'[d] = at[d] \/ (at[d] \notin Parked /\ at'[d] \notin Parked)
      BY <1>0, <2>1, <3>2, <3>3, <3>4 DEF TimerType, Parked
    <3> QED
      BY <2>1, <3>2, <3>5, QuietJobs
  <2>5. CASE HeardNothing(s)
    BY <1>0, <2>1, <2>2, <2>5, ReturnsTo, QuietStep DEF HeardNothing, Parked
  <2> QED
    BY <1>1, <2>3, <2>4, <2>5 DEF AudioFed, VoskFed, StreamFed, SegmentFed
<1>2. CASE ModelsLoaded(s) \/ Warmed(s)
  <2>1. /\ at[Handler(s)] \in {"load", "warm"} /\ \E step \in {"warm", "read"} : To(Handler(s), step)
        /\ UNCHANGED <<jobs, cancelled>>
    BY <1>2 DEF ModelsLoaded, Warmed, timers
  <2>2. models' # 0
    BY <1>0, <1>2 DEF ModelsLoaded, Warmed, Loads
  <2> QED
    BY <1>0, <2>1, <2>2, QuietStep DEF Parked
<1>3. CASE SessionEnds(s)
  <2>1. /\ at[Handler(s)] = "read" /\ To(Handler(s), "over") /\ UNCHANGED <<jobs, models>>
        /\ cancelled \subseteq cancelled'
    BY <1>3 DEF SessionEnds, Resets, server
  <2> QED
    BY <1>0, <2>1, QuietStep DEF Parked
<1>4. CASE SuppressionEnds(s) \/ BargeIn(s) \/ ClientLeaves(s)
  <2>1. UNCHANGED <<at, jobs, models, cancelled>>
    BY <1>4 DEF SuppressionEnds, BargeIn, ClientLeaves, timers, server
  <2> QED
    BY <2>1, QuietJobs
<1>5. CASE AudioArrives(s)
  <2>1. /\ at[Handler(s)] = "read" /\ (at' = at \/ To(Handler(s), "feed")) /\ UNCHANGED <<jobs, models>>
        /\ cancelled \subseteq cancelled'
    BY <1>5 DEF AudioArrives, Arrives, Resets, timers, server
  <2> QED
    BY <1>0, <2>1, QuietStep DEF Parked
<1>6. ASSUME NEW message, NEW step, NEW queue, Begins(s, message, step, queue)
      PROVE  /\ at[Handler(s)] = "read" /\ To(Handler(s), step) /\ jobs' = queue
             /\ UNCHANGED <<models, cancelled>>
  BY <1>6 DEF Begins, Arrives, timers
<1>7. ASSUME NEW message, NEW step \in Parked, Begins(s, message, step, Asked(Handler(s), jobs))
      PROVE  JobsInv'
  BY <1>0, <1>6, <1>7, BeginsToAsk DEF Parked
<1>8. ASSUME NEW message, NEW step \in {"say", "read", "load"}, Begins(s, message, step, jobs)
      PROVE  JobsInv'
  BY <1>0, <1>6, <1>8, QuietStep DEF Parked
<1>9. CASE Requested(s) \/ ReloadAsked(s)
  BY <1>7, <1>8, <1>9 DEF Requested, ReloadAsked, Parked
<1> QED
  BY <1>1, <1>2, <1>3, <1>4, <1>5, <1>9 DEF Client

LEMMA LockJobs ==
    ASSUME JobsInv, IInv, TimerType, models \in Nat, Lock \/ Threads
    PROVE  JobsInv' \/ \E s \in Sessions : Warmed(s)
<1>1. ASSUME NEW i \in DOMAIN jobs, JobBegins(i)
      PROVE  JobsInv'
  <2>1. CASE loaded
    BY <1>1, <2>1, ServedJobs DEF JobBegins, TurnFrame, server
  <2>2. CASE ~loaded
    BY <1>1, <2>2, JobOverJobs DEF JobBegins
  <2> QED
    BY <2>1, <2>2
<1>2. ASSUME NEW i \in DOMAIN jobs, LlmReloaded(i)
      PROVE  JobsInv'
  <2>1. jobs' = RemoveAt(jobs, i) /\ To(jobs[i].of, "read") /\ jobs[i].of # Nobody /\ UNCHANGED cancelled
    BY <1>2 DEF LlmReloaded, Reloads, timers
  <2>2. models' # 0
    BY <1>2 DEF LlmReloaded, Loads, JobsInv
  <2>3. "read" \in Steps \ Parked /\ at \in [Tasks -> Steps]
    BY DEF Steps, Parked, TimerType
  <2> QED
    BY <2>1, <2>2, <2>3, OverJobs
<1>3. ASSUME NEW i \in DOMAIN jobs, ThreadEnds(i)
      PROVE  JobsInv'
  BY <1>3, JobOverJobs DEF ThreadEnds
<1> QED
  BY <1>1, <1>2, <1>3 DEF Lock, Threads

LEMMA JobsKeep ==
    ASSUME TypesInv, BegunInOrder, JobsInv, [Next]_vars
    PROVE  BegunInOrder' /\ JobsInv'
<1>1. IInv /\ TimerType /\ TimersBegun /\ RoomToBegin /\ models \in Nat
  BY DEF TypesInv, LlmType
<1>2. CASE UNCHANGED vars
  <2>1. UNCHANGED <<at, jobs, models, cancelled>>
    BY <1>2 DEF vars, timers, server
  <2>2. JobsInv'
    BY <1>1, <2>1, QuietJobs
  <2> QED
    BY <2>1, <2>2 DEF BegunInOrder, Begun, Timers
<1>3. CASE Next
  <2>1. BegunInOrder'
    BY <1>1, <1>3, OrderKeeps
  <2>2. ASSUME NEW c \in Tasks, Task(c)
        PROVE  JobsInv'
    BY <1>1, <2>2, TaskJobs, SessionJobs, TaskParts DEF Task, Session
  <2>3. JobsInv'
    BY <1>1, <1>3, <2>2, SessionJobs, LockJobs DEF Next
  <2> QED
    BY <2>1, <2>3
<1> QED
  BY <1>2, <1>3

\* For any sessions, messages, time-outs and reloads nobody waits for the LLM in vain:
\* who waits has a job in the queue, whose result it takes, and the queue never stands
\* still but for a thread that is running.
THEOREM NobodyWaitsInVain == Spec => [](JobsAwaited /\ LockMoves)
<1> DEFINE Inv == TypesInv /\ BegunInOrder /\ JobsInv
<1>1. Init => Inv
  <2> SUFFICES ASSUME Init
               PROVE  BegunInOrder /\ JobsInv
    BY TypesStart
  <2>1. /\ jobs = <<>> /\ models = 1
        /\ at = [c \in Tasks |-> IF c[2] = 0 THEN "read" ELSE "none"]
    BY DEF Init
  <2>2. \A s \in Sessions : Begun(s) = {}
    BY <2>1 DEF Begun, Timers
  <2>3. \A s \in Sessions : Cardinality(Begun(s)) = 0
    BY <2>2, FS_EmptySet
  <2>4. ASSUME NEW s \in Sessions, NEW k \in 1 .. MaxTimers[s]
        PROVE  at[<<s, k>>] = "none" /\ ~(k <= 0)
    <3>1. MaxTimers[s] \in Nat
      BY TaskParts
    <3>2. k \in 0 .. MaxTimers[s] /\ k # 0 /\ ~(k <= 0)
      BY <3>1
    <3>3. <<s, k>> \in Tasks /\ <<s, k>>[2] # 0
      BY <3>2, TaskParts
    <3> QED
      BY <2>1, <3>2, <3>3
  <2>5. BegunInOrder
    BY <2>3, <2>4 DEF BegunInOrder
  <2>6. JobsInv
    BY <2>1 DEF JobsInv, JobsAwaited, Single, Parked
  <2> QED
    BY <2>5, <2>6
<1>2. Inv /\ [Next]_vars => Inv'
  BY TypesStep, JobsKeep
<1>3. Inv => JobsAwaited /\ LockMoves
  <2> SUFFICES ASSUME Inv, jobs # <<>>, \A i \in DOMAIN jobs : jobs[i].on = 0
               PROVE  Served(1)
    BY DEF LockMoves, JobsInv
  <2>1. jobs \in Seq(Job)
    BY DEF TypesInv, IInv, Orderly
  <2>2. 1 \in DOMAIN jobs /\ \A j \in DOMAIN jobs : ~(j < 1) /\ jobs[j] \in Job
    BY <2>1
  <2>3. \A j \in DOMAIN jobs : jobs[j].lock = "waits"
    BY <2>2 DEF JobsInv, Job
  <2> QED
    BY <2>2, <2>3 DEF Served
<1> HIDE DEF Inv
<1> QED
  BY <1>1, <1>2, <1>3, PTL DEF Spec

-----------------------------------------------------------------------------
(* The pipeline's dialog: the inductive invariant.                          *)

TurnRecord ==
    [by : {"worker", "flush"}, text : Seq(Nat), tool : Tools \cup {"none"},
     step : {"llm", "retry", "speak", "tool", "farewell", "followup", "done"}]

\* What is pending or answered has been heard.
DialogTypes ==
    /\ streaming \in BOOLEAN /\ runner \in {"new", "greeting", "run", "over"} /\ receiving \in BOOLEAN
    /\ kinds \in Seq(PD!Kinds) /\ pending \in Seq(Nat) /\ turns \in Seq(TurnRecord)
    /\ worker \in {"none", "get", "turn", "last", "over"} /\ flush \in BOOLEAN /\ raced \in BOOLEAN
    /\ lost \subseteq PD!Heard
    /\ ToSet(pending) \subseteq PD!Heard
    /\ \A k \in DOMAIN turns : ToSet(turns[k].text) \subseteq PD!Heard

\* A queue of transcripts among the first n, each at most once; and its end marker.
Distinct(q, n) ==
    /\ q \in Seq(Nat) /\ \A i \in 1 .. Len(q) : q[i] <= n
    /\ \A i, j \in 1 .. Len(q) : q[i] = q[j] /\ q[i] # 0 => i = j

\* A transcript that nobody has taken.
Untaken(t) == t \notin ToSet(pending) /\ \A k \in DOMAIN turns : t \notin ToSet(turns[k].text)

\* The queue holds what nobody has taken yet, and its end marker only when the
\* recogniser has ended.
QueuedOnce ==
    /\ Distinct(tq, Len(kinds)) /\ Len(tq) <= QueueCap
    /\ \A i \in 1 .. Len(tq) : tq[i] # 0 => Untaken(tq[i])
    /\ receiving \/ runner \in {"new", "greeting"} => \A i \in 1 .. Len(tq) : tq[i] # 0

\* Nothing happens before the runner has its worker.
BeforeWorker ==
    /\ runner \in {"new", "greeting"} => worker = "none" /\ ~receiving
    /\ worker = "none" => turns = <<>> /\ pending = <<>>
    /\ flush => worker = "get"

\* One turn at a time, and the timer does not run beside it; between turns what is
\* pending has not been answered.
OneTurn ==
    /\ \A j, k \in DOMAIN turns : PD!Going(j) /\ PD!Going(k) => j = k
    /\ \A k \in DOMAIN turns : PD!Going(k) =>
         /\ ~flush
         /\ turns[k].by = "worker" => worker \in {"turn", "last"}
    /\ worker = "get" /\ (\A k \in DOMAIN turns : ~PD!Going(k)) =>
         \A k \in DOMAIN turns : ToSet(pending) \cap ToSet(turns[k].text) = {}

NoTwoTurns ==
    \A j, k \in DOMAIN turns : j # k => ToSet(turns[j].text) \cap ToSet(turns[k].text) = {}

DialogInv == DialogTypes /\ QueuedOnce /\ BeforeWorker /\ (~raced => OneTurn /\ NoTwoTurns)

LEMMA DialogStart == PD!Init => DialogInv
<1> SUFFICES ASSUME PD!Init
             PROVE  DialogInv
  OBVIOUS
<1> USE DialogGiven DEF PD!Init, PD!DialogAssumption
<1>1. DialogTypes
  <2>1. ToSet(<<>>) = {}
    BY DEF ToSet
  <2>2. kinds \in Seq(PD!Kinds) /\ pending \in Seq(Nat) /\ turns \in Seq(TurnRecord) /\ DOMAIN turns = {}
    OBVIOUS
  <2> QED
    BY <2>1, <2>2 DEF DialogTypes
<1>2. QueuedOnce
  BY DEF QueuedOnce, Distinct
<1>3. BeforeWorker /\ OneTurn /\ NoTwoTurns
  BY DEF BeforeWorker, OneTurn, NoTwoTurns
<1> QED
  BY <1>1, <1>2, <1>3 DEF DialogInv

-----------------------------------------------------------------------------
(* Queues.                                                                  *)

LEMMA HeadOfQueue ==
    ASSUME NEW n \in Nat, NEW q, Distinct(q, n), q # <<>>
    PROVE  /\ Head(q) = q[1] /\ Head(q) \in Nat /\ Head(q) <= n /\ Len(q) \in Nat \ {0}
           /\ Distinct(Tail(q), n) /\ Len(Tail(q)) = Len(q) - 1
           /\ \A i \in 1 .. Len(Tail(q)) :
                i + 1 \in 1 .. Len(q) /\ Tail(q)[i] = q[i + 1] /\ (Head(q) # 0 => Tail(q)[i] # Head(q))
<1> USE DEF Distinct
<1>1. /\ Len(q) \in Nat \ {0} /\ Head(q) = q[1] /\ Tail(q) \in Seq(Nat) /\ Len(Tail(q)) = Len(q) - 1
      /\ \A i \in 1 .. Len(Tail(q)) : Tail(q)[i] = q[i + 1]
  OBVIOUS
<1>2. \A i \in 1 .. Len(Tail(q)) : i + 1 \in 1 .. Len(q) /\ i + 1 # 1
  BY <1>1
<1>3. 1 \in 1 .. Len(q)
  BY <1>1
<1>4. Distinct(Tail(q), n)
  BY <1>1, <1>2
<1> QED
  BY <1>1, <1>2, <1>3, <1>4

\* What is appended is new to the queue, or its end marker.
LEMMA EndOfQueue ==
    ASSUME NEW n \in Nat, NEW m \in Nat, n <= m, NEW q, Distinct(q, n), NEW t \in 0 .. m, t > n \/ t = 0
    PROVE  /\ Distinct(Append(q, t), m) /\ Len(Append(q, t)) = Len(q) + 1 /\ Len(q) \in Nat
           /\ \A i \in 1 .. Len(q) : Append(q, t)[i] = q[i]
           /\ Append(q, t)[Len(q) + 1] = t
<1> USE DEF Distinct
<1>1. /\ Append(q, t) \in Seq(Nat) /\ Len(Append(q, t)) = Len(q) + 1 /\ Len(q) \in Nat
      /\ \A i \in 1 .. Len(q) : Append(q, t)[i] = q[i]
      /\ Append(q, t)[Len(q) + 1] = t
  OBVIOUS
<1>2. \A i \in 1 .. Len(q) : q[i] \in Nat /\ (q[i] # t \/ t = 0)
  OBVIOUS
<1>3. \A i \in 1 .. Len(Append(q, t)) : i \in 1 .. Len(q) \/ i = Len(q) + 1
  BY <1>1
<1>4. \A i \in 1 .. Len(Append(q, t)) : Append(q, t)[i] <= m
  BY <1>1, <1>3
<1>5. ASSUME NEW i \in 1 .. Len(Append(q, t)), NEW j \in 1 .. Len(Append(q, t)),
             Append(q, t)[i] = Append(q, t)[j], Append(q, t)[i] # 0
      PROVE  i = j
  BY <1>1, <1>2, <1>3, <1>5
<1> QED
  BY <1>1, <1>4, <1>5

-----------------------------------------------------------------------------
(* Transcripts.                                                             *)

\* A transcript is heard, and queued or lost.
LEMMA HeardKeeps ==
    ASSUME DialogInv, NEW kind \in PD!Kinds, kinds' = Append(kinds, kind),
           NEW q, Distinct(q, Len(kinds)), Len(q) <= Len(tq),
           \A i \in 1 .. Len(q) : \E j \in 1 .. Len(tq) : q[i] = tq[j],
           \/ tq' = q
           \/ Len(q) < QueueCap /\ tq' = Append(q, Len(kinds')),
           lost' \subseteq lost \cup PD!Heard',
           UNCHANGED <<streaming, runner, receiving, worker, pending, flush, turns, raced>>
    PROVE  DialogInv'
<1> USE DEF DialogInv
<1>1. /\ Len(kinds') = Len(kinds) + 1 /\ kinds' \in Seq(PD!Kinds) /\ Len(kinds) \in Nat
      /\ PD!Heard' = PD!Heard \cup {Len(kinds')} /\ Len(kinds') \notin PD!Heard
  BY DEF DialogTypes, PD!Heard
<1>2. DialogTypes'
  BY <1>1 DEF DialogTypes
<1>3. Len(tq) \in Nat /\ Len(q) \in Nat /\ QueueCap \in Nat
  BY DialogGiven DEF QueuedOnce, Distinct, PD!DialogAssumption
<1>4. \A t : Untaken(t)' <=> Untaken(t)
  BY DEF Untaken
<1>5. Untaken(Len(kinds'))
  BY <1>1 DEF DialogTypes, Untaken
<1>6. \A i \in 1 .. Len(q) : /\ q[i] # 0 => Untaken(q[i])
                             /\ receiving \/ runner \in {"new", "greeting"} => q[i] # 0
  BY DEF QueuedOnce
<1>7. QueuedOnce'
  <2>1. CASE tq' = q
    <3>1. Distinct(q, Len(kinds'))
      BY <1>1 DEF Distinct
    <3> QED
      BY <1>3, <1>4, <1>6, <2>1, <3>1 DEF QueuedOnce
  <2>2. CASE Len(q) < QueueCap /\ tq' = Append(q, Len(kinds'))
    <3>1. /\ Distinct(tq', Len(kinds')) /\ Len(tq') = Len(q) + 1
          /\ \A i \in 1 .. Len(q) : tq'[i] = q[i]
          /\ tq'[Len(q) + 1] = Len(kinds')
      BY <1>1, <2>2, EndOfQueue
    <3>2. \A i \in 1 .. Len(tq') : i \in 1 .. Len(q) \/ i = Len(q) + 1
      BY <1>3, <3>1
    <3> QED
      BY <1>1, <1>3, <1>4, <1>5, <1>6, <2>2, <3>1, <3>2 DEF QueuedOnce
  <2> QED
    BY <2>1, <2>2
<1>8. BeforeWorker' /\ (~raced' => OneTurn' /\ NoTwoTurns')
  BY DEF BeforeWorker, OneTurn, NoTwoTurns, PD!Going
<1> QED
  BY <1>2, <1>7, <1>8

LEMMA TranscriptKeeps ==
    ASSUME DialogInv, NEW kind \in PD!Kinds, PD!TranscriptArrives(kind) \/ PD!EarlyFlush(kind)
    PROVE  DialogInv'
<1> USE DEF DialogInv
<1>1. /\ kinds' = Append(kinds, kind)
      /\ UNCHANGED <<streaming, runner, receiving, worker, pending, flush, turns, raced>>
  BY DEF PD!TranscriptArrives, PD!EarlyFlush, PD!dialog
<1>2. /\ Len(kinds) \in Nat /\ Len(kinds') = Len(kinds) + 1
      /\ Len(kinds') \in PD!Heard' /\ PD!Heard \subseteq PD!Heard'
  BY <1>1 DEF DialogTypes, PD!Heard
<1>3. Distinct(tq, Len(kinds)) /\ Len(tq) \in Nat
  BY DEF QueuedOnce, Distinct
<1>4. CASE PD!EarlyFlush(kind) \/ Len(tq) < QueueCap
  <2>1. /\ tq' = tq \/ (Len(tq) < QueueCap /\ tq' = Append(tq, Len(kinds')))
        /\ lost' = lost \/ lost' = lost \cup {Len(kinds')}
    BY <1>4 DEF PD!EarlyFlush, PD!TranscriptArrives, PD!Enqueued
  <2> QED
    BY <1>1, <1>2, <1>3, <2>1, HeardKeeps
<1>5. CASE PD!TranscriptArrives(kind) /\ ~(Len(tq) < QueueCap)
  <2>1. receiving /\ tq' = Append(Tail(tq), Len(kinds')) /\ lost' = lost \cup {Head(tq)}
    BY <1>5 DEF PD!TranscriptArrives, PD!Enqueued
  <2>2. tq # <<>> /\ QueueCap \in Nat \ {0}
    BY <1>3, <1>5, DialogGiven DEF PD!DialogAssumption
  <2>3. /\ Head(tq) = tq[1] /\ Head(tq) \in Nat /\ Head(tq) <= Len(kinds) /\ Len(tq) \in Nat \ {0}
        /\ Distinct(Tail(tq), Len(kinds)) /\ Len(Tail(tq)) = Len(tq) - 1
        /\ \A i \in 1 .. Len(Tail(tq)) : i + 1 \in 1 .. Len(tq) /\ Tail(tq)[i] = tq[i + 1]
    BY <1>2, <1>3, <2>2, HeadOfQueue
  <2>4. Head(tq) # 0
    BY <2>1, <2>3 DEF QueuedOnce
  <2>5. lost' \subseteq lost \cup PD!Heard'
    BY <1>2, <2>1, <2>3, <2>4 DEF PD!Heard
  <2>6. Len(Tail(tq)) < QueueCap
    BY <2>2, <2>3 DEF QueuedOnce
  <2>7. Len(Tail(tq)) <= Len(tq) /\ \A i \in 1 .. Len(Tail(tq)) : \E j \in 1 .. Len(tq) : Tail(tq)[i] = tq[j]
    BY <2>3
  <2> QED
    BY <1>1, <2>1, <2>3, <2>5, <2>6, <2>7, HeardKeeps
<1> QED
  BY <1>4, <1>5

\* The recogniser ends: the marker is queued if there is room.
LEMMA SttLostKeeps ==
    ASSUME DialogInv, PD!SttLost
    PROVE  DialogInv'
<1> USE DEF DialogInv
<1>1. /\ receiving /\ receiving' = FALSE /\ tq' = IF Len(tq) < QueueCap THEN Append(tq, 0) ELSE tq
      /\ UNCHANGED <<streaming, runner, kinds, lost, worker, pending, flush, turns, raced>>
  BY DEF PD!SttLost, PD!None, PD!dialog
<1>2. DialogTypes'
  BY <1>1 DEF DialogTypes, PD!Heard
<1>3. runner \notin {"new", "greeting"}
  BY <1>1 DEF BeforeWorker
<1>4. /\ Distinct(tq', Len(kinds)) /\ Len(tq') <= QueueCap
      /\ \A i \in 1 .. Len(tq') : tq'[i] = 0 \/ (i \in 1 .. Len(tq) /\ tq'[i] = tq[i])
  <2>1. CASE Len(tq) < QueueCap
    <3>1. Len(kinds) \in Nat /\ 0 \in 0 .. Len(kinds) /\ Distinct(tq, Len(kinds)) /\ QueueCap \in Nat
      BY DialogGiven DEF DialogTypes, QueuedOnce, PD!DialogAssumption
    <3>2. /\ Distinct(tq', Len(kinds)) /\ Len(tq') = Len(tq) + 1 /\ Len(tq) \in Nat
          /\ \A i \in 1 .. Len(tq) : tq'[i] = tq[i]
          /\ tq'[Len(tq) + 1] = 0
      BY <1>1, <2>1, <3>1, EndOfQueue
    <3>3. \A i \in 1 .. Len(tq') : i \in 1 .. Len(tq) \/ i = Len(tq) + 1
      BY <3>2
    <3> QED
      BY <2>1, <3>1, <3>2, <3>3
  <2>2. CASE ~(Len(tq) < QueueCap)
    BY <1>1, <2>2 DEF QueuedOnce
  <2> QED
    BY <2>1, <2>2
<1>5. QueuedOnce'
  BY <1>1, <1>3, <1>4 DEF QueuedOnce, Untaken
<1>6. BeforeWorker' /\ (~raced' => OneTurn' /\ NoTwoTurns')
  BY <1>1 DEF BeforeWorker, OneTurn, NoTwoTurns, PD!Going
<1> QED
  BY <1>2, <1>5, <1>6

-----------------------------------------------------------------------------
(* The worker, the timer and the turns they begin.                          *)

LEMMA WithOneMore ==
    ASSUME NEW s \in Seq(Nat), NEW e \in Nat
    PROVE  Append(s, e) \in Seq(Nat) /\ ToSet(Append(s, e)) = ToSet(s) \cup {e}
<1>1. /\ Append(s, e) \in Seq(Nat) /\ DOMAIN Append(s, e) = DOMAIN s \cup {Len(s) + 1}
      /\ \A i \in DOMAIN s : Append(s, e)[i] = s[i]
      /\ Append(s, e)[Len(s) + 1] = e
  OBVIOUS
<1> QED
  BY <1>1 DEF ToSet

\* A new turn is the last one, and its transcripts are what was pending.
LEMMA BegunTurn ==
    ASSUME DialogTypes, NEW by \in {"worker", "flush"}, NEW said \in Seq(Nat), PD!Begun(by, said)
    PROVE  /\ turns' \in Seq(TurnRecord) /\ Len(turns) + 1 \notin DOMAIN turns
           /\ DOMAIN turns' = DOMAIN turns \cup {Len(turns) + 1}
           /\ \A k \in DOMAIN turns : turns'[k] = turns[k]
           /\ turns'[Len(turns) + 1] = PD!Turn(by, said)
<1>1. PD!Turn(by, said) \in TurnRecord
  BY DEF PD!Turn, TurnRecord
<1>2. turns \in Seq(TurnRecord)
  BY DEF DialogTypes
<1> QED
  BY <1>1, <1>2 DEF PD!Begun

\* It finds no other turn going, and answers what no other turn has answered.
LEMMA BegunAlone ==
    ASSUME DialogTypes, NEW by \in {"worker", "flush"}, NEW said \in Seq(Nat), PD!Begun(by, said),
           NoTwoTurns, \A k \in DOMAIN turns : ~PD!Going(k),
           \A k \in DOMAIN turns : ToSet(said) \cap ToSet(turns[k].text) = {},
           ~flush', by = "worker" => worker' \in {"turn", "last"}
    PROVE  OneTurn' /\ NoTwoTurns'
<1> DEFINE n == Len(turns) + 1
<1>1. /\ n \notin DOMAIN turns /\ DOMAIN turns' = DOMAIN turns \cup {n}
      /\ \A k \in DOMAIN turns : turns'[k] = turns[k]
      /\ turns'[n] = PD!Turn(by, said)
  BY BegunTurn
<1>2. turns'[n].by = by /\ turns'[n].text = said /\ turns'[n].step = "llm"
  BY <1>1 DEF PD!Turn
<1> HIDE DEF n
<1>3. \A k \in DOMAIN turns' : PD!Going(k)' <=> k = n
  BY <1>1, <1>2 DEF PD!Going
<1>4. OneTurn'
  BY <1>1, <1>2, <1>3 DEF OneTurn
<1>5. NoTwoTurns'
  BY <1>1, <1>2 DEF NoTwoTurns
<1> QED
  BY <1>4, <1>5

\* What the worker has taken is the queue's no more; unless a flush task's turn is
\* running it takes it between turns.
LEMMA TookOne ==
    ASSUME DialogInv, worker = "get", tq # <<>>, PD!Took, UNCHANGED <<kinds, receiving, runner>>
    PROVE  /\ Distinct(tq', Len(kinds)') /\ Len(tq') <= QueueCap
           /\ Head(tq) \in Nat /\ Head(tq) <= Len(kinds) /\ (Head(tq) # 0 => Untaken(Head(tq)))
           /\ \A i \in 1 .. Len(tq') :
                /\ tq'[i] # 0 => Untaken(tq'[i])
                /\ tq'[i] = 0 \/ tq'[i] # Head(tq)
                /\ receiving' \/ runner' \in {"new", "greeting"} => tq'[i] # 0
           /\ ~raced' => ~raced /\ \A k \in DOMAIN turns : ~PD!Going(k)
           /\ raced' \in BOOLEAN
<1> USE DEF DialogInv
<1>1. Len(kinds) \in Nat /\ Distinct(tq, Len(kinds)) /\ QueueCap \in Nat /\ tq' = Tail(tq)
  BY DialogGiven DEF DialogTypes, QueuedOnce, PD!DialogAssumption, PD!Took
<1>2. /\ Head(tq) = tq[1] /\ Head(tq) \in Nat /\ Head(tq) <= Len(kinds) /\ Len(tq) \in Nat \ {0}
      /\ Distinct(Tail(tq), Len(kinds)) /\ Len(Tail(tq)) = Len(tq) - 1
      /\ \A i \in 1 .. Len(Tail(tq)) :
           i + 1 \in 1 .. Len(tq) /\ Tail(tq)[i] = tq[i + 1] /\ (Head(tq) # 0 => Tail(tq)[i] # Head(tq))
  BY <1>1, HeadOfQueue
<1>3. ~raced' => ~raced /\ \A k \in DOMAIN turns : ~PD!Going(k)
  <2>1. \A k \in DOMAIN turns : turns[k].by \in {"worker", "flush"}
    <3>1. \A k \in DOMAIN turns : turns[k] \in TurnRecord
      BY DEF DialogTypes
    <3> QED
      BY <3>1 DEF TurnRecord
  <2> QED
    BY <2>1 DEF PD!Took, PD!FlushTurnRuns, OneTurn
<1>4. raced' \in BOOLEAN
  BY DEF DialogTypes, PD!Took, PD!FlushTurnRuns
<1>5. Head(tq) # 0 => Untaken(Head(tq))
  BY <1>2 DEF QueuedOnce
<1>6. \A i \in 1 .. Len(tq') :
        /\ tq'[i] # 0 => Untaken(tq'[i])
        /\ tq'[i] = 0 \/ tq'[i] # Head(tq)
        /\ receiving' \/ runner' \in {"new", "greeting"} => tq'[i] # 0
  BY <1>1, <1>2 DEF QueuedOnce
<1> QED
  BY <1>1, <1>2, <1>3, <1>4, <1>5, <1>6 DEF QueuedOnce

LEMMA WorkerHearsKeeps ==
    ASSUME DialogInv, PD!WorkerHears
    PROVE  DialogInv'
<1> DEFINE t == Head(tq)
<1>1. /\ worker = "get" /\ tq # <<>> /\ t # 0 /\ PD!Took /\ pending' = Append(pending, t)
      /\ UNCHANGED <<streaming, runner, receiving, kinds, lost>>
  BY DEF PD!WorkerHears, PD!None
<1>2. /\ Distinct(tq', Len(kinds)') /\ Len(tq') <= QueueCap /\ t \in Nat /\ t <= Len(kinds) /\ Untaken(t)
      /\ \A i \in 1 .. Len(tq') : /\ tq'[i] # 0 => Untaken(tq'[i])
                                  /\ tq'[i] = 0 \/ tq'[i] # t
                                  /\ receiving' \/ runner' \in {"new", "greeting"} => tq'[i] # 0
      /\ ~raced' => ~raced /\ \A k \in DOMAIN turns : ~PD!Going(k)
      /\ raced' \in BOOLEAN
  BY <1>1, TookOne
<1>3. pending' \in Seq(Nat) /\ ToSet(pending') = ToSet(pending) \cup {t}
  BY <1>1, <1>2, WithOneMore DEF DialogInv, DialogTypes
<1>4. t \in PD!Heard /\ PD!Heard' = PD!Heard
  BY <1>1, <1>2 DEF PD!Heard, DialogInv, DialogTypes
<1> HIDE DEF t
<1>5. ~raced' => \A k \in DOMAIN turns : ToSet(pending') \cap ToSet(turns[k].text) = {}
  BY <1>1, <1>2, <1>3 DEF DialogInv, OneTurn, Untaken
<1>6. CASE PD!Accumulates(pending') /\ UNCHANGED worker
  <2>1. UNCHANGED <<worker, turns>> /\ flush' = TRUE
    BY <1>6 DEF PD!Accumulates
  <2>2. DialogTypes'
    BY <1>1, <1>2, <1>3, <1>4, <2>1 DEF DialogInv, DialogTypes
  <2>3. QueuedOnce'
    BY <1>1, <1>2, <1>3, <2>1 DEF DialogInv, QueuedOnce, Untaken
  <2>4. BeforeWorker'
    BY <1>1, <2>1 DEF DialogInv, BeforeWorker
  <2>5. ~raced' => OneTurn' /\ NoTwoTurns'
    BY <1>1, <1>2, <1>5, <2>1 DEF DialogInv, OneTurn, NoTwoTurns, PD!Going
  <2> QED
    BY <2>2, <2>3, <2>4, <2>5 DEF DialogInv
<1>7. CASE flush' = FALSE /\ PD!Begun("worker", pending') /\ worker' = "turn"
  <2> DEFINE n == Len(turns) + 1
  <2>1. /\ turns' \in Seq(TurnRecord) /\ n \notin DOMAIN turns
        /\ DOMAIN turns' = DOMAIN turns \cup {n}
        /\ \A k \in DOMAIN turns : turns'[k] = turns[k]
        /\ turns'[n] = PD!Turn("worker", pending')
    BY <1>3, <1>7, BegunTurn DEF DialogInv
  <2>2. turns'[n].text = pending'
    BY <2>1 DEF PD!Turn
  <2> HIDE DEF n
  <2>3. \A k \in DOMAIN turns' : ToSet(turns'[k].text) \subseteq PD!Heard'
    BY <1>3, <1>4, <2>1, <2>2 DEF DialogInv, DialogTypes
  <2>4. DialogTypes'
    BY <1>1, <1>2, <1>3, <1>4, <1>7, <2>1, <2>3 DEF DialogInv, DialogTypes
  <2>5. \A i \in 1 .. Len(tq') : tq'[i] # 0 =>
          /\ tq'[i] \notin ToSet(pending')
          /\ \A k \in DOMAIN turns' : tq'[i] \notin ToSet(turns'[k].text)
    BY <1>2, <1>3, <2>1, <2>2 DEF Untaken
  <2>6. QueuedOnce'
    BY <1>1, <1>2, <2>5 DEF QueuedOnce, Untaken
  <2>7. BeforeWorker'
    BY <1>1, <1>7 DEF DialogInv, BeforeWorker
  <2>8. ~raced' => OneTurn' /\ NoTwoTurns'
    BY <1>2, <1>3, <1>5, <1>7, BegunAlone DEF DialogInv
  <2> QED
    BY <2>4, <2>6, <2>7, <2>8 DEF DialogInv
<1> QED
  BY <1>6, <1>7 DEF PD!WorkerHears

LEMMA WorkerHearsBlankKeeps ==
    ASSUME DialogInv, PD!WorkerHearsBlank
    PROVE  DialogInv'
<1>1. /\ worker = "get" /\ tq # <<>> /\ PD!Took /\ flush' = (flush \/ pending # <<>>)
      /\ UNCHANGED <<streaming, runner, receiving, kinds, lost, worker, pending, turns>>
  BY DEF PD!WorkerHearsBlank
<1>2. /\ Distinct(tq', Len(kinds)') /\ Len(tq') <= QueueCap
      /\ \A i \in 1 .. Len(tq') : /\ tq'[i] # 0 => Untaken(tq'[i])
                                  /\ receiving' \/ runner' \in {"new", "greeting"} => tq'[i] # 0
      /\ ~raced' => ~raced /\ \A k \in DOMAIN turns : ~PD!Going(k)
      /\ raced' \in BOOLEAN
  BY <1>1, TookOne
<1>3. DialogTypes'
  BY <1>1, <1>2 DEF DialogInv, DialogTypes, PD!Heard
<1>4. QueuedOnce'
  BY <1>1, <1>2 DEF QueuedOnce, Untaken
<1>5. BeforeWorker'
  BY <1>1 DEF DialogInv, BeforeWorker
<1>6. ~raced' => OneTurn' /\ NoTwoTurns'
  BY <1>1, <1>2 DEF DialogInv, OneTurn, NoTwoTurns, PD!Going
<1> QED
  BY <1>3, <1>4, <1>5, <1>6 DEF DialogInv

\* Between turns the timer and the end marker put what is pending into a turn.
LEMMA PendingBegins ==
    ASSUME DialogInv, NEW by \in {"worker", "flush"}, PD!Begun(by, pending), ~flush', flush' \in BOOLEAN,
           UNCHANGED <<streaming, runner, receiving, kinds, lost, pending>>,
           Distinct(tq', Len(kinds)), Len(tq') <= QueueCap, raced' \in BOOLEAN,
           \A i \in 1 .. Len(tq') : /\ tq'[i] # 0 => Untaken(tq'[i])
                                    /\ receiving \/ runner \in {"new", "greeting"} => tq'[i] # 0,
           ~raced' => ~raced /\ \A k \in DOMAIN turns : ~PD!Going(k),
           worker = "get", worker' = IF by = "worker" THEN "last" ELSE "get"
    PROVE  DialogInv'
<1> DEFINE n == Len(turns) + 1
<1>1. pending \in Seq(Nat) /\ ToSet(pending) \subseteq PD!Heard /\ PD!Heard' = PD!Heard
  BY DEF DialogInv, DialogTypes, PD!Heard
<1>2. /\ turns' \in Seq(TurnRecord) /\ n \notin DOMAIN turns
      /\ DOMAIN turns' = DOMAIN turns \cup {n}
      /\ \A k \in DOMAIN turns : turns'[k] = turns[k]
      /\ turns'[n] = PD!Turn(by, pending)
  BY <1>1, BegunTurn DEF DialogInv
<1>3. turns'[n].text = pending
  BY <1>2 DEF PD!Turn
<1> HIDE DEF n
<1>4. \A k \in DOMAIN turns' : ToSet(turns'[k].text) \subseteq PD!Heard'
  BY <1>1, <1>2, <1>3 DEF DialogInv, DialogTypes
<1>5. DialogTypes'
  BY <1>1, <1>2, <1>4 DEF DialogInv, DialogTypes
<1>6. \A i \in 1 .. Len(tq') : tq'[i] # 0 =>
        /\ tq'[i] \notin ToSet(pending')
        /\ \A k \in DOMAIN turns' : tq'[i] \notin ToSet(turns'[k].text)
  BY <1>2, <1>3 DEF Untaken
<1>7. QueuedOnce'
  BY <1>6 DEF QueuedOnce, Untaken
<1>8. BeforeWorker'
  BY DEF DialogInv, BeforeWorker
<1>9. ~raced' => OneTurn' /\ NoTwoTurns'
  <2>1. ~raced' => \A k \in DOMAIN turns : ToSet(pending) \cap ToSet(turns[k].text) = {}
    BY DEF DialogInv, OneTurn
  <2> QED
    BY <1>1, <2>1, BegunAlone DEF DialogInv
<1> QED
  BY <1>5, <1>7, <1>8, <1>9 DEF DialogInv

LEMMA WorkerHearsNoneKeeps ==
    ASSUME DialogInv, PD!WorkerHearsNone
    PROVE  DialogInv'
<1>1. /\ worker = "get" /\ tq # <<>> /\ PD!Took /\ flush' = FALSE
      /\ UNCHANGED <<streaming, runner, receiving, kinds, lost, pending>>
  BY DEF PD!WorkerHearsNone
<1>2. /\ Distinct(tq', Len(kinds)') /\ Len(tq') <= QueueCap
      /\ \A i \in 1 .. Len(tq') : /\ tq'[i] # 0 => Untaken(tq'[i])
                                  /\ receiving' \/ runner' \in {"new", "greeting"} => tq'[i] # 0
      /\ ~raced' => ~raced /\ \A k \in DOMAIN turns : ~PD!Going(k)
      /\ raced' \in BOOLEAN
  BY <1>1, TookOne
<1>3. CASE PD!Begun("worker", pending) /\ worker' = "last"
  BY <1>1, <1>2, <1>3, PendingBegins
<1>4. CASE worker' = "over" /\ UNCHANGED turns
  <2>1. DialogTypes'
    BY <1>1, <1>2, <1>4 DEF DialogInv, DialogTypes, PD!Heard
  <2>2. QueuedOnce'
    BY <1>1, <1>2, <1>4 DEF QueuedOnce, Untaken
  <2>3. BeforeWorker'
    BY <1>1, <1>4 DEF DialogInv, BeforeWorker
  <2>4. ~raced' => OneTurn' /\ NoTwoTurns'
    BY <1>1, <1>2, <1>4 DEF DialogInv, OneTurn, NoTwoTurns, PD!Going
  <2> QED
    BY <2>1, <2>2, <2>3, <2>4 DEF DialogInv
<1> QED
  BY <1>3, <1>4 DEF PD!WorkerHearsNone

LEMMA FlushFiresKeeps ==
    ASSUME DialogInv, PD!FlushFires
    PROVE  DialogInv'
<1>1. /\ flush /\ flush' = FALSE /\ worker = "get"
      /\ UNCHANGED <<streaming, runner, receiving, kinds, tq, lost, worker, pending, raced>>
  BY DEF PD!FlushFires, DialogInv, BeforeWorker
<1>2. ~raced => \A k \in DOMAIN turns : ~PD!Going(k)
  BY <1>1 DEF DialogInv, OneTurn
<1>3. /\ Distinct(tq', Len(kinds)) /\ Len(tq') <= QueueCap /\ raced' \in BOOLEAN
      /\ \A i \in 1 .. Len(tq') : /\ tq'[i] # 0 => Untaken(tq'[i])
                                  /\ receiving \/ runner \in {"new", "greeting"} => tq'[i] # 0
  BY <1>1 DEF DialogInv, DialogTypes, QueuedOnce
<1>4. CASE PD!Begun("flush", pending)
  BY <1>1, <1>2, <1>3, <1>4, PendingBegins
<1>5. CASE UNCHANGED turns
  <2>1. DialogTypes'
    BY <1>1, <1>3, <1>5 DEF DialogInv, DialogTypes, PD!Heard
  <2>2. QueuedOnce' /\ BeforeWorker'
    BY <1>1, <1>5 DEF DialogInv, QueuedOnce, Untaken, BeforeWorker
  <2>3. ~raced' => OneTurn' /\ NoTwoTurns'
    BY <1>1, <1>2, <1>5 DEF DialogInv, OneTurn, NoTwoTurns, PD!Going
  <2> QED
    BY <2>1, <2>2, <2>3 DEF DialogInv
<1> QED
  BY <1>4, <1>5 DEF PD!FlushFires

-----------------------------------------------------------------------------
(* A turn goes on, or ends; what was pending with it is cleared.            *)

LEMMA TurnKeeps ==
    ASSUME DialogInv, NEW k \in DOMAIN turns, PD!Going(k),
           UNCHANGED <<streaming, runner, receiving, kinds, tq, lost, flush, raced>>,
           turns' \in Seq(TurnRecord), DOMAIN turns' = DOMAIN turns,
           \A j \in DOMAIN turns : /\ turns'[j].by = turns[j].by /\ turns'[j].text = turns[j].text
                                   /\ j # k => turns'[j].step = turns[j].step,
           \/ PD!Going(k)' /\ UNCHANGED <<worker, pending>>
           \/ /\ ~PD!Going(k)' /\ pending' = <<>>
              /\ worker' = IF turns[k].by = "flush" THEN worker ELSE IF worker = "last" THEN "over" ELSE "get"
    PROVE  DialogInv'
<1>1. /\ pending' \in Seq(Nat) /\ ToSet(pending') \subseteq ToSet(pending)
      /\ pending' = pending \/ ToSet(pending') = {}
  <2>1. ToSet(<<>>) = {} /\ <<>> \in Seq(Nat)
    BY DEF ToSet
  <2>2. pending' = pending \/ pending' = <<>>
    OBVIOUS
  <2>3. pending \in Seq(Nat)
    BY DEF DialogInv, DialogTypes
  <2>4. CASE pending' = pending
    BY <2>3, <2>4
  <2>5. CASE pending' = <<>>
    <3>1. ToSet(pending') = {}
      BY <2>1, <2>5
    <3> QED
      BY <2>1, <2>5, <3>1
  <2> QED
    BY <2>2, <2>4, <2>5
<1>2. \A j \in DOMAIN turns : j # k => (PD!Going(j)' <=> PD!Going(j))
  BY DEF PD!Going
<1>3. turns # <<>>
  OBVIOUS
<1>4. DialogTypes'
  BY <1>1 DEF DialogInv, DialogTypes, PD!Heard
<1>5. QueuedOnce'
  BY <1>1 DEF DialogInv, QueuedOnce, Untaken
<1>6. BeforeWorker'
  <2>1. worker # "none" /\ (runner \in {"new", "greeting"} => FALSE)
    BY <1>3 DEF DialogInv, BeforeWorker
  <2>2. worker' # "none"
    BY <2>1
  <2>3. flush' => worker' = "get"
    BY DEF DialogInv, BeforeWorker
  <2> QED
    BY <2>1, <2>2, <2>3 DEF BeforeWorker
<1>7. ~raced' => OneTurn'
  <2>1. ASSUME ~raced
        PROVE  OneTurn'
    <3>1. \A j \in DOMAIN turns : PD!Going(j) <=> j = k
      BY <2>1 DEF DialogInv, OneTurn
    <3>2. ~flush /\ (turns[k].by = "worker" => worker \in {"turn", "last"})
      BY <2>1, <3>1 DEF DialogInv, OneTurn
    <3>3. CASE PD!Going(k)' /\ UNCHANGED <<worker, pending>>
      BY <1>2, <3>1, <3>2, <3>3 DEF OneTurn
    <3>4. CASE ~PD!Going(k)' /\ pending' = <<>>
      <4>1. \A j \in DOMAIN turns' : ~PD!Going(j)'
        BY <1>2, <3>1, <3>4
      <4>2. ToSet(pending') = {}
        BY <3>4 DEF ToSet
      <4> QED
        BY <4>1, <4>2 DEF OneTurn
    <3> QED
      BY <3>3, <3>4
  <2> QED
    BY <2>1
<1>8. ~raced' => NoTwoTurns'
  BY DEF DialogInv, NoTwoTurns
<1> QED
  BY <1>4, <1>5, <1>6, <1>7, <1>8 DEF DialogInv

LEMMA TurnStepKeeps ==
    ASSUME DialogInv, NEW k \in DOMAIN turns, PD!TurnStep(k)
    PROVE  DialogInv'
<1>1. turns[k] \in TurnRecord /\ turns \in Seq(TurnRecord)
  BY DEF DialogInv, DialogTypes
<1>2. /\ turns[k].step # "done"
      /\ UNCHANGED <<streaming, runner, receiving, kinds, tq, lost, flush, raced>>
  BY DEF PD!TurnStep, PD!Generated, PD!GeneratedAgain, PD!Spoken, PD!ToolDone, PD!FollowedUp, PD!HungUp,
     PD!StepFrame
<1>3. \/ PD!Ends(k)
      \/ \E step \in {"retry", "speak", "tool", "farewell", "followup"} : PD!Stays(k, step)
      \/ \E step \in {"retry", "speak", "tool"}, tool \in Tools \cup {"none"} :
           /\ turns' = [turns EXCEPT ![k].step = step, ![k].tool = tool]
           /\ UNCHANGED <<worker, pending>>
  <2>1. CASE PD!Generated(k)
    BY <2>1 DEF PD!Generated, PD!NextStep, PD!Honoured
  <2>2. CASE PD!GeneratedAgain(k) \/ PD!Spoken(k) \/ PD!ToolDone(k) \/ PD!FollowedUp(k) \/ PD!HungUp(k)
    BY <2>2 DEF PD!GeneratedAgain, PD!Spoken, PD!ToolDone, PD!FollowedUp, PD!HungUp
  <2> QED
    BY <2>1, <2>2 DEF PD!TurnStep
<1>4. PICK record \in TurnRecord :
        /\ turns' = [turns EXCEPT ![k] = record]
        /\ record.by = turns[k].by /\ record.text = turns[k].text
        /\ \/ record.step # "done" /\ UNCHANGED <<worker, pending>>
           \/ /\ record.step = "done" /\ pending' = <<>>
              /\ worker' = IF turns[k].by = "flush" THEN worker ELSE IF worker = "last" THEN "over" ELSE "get"
  <2>1. CASE PD!Ends(k)
    <3> DEFINE r == [turns[k] EXCEPT !.step = "done", !.tool = "none"]
    <3>1. r \in TurnRecord /\ r.by = turns[k].by /\ r.text = turns[k].text /\ r.step = "done"
      BY <1>1 DEF TurnRecord
    <3>2. turns' = [turns EXCEPT ![k] = r]
      BY <1>1, <2>1 DEF PD!Ends
    <3> HIDE DEF r
    <3> QED
      BY <2>1, <3>1, <3>2 DEF PD!Ends, PD!PendingCleared
  <2>2. ASSUME NEW step \in {"retry", "speak", "tool", "farewell", "followup"}, PD!Stays(k, step)
        PROVE  \E r \in TurnRecord :
                 /\ turns' = [turns EXCEPT ![k] = r] /\ r.by = turns[k].by /\ r.text = turns[k].text
                 /\ r.step # "done" /\ UNCHANGED <<worker, pending>>
    <3> DEFINE r == [turns[k] EXCEPT !.step = step]
    <3>1. r \in TurnRecord /\ r.by = turns[k].by /\ r.text = turns[k].text /\ r.step # "done"
      BY <1>1 DEF TurnRecord
    <3>2. turns' = [turns EXCEPT ![k] = r] /\ UNCHANGED <<worker, pending>>
      BY <1>1, <2>2 DEF PD!Stays, PD!To
    <3> HIDE DEF r
    <3> QED
      BY <3>1, <3>2
  <2>3. ASSUME NEW step \in {"retry", "speak", "tool"}, NEW tool \in Tools \cup {"none"},
               turns' = [turns EXCEPT ![k].step = step, ![k].tool = tool], UNCHANGED <<worker, pending>>
        PROVE  \E r \in TurnRecord :
                 /\ turns' = [turns EXCEPT ![k] = r] /\ r.by = turns[k].by /\ r.text = turns[k].text
                 /\ r.step # "done" /\ UNCHANGED <<worker, pending>>
    <3> DEFINE r == [turns[k] EXCEPT !.step = step, !.tool = tool]
    <3>1. r \in TurnRecord /\ r.by = turns[k].by /\ r.text = turns[k].text /\ r.step # "done"
      BY <1>1 DEF TurnRecord
    <3>2. turns' = [turns EXCEPT ![k] = r]
      BY <1>1, <2>3
    <3> HIDE DEF r
    <3> QED
      BY <2>3, <3>1, <3>2
  <2> QED
    BY <1>3, <2>1, <2>2, <2>3
<1>5. /\ turns' \in Seq(TurnRecord) /\ DOMAIN turns' = DOMAIN turns /\ turns'[k] = record
      /\ \A j \in DOMAIN turns : j # k => turns'[j] = turns[j]
  BY <1>1, <1>4
<1> QED
  BY <1>2, <1>4, <1>5, TurnKeeps DEF PD!Going

-----------------------------------------------------------------------------
(* The runner.                                                              *)

\* The cleanup: the worker's turn and the timer are cancelled, a flush task's turn goes on.
LEMMA CancelledKeeps ==
    ASSUME DialogInv, PD!RunnerCancelled
    PROVE  DialogInv'
<1>1. /\ runner' = "over" /\ receiving' = FALSE /\ tq' = <<>> /\ flush' = FALSE
      /\ worker' = IF worker = "none" THEN "none" ELSE "over"
      /\ UNCHANGED <<streaming, kinds, lost, pending, raced>>
  BY DEF PD!RunnerCancelled
<1>2. turns \in Seq(TurnRecord)
  BY DEF DialogInv, DialogTypes
<1>3. /\ turns' \in Seq(TurnRecord) /\ DOMAIN turns' = DOMAIN turns
      /\ \A k \in DOMAIN turns :
           /\ turns'[k].by = turns[k].by /\ turns'[k].text = turns[k].text
           /\ turns'[k].step = IF turns[k].by = "worker" THEN "done" ELSE turns[k].step
  <2>1. DOMAIN turns = 1 .. Len(turns) /\ Len(turns) \in Nat
    BY <1>2
  <2>2. turns' = [k \in 1 .. Len(turns) |->
                    IF turns[k].by = "worker" THEN [turns[k] EXCEPT !.step = "done"] ELSE turns[k]]
    BY <2>1 DEF PD!RunnerCancelled, PD!Cut
  <2>3. \A k \in 1 .. Len(turns) :
          /\ turns'[k] \in TurnRecord /\ turns'[k].by = turns[k].by /\ turns'[k].text = turns[k].text
          /\ turns'[k].step = IF turns[k].by = "worker" THEN "done" ELSE turns[k].step
    <3>1. \A k \in 1 .. Len(turns) : turns[k] \in TurnRecord
      BY <1>2
    <3> QED
      BY <2>2, <3>1 DEF TurnRecord
  <2> QED
    BY <2>1, <2>2, <2>3
<1>4. \A k \in DOMAIN turns : PD!Going(k)' => PD!Going(k) /\ turns[k].by # "worker"
  BY <1>3 DEF PD!Going
<1>5. DialogTypes'
  BY <1>1, <1>3 DEF DialogInv, DialogTypes, PD!Heard
<1>6. QueuedOnce'
  BY <1>1, DialogGiven DEF QueuedOnce, Distinct, PD!DialogAssumption
<1>7. BeforeWorker'
  <2>1. turns = <<>> => turns' = <<>>
    BY <1>2, <1>3
  <2> QED
    BY <1>1, <2>1 DEF DialogInv, BeforeWorker
<1>8. ~raced' => OneTurn' /\ NoTwoTurns'
  BY <1>1, <1>3, <1>4 DEF DialogInv, OneTurn, NoTwoTurns
<1> QED
  BY <1>5, <1>6, <1>7, <1>8 DEF DialogInv

LEMMA RunnerKeeps ==
    ASSUME DialogInv, PD!RunnerStarts \/ PD!Greeted \/ PD!StreamRefused
    PROVE  DialogInv'
<1>1. /\ UNCHANGED <<streaming, kinds, tq, lost, pending, flush, turns, raced>>
      /\ runner' \in {"greeting", "run", "over"} /\ receiving' \in BOOLEAN
      /\ runner \in {"new", "greeting"}
      /\ runner' = "greeting" => UNCHANGED <<receiving, worker>>
      /\ worker' = worker \/ worker' = "get"
  BY DEF PD!RunnerStarts, PD!Greeted, PD!StreamRefused, PD!dialog, DialogInv, DialogTypes
<1>2. DialogTypes'
  BY <1>1 DEF DialogInv, DialogTypes, PD!Heard
<1>3. QueuedOnce'
  BY <1>1 DEF DialogInv, QueuedOnce, Untaken
<1>4. BeforeWorker' /\ (~raced' => OneTurn' /\ NoTwoTurns')
  <2>1. worker = "none" /\ turns = <<>> /\ pending = <<>> /\ flush = FALSE
    BY <1>1 DEF DialogInv, DialogTypes, BeforeWorker
  <2>2. DOMAIN turns = {}
    BY <2>1
  <2> QED
    BY <1>1, <2>1, <2>2 DEF DialogInv, BeforeWorker, OneTurn, NoTwoTurns
<1> QED
  BY <1>2, <1>3, <1>4 DEF DialogInv

-----------------------------------------------------------------------------
(* The dialog's theorems.                                                   *)

\* The instance's own names for the operators of the library.
LEMMA SameOperators == \A S : PD!ToSet(S) = ToSet(S) /\ PD!Cardinality(S) = Cardinality(S)
<1>1. \A S : PD!ToSet(S) = ToSet(S)
  BY DEF PD!ToSet, ToSet
<1>2. \A S : PD!Cardinality(S) = Cardinality(S)
  BY DEF PD!Cardinality, Cardinality
<1> QED
  BY <1>1, <1>2

LEMMA DialogStep == DialogInv /\ [PD!Next]_PD!vars => DialogInv'
<1> SUFFICES ASSUME DialogInv, [PD!Next]_PD!vars
             PROVE  DialogInv'
  OBVIOUS
<1>1. CASE UNCHANGED PD!vars
  BY <1>1 DEF PD!vars, DialogInv, DialogTypes, QueuedOnce, Untaken, BeforeWorker, OneTurn, NoTwoTurns,
     PD!Going, PD!Heard
<1>2. CASE PD!Next
  BY <1>2, TranscriptKeeps, SttLostKeeps, WorkerHearsKeeps, WorkerHearsBlankKeeps, WorkerHearsNoneKeeps,
     FlushFiresKeeps, TurnStepKeeps, CancelledKeeps, RunnerKeeps DEF PD!Next, PD!Worker
<1> QED
  BY <1>1, <1>2

THEOREM DialogSafety == PD!Spec => []DialogInv
BY DialogStart, DialogStep, PTL DEF PD!Spec

\* For any queue, any number of transcripts and turns every reachable state is well typed.
THEOREM DialogTypeCorrect == PD!Spec => []PD!TypeOK
<1>1. DialogInv => PD!TypeOK
  <2> SUFFICES ASSUME DialogInv
               PROVE  PD!TypeOK
    OBVIOUS
  <2>1. \A t \in PD!Heard : kinds[t] \in PD!Kinds
    BY DEF DialogInv, DialogTypes, PD!Heard
  <2>2. ToSet(tq) \subseteq PD!Heard \cup {PD!None}
    BY DEF DialogInv, QueuedOnce, Distinct, PD!Heard, PD!None, ToSet, DialogTypes
  <2>3. \A k \in DOMAIN turns : turns[k] \in TurnRecord
    BY DEF DialogInv, DialogTypes
  <2>4. \A k \in DOMAIN turns :
          /\ turns[k].by \in {"worker", "flush"} /\ turns[k].tool \in Tools \cup {"none"}
          /\ turns[k].step \in {"llm", "retry", "speak", "tool", "farewell", "followup", "done"}
          /\ ToSet(turns[k].text) \subseteq PD!Heard
    BY <2>3 DEF TurnRecord, DialogInv, DialogTypes
  <2>5. /\ streaming \in BOOLEAN /\ runner \in {"new", "greeting", "run", "over"} /\ receiving \in BOOLEAN
        /\ worker \in {"none", "get", "turn", "last", "over"}
        /\ ToSet(pending) \subseteq PD!Heard /\ flush \in BOOLEAN /\ raced \in BOOLEAN
        /\ lost \subseteq PD!Heard /\ Len(tq) <= QueueCap
    BY DEF DialogInv, DialogTypes, QueuedOnce
  <2> QED
    BY <2>1, <2>2, <2>4, <2>5, SameOperators DEF PD!TypeOK
<1> QED
  BY <1>1, DialogSafety, PTL

\* For any number of transcripts and turns, whatever the worker, its timer and the
\* cleanup do to what is pending: what the caller says is answered in one turn only,
\* unless the worker took a transcript while a flush task's turn was running.
THEOREM AnswersOnce == PD!Spec => []AnsweredOnce
<1>1. DialogInv => AnsweredOnce
  <2> SUFFICES ASSUME DialogInv, ~raced, NEW t \in PD!Heard
               PROVE  Cardinality(PD!Answers(t)) <= 1
    BY SameOperators DEF AnsweredOnce, PD!AnsweredOnce
  <2>1. ASSUME NEW j \in PD!Answers(t), NEW k \in PD!Answers(t)
        PROVE  j = k
    <3>1. /\ j \in DOMAIN turns /\ k \in DOMAIN turns
          /\ t \in ToSet(turns[j].text) \cap ToSet(turns[k].text)
      BY <2>1, SameOperators DEF PD!Answers
    <3>2. NoTwoTurns
      BY DEF DialogInv
    <3> QED
      BY <3>1, <3>2 DEF NoTwoTurns
  <2>2. CASE PD!Answers(t) = {}
    <3>1. Cardinality(PD!Answers(t)) = 0
      BY <2>2, FS_EmptySet
    <3> QED
      BY <3>1
  <2>3. CASE PD!Answers(t) # {}
    <3>1. PICK k \in PD!Answers(t) : TRUE
      BY <2>3
    <3>2. PD!Answers(t) = {k}
      BY <2>1, <3>1
    <3>3. Cardinality({k}) = 1
      BY FS_Singleton
    <3>4. Cardinality(PD!Answers(t)) = 1
      BY <3>2, <3>3
    <3> QED
      BY <3>4
  <2> QED
    BY <2>2, <2>3
<1> QED
  BY <1>1, DialogSafety, PTL

-----------------------------------------------------------------------------
(* The dialog: nothing that was said is forgotten.                          *)

\* A transcript is queued, pending, in a turn, or known to be lost.
Accounted(t) ==
    \/ kinds[t] = "blank" \/ t \in lost \/ t \in ToSet(tq) \/ t \in ToSet(pending)
    \/ \E k \in DOMAIN turns : t \in ToSet(turns[k].text)

\* A turn that is going answers all that is pending, so that it can be cleared.
TurnCovers == \A k \in DOMAIN turns : PD!Going(k) => ToSet(pending) \subseteq ToSet(turns[k].text)

\* What is pending while the worker listens has its timer, or a turn that is going.
PendingTimed == worker = "get" /\ pending # <<>> => flush \/ \E k \in DOMAIN turns : PD!Going(k)

SpeechKept == runner # "over" => \A t \in PD!Heard : Accounted(t)

KeptInv == ~raced => TurnCovers /\ PendingTimed /\ SpeechKept

LEMMA QueueIs ==
    ASSUME NEW q \in Seq(Nat), q # <<>>
    PROVE  ToSet(q) = {Head(q)} \cup ToSet(Tail(q))
<1>1. /\ Len(q) \in Nat \ {0} /\ Head(q) = q[1] /\ DOMAIN q = 1 .. Len(q)
      /\ DOMAIN Tail(q) = 1 .. Len(q) - 1
      /\ \A i \in 1 .. Len(q) - 1 : Tail(q)[i] = q[i + 1]
  OBVIOUS
<1>2. \A i \in 1 .. Len(q) : i = 1 \/ i - 1 \in 1 .. Len(q) - 1
  BY <1>1
<1>3. ASSUME NEW i \in DOMAIN q
      PROVE  q[i] = Head(q) \/ \E j \in DOMAIN Tail(q) : q[i] = Tail(q)[j]
  <2>1. CASE i = 1
    BY <1>1, <2>1
  <2>2. CASE i # 1
    <3>1. i - 1 \in DOMAIN Tail(q) /\ q[i] = Tail(q)[i - 1]
      BY <1>1, <1>2, <2>2
    <3> QED
      BY <3>1
  <2> QED
    BY <2>1, <2>2
<1>4. \A j \in DOMAIN Tail(q) : j + 1 \in DOMAIN q /\ Tail(q)[j] = q[j + 1]
  BY <1>1
<1>5. 1 \in DOMAIN q /\ Head(q) = q[1]
  BY <1>1
<1>6. ToSet(q) \subseteq {Head(q)} \cup ToSet(Tail(q))
  BY <1>3 DEF ToSet
<1>7. ToSet(Tail(q)) \subseteq ToSet(q)
  BY <1>4 DEF ToSet
<1>8. Head(q) \in ToSet(q)
  BY <1>5 DEF ToSet
<1> QED
  BY <1>6, <1>7, <1>8

\* What is heard is queued, or lost in its turn or in another's.
LEMMA HeardKept ==
    ASSUME DialogInv, KeptInv, NEW kind \in PD!Kinds, PD!TranscriptArrives(kind) \/ PD!EarlyFlush(kind)
    PROVE  KeptInv'
<1> DEFINE n == Len(kinds')
<1>1. /\ kinds' = Append(kinds, kind)
      /\ UNCHANGED <<streaming, runner, receiving, worker, pending, flush, turns, raced>>
  BY DEF PD!TranscriptArrives, PD!EarlyFlush, PD!dialog
<1>2. /\ n \in Nat /\ PD!Heard' = PD!Heard \cup {n} /\ \A t \in PD!Heard : kinds'[t] = kinds[t]
  BY <1>1 DEF DialogInv, DialogTypes, PD!Heard
<1>3. tq \in Seq(Nat)
  BY DEF DialogInv, QueuedOnce, Distinct
<1> HIDE DEF n
<1>4. \A t \in ToSet(tq) \cup lost \cup {n} : t \in ToSet(tq') \cup lost'
  <2>1. ToSet(Append(tq, n)) = ToSet(tq) \cup {n}
    BY <1>2, <1>3, WithOneMore
  <2>2. CASE tq' = Append(tq, n) /\ UNCHANGED lost
    BY <2>1, <2>2
  <2>3. CASE UNCHANGED tq /\ lost' = lost \cup {n}
    BY <2>3
  <2>4. CASE tq' = Append(Tail(tq), n) /\ lost' = lost \cup {Head(tq)} /\ ~(Len(tq) < QueueCap)
    <3>1. tq # <<>>
      BY <1>3, <2>4, DialogGiven DEF PD!DialogAssumption
    <3>2. Tail(tq) \in Seq(Nat) /\ ToSet(tq) = {Head(tq)} \cup ToSet(Tail(tq))
      BY <1>3, <3>1, QueueIs
    <3>3. ToSet(tq') = ToSet(Tail(tq)) \cup {n}
      BY <1>2, <2>4, <3>2, WithOneMore
    <3> QED
      BY <2>4, <3>2, <3>3
  <2> QED
    BY <2>2, <2>3, <2>4 DEF PD!TranscriptArrives, PD!EarlyFlush, PD!Enqueued, n
<1>5. TurnCovers' <=> TurnCovers
  BY <1>1 DEF TurnCovers, PD!Going
<1>6. PendingTimed' <=> PendingTimed
  BY <1>1 DEF PendingTimed, PD!Going
<1>7. SpeechKept => SpeechKept'
  BY <1>1, <1>2, <1>4 DEF SpeechKept, Accounted
<1> QED
  BY <1>1, <1>5, <1>6, <1>7 DEF KeptInv

\* The worker takes one: what it leaves in the queue, and it.
LEMMA TookKept ==
    ASSUME DialogInv, worker = "get", tq # <<>>, PD!Took
    PROVE  /\ ToSet(tq) = {Head(tq)} \cup ToSet(tq') /\ Head(tq) \in Nat
           /\ ~raced' => ~raced /\ \A k \in DOMAIN turns : ~PD!Going(k)
<1>1. tq \in Seq(Nat)
  BY DEF DialogInv, QueuedOnce, Distinct
<1>2. ToSet(tq) = {Head(tq)} \cup ToSet(tq') /\ Head(tq) \in Nat
  BY <1>1, QueueIs DEF PD!Took
<1>3. \A k \in DOMAIN turns : turns[k].by \in {"worker", "flush"}
  <2>1. \A k \in DOMAIN turns : turns[k] \in TurnRecord
    BY DEF DialogInv, DialogTypes
  <2> QED
    BY <2>1 DEF TurnRecord
<1>4. ~raced' => ~raced /\ \A k \in DOMAIN turns : ~PD!Going(k)
  BY <1>3 DEF DialogInv, PD!Took, PD!FlushTurnRuns, OneTurn
<1> QED
  BY <1>2, <1>4

\* A turn begins with all that is pending.
LEMMA BegunKept ==
    ASSUME DialogInv, KeptInv, NEW by \in {"worker", "flush"}, pending' \in Seq(Nat), PD!Begun(by, pending'),
           UNCHANGED <<runner, kinds, lost>>, ~raced, \A k \in DOMAIN turns : ~PD!Going(k),
           \A t \in ToSet(tq) \cup ToSet(pending) : t = 0 \/ t \in ToSet(tq') \cup ToSet(pending')
    PROVE  KeptInv'
<1> DEFINE n == Len(turns) + 1
<1>1. /\ n \notin DOMAIN turns /\ DOMAIN turns' = DOMAIN turns \cup {n}
      /\ \A k \in DOMAIN turns : turns'[k] = turns[k]
      /\ turns'[n] = PD!Turn(by, pending')
  BY BegunTurn DEF DialogInv
<1>2. turns'[n].text = pending' /\ turns'[n].step = "llm"
  BY <1>1 DEF PD!Turn
<1> HIDE DEF n
<1>3. \A k \in DOMAIN turns' : PD!Going(k)' <=> k = n
  BY <1>1, <1>2 DEF PD!Going
<1>4. TurnCovers' /\ PendingTimed'
  BY <1>1, <1>2, <1>3 DEF TurnCovers, PendingTimed
<1>5. PD!Heard' = PD!Heard /\ 0 \notin PD!Heard
  BY DEF PD!Heard
<1>6. SpeechKept'
  BY <1>1, <1>5 DEF KeptInv, SpeechKept, Accounted
<1> QED
  BY <1>4, <1>6 DEF KeptInv

LEMMA WorkerKept ==
    ASSUME DialogInv, KeptInv, PD!Worker
    PROVE  KeptInv'
<1>1. /\ worker = "get" /\ tq # <<>> /\ PD!Took /\ UNCHANGED <<runner, kinds, lost>>
  BY DEF PD!Worker, PD!WorkerHears, PD!WorkerHearsBlank, PD!WorkerHearsNone
<1>2. SUFFICES ASSUME ~raced'
               PROVE  KeptInv'
  BY DEF KeptInv
<1>3. /\ ToSet(tq) = {Head(tq)} \cup ToSet(tq') /\ Head(tq) \in Nat
      /\ ~raced /\ \A k \in DOMAIN turns : ~PD!Going(k)
  BY <1>1, <1>2, TookKept
<1>4. pending \in Seq(Nat) /\ TurnCovers /\ PendingTimed /\ SpeechKept
  BY <1>3 DEF DialogInv, DialogTypes, KeptInv
<1>5. PD!Heard' = PD!Heard /\ 0 \notin PD!Heard
  BY <1>1 DEF PD!Heard
<1>6. CASE PD!WorkerHears
  <2>1. pending' = Append(pending, Head(tq))
    BY <1>6 DEF PD!WorkerHears
  <2>2. pending' \in Seq(Nat) /\ ToSet(pending') = ToSet(pending) \cup {Head(tq)}
    BY <1>3, <1>4, <2>1, WithOneMore
  <2>3. CASE PD!Accumulates(pending') /\ UNCHANGED worker
    <3>1. flush' = TRUE /\ UNCHANGED turns
      BY <2>3 DEF PD!Accumulates
    <3>2. TurnCovers' /\ PendingTimed'
      BY <1>3, <3>1 DEF TurnCovers, PendingTimed, PD!Going
    <3>3. SpeechKept'
      BY <1>1, <1>3, <1>4, <1>5, <2>2, <3>1 DEF SpeechKept, Accounted
    <3> QED
      BY <3>2, <3>3 DEF KeptInv
  <2>4. CASE PD!Begun("worker", pending')
    <3>1. \A t \in ToSet(tq) \cup ToSet(pending) : t = 0 \/ t \in ToSet(tq') \cup ToSet(pending')
      BY <1>3, <2>2
    <3> QED
      BY <1>1, <1>3, <2>2, <2>4, <3>1, BegunKept
  <2> QED
    BY <1>6, <2>3, <2>4 DEF PD!WorkerHears
<1>7. CASE PD!WorkerHearsBlank
  <2>1. /\ kinds[Head(tq)] = "blank" /\ flush' = (flush \/ pending # <<>>)
        /\ UNCHANGED <<worker, pending, turns>>
    BY <1>7 DEF PD!WorkerHearsBlank
  <2>2. TurnCovers' /\ PendingTimed'
    BY <1>3, <2>1 DEF TurnCovers, PendingTimed, PD!Going
  <2>3. SpeechKept'
    BY <1>1, <1>3, <1>4, <1>5, <2>1 DEF SpeechKept, Accounted
  <2> QED
    BY <2>2, <2>3 DEF KeptInv
<1>8. CASE PD!WorkerHearsNone
  <2>1. Head(tq) = 0 /\ UNCHANGED pending
    BY <1>8 DEF PD!WorkerHearsNone, PD!None
  <2>2. CASE worker' = "over" /\ UNCHANGED turns
    <3>1. TurnCovers' /\ PendingTimed'
      BY <1>3, <2>2 DEF TurnCovers, PendingTimed, PD!Going
    <3>2. SpeechKept'
      BY <1>1, <1>3, <1>4, <1>5, <2>1, <2>2 DEF SpeechKept, Accounted
    <3> QED
      BY <3>1, <3>2 DEF KeptInv
  <2>3. CASE PD!Begun("worker", pending)
    BY <1>1, <1>3, <1>4, <2>1, <2>3, BegunKept
  <2> QED
    BY <1>8, <2>2, <2>3 DEF PD!WorkerHearsNone
<1> QED
  BY <1>6, <1>7, <1>8 DEF PD!Worker

LEMMA FlushFiresKept ==
    ASSUME DialogInv, KeptInv, PD!FlushFires
    PROVE  KeptInv'
<1>1. flush /\ UNCHANGED <<runner, kinds, tq, lost, worker, pending, raced>>
  BY DEF PD!FlushFires
<1>2. SUFFICES ASSUME ~raced
               PROVE  KeptInv'
  BY <1>1 DEF KeptInv
<1>3. (\A k \in DOMAIN turns : ~PD!Going(k)) /\ pending \in Seq(Nat)
  BY <1>1, <1>2 DEF DialogInv, DialogTypes, OneTurn
<1>4. CASE pending = <<>> /\ UNCHANGED turns
  <2>1. TurnCovers' /\ PendingTimed'
    BY <1>1, <1>3, <1>4 DEF TurnCovers, PendingTimed, PD!Going
  <2>2. SpeechKept'
    BY <1>1, <1>2, <1>4 DEF KeptInv, SpeechKept, Accounted, PD!Heard
  <2> QED
    BY <2>1, <2>2 DEF KeptInv
<1>5. CASE PD!Begun("flush", pending)
  BY <1>1, <1>2, <1>3, <1>5, BegunKept
<1> QED
  BY <1>4, <1>5 DEF PD!FlushFires

\* A turn that ends takes what is pending with it: it has answered it.
LEMMA TurnKept ==
    ASSUME DialogInv, KeptInv, NEW k \in DOMAIN turns, PD!TurnStep(k)
    PROVE  KeptInv'
<1>1. turns[k].step # "done" /\ UNCHANGED <<runner, kinds, tq, lost, flush, raced>>
  BY DEF PD!TurnStep, PD!Generated, PD!GeneratedAgain, PD!Spoken, PD!ToolDone, PD!FollowedUp, PD!HungUp,
     PD!StepFrame
<1>2. SUFFICES ASSUME ~raced
               PROVE  KeptInv'
  BY <1>1 DEF KeptInv
<1>3. \/ PD!Ends(k)
      \/ \E step \in {"retry", "speak", "tool", "farewell", "followup"} : PD!Stays(k, step)
      \/ \E step \in {"retry", "speak", "tool"}, tool \in Tools \cup {"none"} :
           /\ turns' = [turns EXCEPT ![k].step = step, ![k].tool = tool]
           /\ UNCHANGED <<worker, pending>>
  <2>1. CASE PD!Generated(k)
    BY <2>1 DEF PD!Generated, PD!NextStep, PD!Honoured
  <2>2. CASE PD!GeneratedAgain(k) \/ PD!Spoken(k) \/ PD!ToolDone(k) \/ PD!FollowedUp(k) \/ PD!HungUp(k)
    BY <2>2 DEF PD!GeneratedAgain, PD!Spoken, PD!ToolDone, PD!FollowedUp, PD!HungUp
  <2> QED
    BY <2>1, <2>2 DEF PD!TurnStep
<1>4. turns \in Seq(TurnRecord) /\ turns[k] \in TurnRecord
  BY DEF DialogInv, DialogTypes
<1>5. /\ DOMAIN turns' = DOMAIN turns
      /\ \A j \in DOMAIN turns : turns'[j].text = turns[j].text /\ (j # k => turns'[j].step = turns[j].step)
  BY <1>3, <1>4 DEF PD!Ends, PD!Stays, PD!To, TurnRecord
<1>6. \/ pending' = <<>> \/ (PD!Going(k)' /\ UNCHANGED <<worker, pending>>)
  BY <1>3, <1>4 DEF PD!Ends, PD!PendingCleared, PD!Stays, PD!To, PD!Going, TurnRecord
<1>7. PD!Going(k) /\ TurnCovers /\ SpeechKept
  BY <1>1, <1>2 DEF KeptInv, PD!Going
<1>8. ToSet(pending) \subseteq ToSet(turns[k].text) /\ (ToSet(pending') = ToSet(pending) \/ ToSet(pending') = {})
  BY <1>6, <1>7 DEF TurnCovers, ToSet
<1>9. TurnCovers'
  BY <1>5, <1>7, <1>8 DEF TurnCovers, PD!Going
<1>10. PendingTimed'
  BY <1>5, <1>6 DEF PendingTimed
<1>11. SpeechKept'
  BY <1>1, <1>5, <1>7, <1>8 DEF SpeechKept, Accounted, PD!Heard
<1> QED
  BY <1>9, <1>10, <1>11 DEF KeptInv

LEMMA RunnerKept ==
    ASSUME DialogInv, KeptInv, PD!RunnerStarts \/ PD!Greeted \/ PD!StreamRefused \/ PD!RunnerCancelled \/ PD!SttLost
    PROVE  KeptInv'
<1>1. CASE PD!RunnerStarts \/ PD!Greeted \/ PD!StreamRefused
  <2>1. /\ UNCHANGED <<kinds, tq, lost, pending, flush, turns, raced>> /\ runner # "over"
        /\ worker' = worker \/ worker = "none"
    BY <1>1 DEF PD!RunnerStarts, PD!Greeted, PD!StreamRefused, PD!dialog, DialogInv, BeforeWorker
  <2>2. worker = "none" => pending = <<>>
    BY DEF DialogInv, BeforeWorker
  <2> QED
    BY <2>1, <2>2 DEF KeptInv, TurnCovers, PendingTimed, SpeechKept, Accounted, PD!Going, PD!Heard
<1>2. CASE PD!RunnerCancelled
  <2>1. /\ runner' = "over" /\ UNCHANGED <<pending, raced>> /\ worker' # "get"
        /\ DOMAIN turns' = DOMAIN turns
        /\ \A k \in DOMAIN turns :
             turns'[k] = IF turns[k].by = "worker" THEN [turns[k] EXCEPT !.step = "done"] ELSE turns[k]
    BY <1>2 DEF PD!RunnerCancelled, PD!Cut
  <2>2. \A k \in DOMAIN turns : turns[k] \in TurnRecord
    BY DEF DialogInv, DialogTypes
  <2>3. \A k \in DOMAIN turns : turns'[k].text = turns[k].text /\ (PD!Going(k)' => PD!Going(k))
    BY <2>1, <2>2 DEF TurnRecord, PD!Going
  <2> QED
    BY <2>1, <2>3 DEF KeptInv, TurnCovers, PendingTimed, SpeechKept
<1>3. CASE PD!SttLost
  <2>1. UNCHANGED <<runner, kinds, lost, worker, pending, flush, turns, raced>>
    BY <1>3 DEF PD!SttLost, PD!dialog
  <2>2. ToSet(tq) \subseteq ToSet(tq')
    <3>1. tq \in Seq(Nat)
      BY DEF DialogInv, QueuedOnce, Distinct
    <3>2. ToSet(Append(tq, 0)) = ToSet(tq) \cup {0}
      BY <3>1, WithOneMore
    <3> QED
      BY <1>3, <3>2 DEF PD!SttLost, PD!None
  <2> QED
    BY <2>1, <2>2 DEF KeptInv, TurnCovers, PendingTimed, SpeechKept, Accounted, PD!Going, PD!Heard
<1> QED
  BY <1>1, <1>2, <1>3

\* For any queue, transcripts and turns, unless the worker took a transcript while a
\* flush task's turn was running: until the runner is over nothing that the caller said is
\* forgotten, and what is pending has a timer or a turn to answer it.
THEOREM NothingForgotten == PD!Spec => [](~raced => PendingTimed /\ SpeechKept)
<1>1. PD!Init => KeptInv
  <2>1. PD!Init => turns = <<>> /\ kinds = <<>> /\ pending = <<>>
    BY DEF PD!Init
  <2> QED
    BY <2>1 DEF KeptInv, TurnCovers, PendingTimed, SpeechKept, PD!Heard
<1>2. DialogInv /\ KeptInv /\ [PD!Next]_PD!vars => KeptInv'
  <2>1. ASSUME DialogInv, KeptInv, PD!Next
        PROVE  KeptInv'
    BY <2>1, HeardKept, WorkerKept, FlushFiresKept, TurnKept, RunnerKept DEF PD!Next
  <2>2. ASSUME KeptInv, UNCHANGED PD!vars
        PROVE  KeptInv'
    BY <2>2 DEF PD!vars, KeptInv, TurnCovers, PendingTimed, SpeechKept, Accounted, PD!Going, PD!Heard
  <2> QED
    BY <2>1, <2>2
<1>3. KeptInv => (~raced => PendingTimed /\ SpeechKept)
  BY DEF KeptInv
<1> QED
  BY <1>1, <1>2, <1>3, DialogSafety, PTL DEF PD!Spec
=============================================================================
