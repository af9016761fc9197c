----------------------- MODULE StreamingPlaybackProofs -----------------------
(***************************************************************************)
(* For any speakers, queues, capacities and barge-ins: a queue has its     *)
(* reader and no other, a gating token has who will release it, what ends  *)
(* by itself was played out, nothing plays after the call, and no          *)
(* registered stream is stuck.                                             *)
(***************************************************************************)
EXTENDS StreamingPlayback, FiniteSetTheorems, TLAPS

-----------------------------------------------------------------------------
(* The inductive invariant, part by part.                                   *)

Reading(r) == prod[r] \in {"read", "put", "end"}

(* No stream was started while another was being cleaned up.                *)
Apart == "overlapped" \notin odd

(* Stream ids are used once. *)
Fresh ==
    /\ \A r \in Ids : r > used => prod[r] = "none"
    /\ \A r \in Ids : prod[r] = "none" => pacer[r] = "none"
    /\ entry # 0 => prod[entry] # "none"
    /\ \A r \in Ids : waits[r] # 0 => prod[waits[r]] # "none"

(* One cleanup at a time, and the mark says whose it is. *)
OneCleaner ==
    /\ \A r \in Ids : prod[r] = "grace" <=> cleaning.by = "producer" /\ cleaning.id = r
    /\ \A b \in Stoppers : stopper[b] = "grace" <=> cleaning.by = b
    /\ cleaning.by = "none" <=> cleaning.id = 0

(* Whoever stops a stream has cancelled its tasks first. *)
CancelledFirst ==
    /\ cleaning.by \in Stoppers =>
           prod[cleaning.id] \in {"close", "drain", "done"} /\ pacer[cleaning.id] = "done"
    /\ \A r \in Ids : prod[r] = "close" => pacer[r] = "done"

(* Who may stop a stream: the dialog worker of a pipeline, and the call's   *)
(* end once it has begun.                                                   *)
StoppersKnown ==
    /\ mode # "pipeline" => pipe # "synth" /\ stopper["pipe"] = "idle"
    /\ alive = "up" => stopper["end"] = "idle"

(* A continuous stream ends only when it is cancelled. *)
Continuous ==
    mode = "continuous" =>
        \A r \in Ids : /\ ~q[r].end /\ prod[r] # "end"
                       /\ prod[r] = "drain" => pacer[r] = "done"

(* What is left of a stream that is no longer registered: nothing, or a     *)
(* cancelled producer that waits for room for ever.  (A continuous stream   *)
(* that was overlapped reads on.)                                           *)
Leftover ==
    mode = "continuous" \/ Apart =>
        \A r \in Ids :
            /\ prod[r] = "drain" => waits[r] = r
            /\ r # entry => \/ prod[r] \in {"none", "done"}
                            \/ prod[r] = "close" /\ ~Room(r)
                            \/ ~Apart /\ prod[r] \in {"read", "put"}

(* The pacer, the keepalive and the cleanup are those of the registered     *)
(* stream.                                                                  *)
Registered ==
    Apart =>
        /\ cleaning # Nobody => cleaning.id = entry /\ keepalive = 0
        /\ keepalive \in {0, entry}
        /\ \A r \in Ids : pacer[r] = "run" => r = entry /\ prod[r] \notin {"grace", "done"}

(* A registered stream runs or is being cleaned up. *)
EntryRuns ==
    odd \subseteq {"joined", "late"} /\ entry # 0 => Running(entry) \/ cleaning.id = entry

(* While a continuous call goes on, the queue in use is read by the stream  *)
(* that is registered; if not, a barge-in is cleaning it up.                *)
InUse ==
    mode = "continuous" /\ alive = "up" /\ (cur # 0 \/ Running(entry)) =>
        \/ cur # 0 /\ entry = cur /\ prod[cur] \in {"read", "put"}
        \/ \E b \in Bargers : stopper[b] = "grace"

(* A fallback token belongs to a continuous stream. *)
Fallback == SegmentToken \in tokens => mode = "continuous"

(* Once the call's end has stopped its stream, nothing reads or plays.      *)
StoppedByEnd ==
    alive # "up" /\ odd \subseteq {"joined"} =>
        /\ keepalive = 0 /\ (cleaning = Nobody => entry = 0)
        /\ \A r \in Ids : ~Reading(r) /\ pacer[r] # "run"

Tasks == Fresh /\ OneCleaner /\ CancelledFirst /\ StoppersKnown /\ Continuous /\ Leftover /\ Registered

IInv ==
    /\ TypeOK /\ Tasks /\ EntryRuns /\ InUse /\ Fallback /\ TokenHasReleaser /\ StoppedByEnd

-----------------------------------------------------------------------------
(* What a step does to the tasks of the streams.                            *)

(* It leaves them alone; some stop_streaming_playback may be over. *)
Rests ==
    /\ UNCHANGED <<mode, alive, entry, jb, prod, waits, pacer, keepalive, cleaning>>
    /\ \A b \in Stoppers : stopper'[b] = stopper[b] \/ (stopper[b] = "after" /\ stopper'[b] = "idle")
    /\ odd \subseteq odd' /\ used' \in Nat /\ used <= used'
    /\ pipe' = "synth" => mode = "pipeline"
    /\ mode = "continuous" => /\ cur' = cur \/ (cur = 0 /\ Running(entry))
                              /\ \A r \in Ids : q'[r].end = q[r].end

(* It registers stream r. *)
Registers(r) ==
    /\ r = used + 1 /\ r \in Ids /\ ~Running(entry) /\ alive # "over"
    /\ used' = r /\ cur' = r /\ entry' = r /\ keepalive' = r
    /\ prod' = [prod EXCEPT ![r] = "read"] /\ pacer' = [pacer EXCEPT ![r] = "run"]
    /\ odd \subseteq odd'
    /\ cleaning # Nobody => "overlapped" \in odd'
    /\ alive = "ending" => "late" \in odd'
    /\ pipe' = "synth" => mode = "pipeline"
    /\ mode = "continuous" => \A s \in Ids : q'[s].end = q[s].end
    /\ UNCHANGED <<mode, alive, jb, waits, cleaning, stopper>>

(* Its producer reads on or sees the end. *)
Reads(r) ==
    /\ prod[r] \in {"read", "put"}
    /\ \E p \in {"read", "put", "end"} :
         /\ prod' = [prod EXCEPT ![r] = p]
         /\ mode = "continuous" /\ p = "end" => q[r].end
    /\ \A s \in Ids : s # r /\ s # entry => jb'[s] = jb[s]
    /\ \A s \in Ids : q'[s].end = q[s].end
    /\ UNCHANGED <<engine, entry, waits, pacer, keepalive, cleaning, stopper, odd>>

(* A pacer plays or ends, or the keepalive gives the buffer away. *)
Paces ==
    /\ \A s \in Ids : /\ pacer'[s] = pacer[s] \/ (pacer[s] = "run" /\ pacer'[s] = "done")
                      /\ s # entry /\ pacer[s] # "run" => jb'[s] = jb[s]
    /\ keepalive' \in {keepalive, 0}
    /\ UNCHANGED <<engine, q, entry, prod, waits, cleaning, tokens, stopper, odd>>

(* Its tasks are cancelled. *)
Stops(b) ==
    /\ Stop(b) /\ stopper[b] # "grace"
    /\ \/ b \in Bargers /\ UNCHANGED alive /\ alive # "over"
       \/ b = "pipe" /\ mode = "pipeline" /\ UNCHANGED alive
       \/ b = "end" /\ alive = "up" /\ alive' = "ending"
    /\ UNCHANGED <<mode, kind, used, said, segOn, pipe, q, entry, jb, failed, tokens>>

Kinds ==
    \/ Rests
    \/ \E r \in Ids : \/ Registers(r) \/ Reads(r) \/ PutsSentinel(r) \/ Drained(r)
                      \/ ProducerCleans(r)
    \/ Paces
    \/ \E b \in Stoppers : StopperCleans(b) \/ Stops(b)
    \/ SessionRemoved

LEMMA BargersDiffer ==
    /\ "end" \notin Bargers /\ "pipe" \notin Bargers /\ "producer" \notin Bargers /\ "none" \notin Bargers
    /\ "producer" \notin Stoppers /\ "none" \notin Stoppers
BY StreamingAssumption DEF Stoppers

LEMMA StartKinds ==
    ASSUME TypeOK, StoppersKnown, AgentAudio \/ ReplyStarts
    PROVE  Rests \/ \E r \in Ids : Registers(r)
<1>1. used \in Nat /\ q \in [Ids -> Entries] /\ MaxQueues \in Nat
  BY StreamingAssumption DEF TypeOK, EngineType, BufferType
<1>2. \A x : \A s \in Ids : Enqueued(x)[s].end = q[s].end
  BY <1>1 DEF Enqueued, Entries
<1>3. CASE AgentAudio /\ cur # 0
  BY <1>1, <1>2, <1>3 DEF AgentAudio, Rests, StoppersKnown
<1>4. ASSUME cur' = used + 1, used' = used + 1, StartStream(cur'), used < MaxQueues, alive # "over",
             pipe' = "synth" => mode = "pipeline",
             mode = "continuous" => cur = 0 /\ \A s \in Ids : q'[s].end = q[s].end,
             UNCHANGED <<mode, alive, jb, waits, cleaning, stopper>>
      PROVE  Rests \/ \E r \in Ids : Registers(r)
  <2>1. used + 1 \in Ids /\ used' \in Nat /\ used <= used'
    BY <1>1, <1>4 DEF Ids
  <2>2. CASE Reused
    <3>1. odd \subseteq odd' /\ UNCHANGED <<entry, keepalive, prod, pacer>>
      BY <1>4, <2>2 DEF StartStream
    <3>2. mode = "continuous" => cur = 0 /\ Running(entry)
      BY <1>4, <2>2 DEF Reused
    <3> QED
      BY <1>4, <2>1, <3>1, <3>2 DEF Rests
  <2>3. CASE ~Reused
    <3>1. Registers(used + 1)
      BY <1>4, <2>1, <2>3 DEF StartStream, Reused, Registers
    <3> QED
      BY <2>1, <3>1
  <2> QED
    BY <2>2, <2>3
<1>5. CASE AgentAudio /\ cur = 0
  <2>1. mode # "pipeline"
    BY <1>5 DEF AgentAudio
  <2>2. pipe' # "synth"
    BY <1>5 DEF AgentAudio, StoppersKnown
  <2> QED
    BY <1>1, <1>2, <1>4, <1>5, <2>1, <2>2 DEF AgentAudio
<1>6. CASE ReplyStarts
  BY <1>1, <1>4, <1>6 DEF ReplyStarts
<1> QED
  BY <1>3, <1>5, <1>6

LEMMA StepKinds ==
    ASSUME TypeOK, StoppersKnown, Next
    PROVE  Kinds
<1> USE DEF Kinds
<1>1. q \in [Ids -> Entries] /\ jb \in [Ids -> Frames] /\ used \in Nat /\ prod \in [Ids -> ProducerAt]
      /\ pacer \in [Ids -> {"none", "run", "done"}] /\ stopper \in [Stoppers -> {"idle", "grace", "after"}]
  BY StreamingAssumption DEF TypeOK, EngineType, BufferType, TaskType
<1>2. CASE AgentAudio \/ ReplyStarts
  BY <1>2, StartKinds
<1>3. CASE AgentAudioDone
  BY <1>1, <1>3 DEF AgentAudioDone, Rests, StoppersKnown
<1>4. CASE ReplyChunk \/ ReplyEnds
  BY <1>1, <1>4 DEF ReplyChunk, ReplyEnds, Synthesising, Rests, StoppersKnown
<1>5. CASE ReplyPlayedFromFile
  BY <1>1, <1>5 DEF ReplyPlayedFromFile, player, Rests, StoppersKnown
<1>6. CASE ReplyFails
  <2>1. Stops("pipe") /\ "pipe" \in Stoppers
    BY <1>6 DEF ReplyFails, Synthesising, Stops, StoppersKnown, Stoppers
  <2> QED
    BY <2>1
<1>7. CASE CallEnds
  <2>1. Stops("end") /\ "end" \in Stoppers
    BY <1>7 DEF CallEnds, Stops, StoppersKnown, Stoppers
  <2> QED
    BY <2>1
<1>8. ASSUME NEW r \in Ids, Takes(r) \/ Puts(r) \/ SeesEnd(r) \/ TimedOut(r)
      PROVE  Kinds
  <2>1. \A s \in Ids : q'[s].end = q[s].end
    BY <1>1, <1>8 DEF Takes, Puts, SeesEnd, TimedOut, Entries
  <2>2. \A s \in Ids : s # r /\ s # entry => jb'[s] = jb[s]
    BY <1>1, <1>8 DEF Takes, Puts, SeesEnd, TimedOut, Emptied
  <2>3. Reads(r)
    BY <1>1, <1>8, <2>1, <2>2 DEF Takes, Puts, SeesEnd, TimedOut, TimesOut, Reads
  <2> QED
    BY <2>3
<1>9. ASSUME NEW r \in Ids, Plays(r) \/ PacerEnds(r) \/ PacerFails(r)
      PROVE  Kinds
  <2>1. \A s \in Ids : s # entry /\ pacer[s] # "run" => jb'[s] = jb[s]
    BY <1>1, <1>9 DEF Plays, PacerEnds, PacerFails, Emptied
  <2>2. Paces
    BY <1>1, <1>9, <2>1 DEF Plays, PacerEnds, PacerFails, Paces
  <2> QED
    BY <2>2
<1>10. CASE KeepaliveTimesOut
  BY <1>1, <1>10 DEF KeepaliveTimesOut, Emptied, Paces
<1>11. ASSUME NEW b \in Stoppers, BargeInReleases(b)
       PROVE  Kinds
  BY <1>1, <1>11 DEF BargeInReleases, engine, player, Rests, StoppersKnown
<1>12. ASSUME NEW b \in Stoppers, BargeInStops(b)
       PROVE  Kinds
  BY <1>12 DEF BargeInStops, Stops
<1> QED
  BY <1>2, <1>3, <1>4, <1>5, <1>6, <1>7, <1>8, <1>9, <1>10, <1>11, <1>12
     DEF Next, Producer, Pacer, Stopping

-----------------------------------------------------------------------------
(* The tasks.                                                               *)

LEMMA NobodyIs ==
    ASSUME cleaning \in Cleaner
    PROVE  /\ Nobody.by = "none" /\ Nobody.id = 0
           /\ cleaning = Nobody <=> cleaning.by = "none" /\ cleaning.id = 0
BY DEF Cleaner, Nobody

LEMMA StopDoes ==
    ASSUME TypeOK, NEW b \in Stoppers, Stop(b)
    PROVE  /\ \A s \in Ids : s # entry => UNCHANGED <<prod[s], waits[s], pacer[s]>>
           /\ \A c \in Stoppers : c # b => stopper'[c] = stopper[c]
           /\ odd \subseteq odd'
           /\ entry = 0 => stopper'[b] = "after" /\ UNCHANGED <<prod, waits, pacer, keepalive, cleaning, odd>>
           /\ entry # 0 =>
                /\ prod[entry] \in {"read", "put", "end"} => prod'[entry] = "close"
                /\ prod[entry] \in {"close", "drain"} => prod'[entry] = "drain"
                /\ prod[entry] \in {"none", "grace", "done"} => prod'[entry] = "done"
                /\ waits'[entry] = IF prod[entry] = "close" THEN entry ELSE waits[entry]
                /\ pacer'[entry] = "done" /\ keepalive' = 0
           /\ entry # 0 /\ cleaning = Nobody =>
                /\ cleaning'.by = b /\ cleaning'.id = entry
                /\ stopper'[b] = "grace" /\ UNCHANGED <<cur, odd>>
           /\ entry # 0 /\ cleaning # Nobody => stopper'[b] = "after"
           /\ entry # 0 /\ cleaning # Nobody /\ prod[entry] = "grace" =>
                cleaning' = Nobody /\ "aborted" \in odd'
           /\ entry # 0 /\ cleaning # Nobody /\ prod[entry] # "grace" => UNCHANGED <<cleaning, odd>>
           /\ entry = 0 \/ cleaning # Nobody =>
                cur' = IF b \in Bargers /\ mode # "pipeline" THEN 0 ELSE cur
<1>1. prod \in [Ids -> ProducerAt] /\ pacer \in [Ids -> {"none", "run", "done"}]
      /\ waits \in [Ids -> 0 .. used] /\ stopper \in [Stoppers -> {"idle", "grace", "after"}]
      /\ entry \in {0} \cup Ids
  BY StreamingAssumption DEF TypeOK, EngineType, TaskType, Ids
<1>2. CASE entry = 0
  BY <1>1, <1>2 DEF Stop, Returned, Ids
<1>3. CASE entry # 0 /\ cleaning = Nobody
  BY <1>1, <1>3 DEF Stop, Cancelled
<1>4. CASE entry # 0 /\ cleaning # Nobody
  BY <1>1, <1>4 DEF Stop, Cancelled, Returned
<1> QED
  BY <1>2, <1>3, <1>4

LEMMA DrainedDoes ==
    ASSUME TypeOK, NEW r \in Ids, Drained(r)
    PROVE  /\ prod[r] = "drain" /\ keepalive' = 0
           /\ \A s \in Ids : s # r => prod'[s] = prod[s]
           /\ \A s \in Ids : pacer'[s] = IF s = waits[r] THEN "done" ELSE pacer[s]
           /\ cleaning = Nobody => prod'[r] = "grace" /\ cleaning'.by = "producer" /\ cleaning'.id = r
           /\ cleaning # Nobody => prod'[r] = "done" /\ cleaning' = cleaning
           /\ UNCHANGED <<engine, q, entry, jb, waits, failed, tokens, stopper, odd>>
<1>1. prod \in [Ids -> ProducerAt] /\ pacer \in [Ids -> {"none", "run", "done"}] /\ 0 \notin Ids
  BY DEF TypeOK, TaskType, Ids
<1> QED
  BY <1>1 DEF Drained

LEMMA FreshKeeps ==
    ASSUME TypeOK, Fresh, Kinds
    PROVE  Fresh'
<1>1. prod \in [Ids -> ProducerAt] /\ pacer \in [Ids -> {"none", "run", "done"}]
      /\ used \in Nat /\ entry \in 0 .. used /\ waits \in [Ids -> 0 .. used] /\ entry \in {0} \cup Ids
      /\ 0 \notin Ids /\ \A r \in Ids : waits[r] \in {0} \cup Ids
  BY StreamingAssumption DEF TypeOK, EngineType, TaskType, Ids
<1> USE DEF Fresh
<1>2. CASE Rests
  BY <1>1, <1>2 DEF Rests, Ids
<1>3. ASSUME NEW r \in Ids, Registers(r)
      PROVE  Fresh'
  BY <1>1, <1>3 DEF Registers, Ids
<1>4. ASSUME NEW r \in Ids, Reads(r)
      PROVE  Fresh'
  BY <1>1, <1>4 DEF Reads, engine
<1>5. ASSUME NEW r \in Ids, PutsSentinel(r)
      PROVE  Fresh'
  BY <1>1, <1>5 DEF PutsSentinel, engine
<1>6. ASSUME NEW r \in Ids, Drained(r)
      PROVE  Fresh'
  <2>1. /\ prod[r] = "drain" /\ prod'[r] \in {"grace", "done"}
        /\ \A s \in Ids : s # r => prod'[s] = prod[s]
        /\ \A s \in Ids : pacer'[s] = IF s = waits[r] THEN "done" ELSE pacer[s]
        /\ UNCHANGED <<used, entry, waits>>
    BY <1>6, DrainedDoes DEF engine
  <2> QED
    BY <1>1, <2>1
<1>7. ASSUME NEW r \in Ids, ProducerCleans(r)
      PROVE  Fresh'
  BY <1>1, <1>7 DEF ProducerCleans, Cleaned, engine
<1>8. CASE Paces
  BY <1>1, <1>8 DEF Paces, engine
<1>9. ASSUME NEW b \in Stoppers, StopperCleans(b)
      PROVE  Fresh'
  BY <1>1, <1>9 DEF StopperCleans, Cleaned, Returned
<1>10. ASSUME NEW b \in Stoppers, Stops(b)
       PROVE  Fresh'
  BY <1>1, <1>10, StopDoes DEF Stops, ProducerAt
<1>11. CASE SessionRemoved
  BY <1>1, <1>11 DEF SessionRemoved
<1> QED
  BY <1>2, <1>3, <1>4, <1>5, <1>6, <1>7, <1>8, <1>9, <1>10, <1>11 DEF Kinds

LEMMA CleanerKeeps ==
    ASSUME TypeOK, Fresh, OneCleaner, StoppersKnown, Kinds
    PROVE  OneCleaner'
<1>1. prod \in [Ids -> ProducerAt] /\ cleaning \in Cleaner /\ 0 \notin Ids
      /\ entry \in {0} \cup Ids /\ stopper \in [Stoppers -> {"idle", "grace", "after"}]
  BY StreamingAssumption DEF TypeOK, EngineType, TaskType, Ids
<1>2. /\ Nobody.by = "none" /\ Nobody.id = 0
      /\ cleaning = Nobody <=> cleaning.by = "none"
      /\ cleaning.by \in Stoppers \cup {"producer", "none"}
  BY <1>1, NobodyIs DEF OneCleaner, Cleaner
<1> USE BargersDiffer DEF OneCleaner
<1>3. CASE Rests
  BY <1>1, <1>3 DEF Rests
<1>4. ASSUME NEW r \in Ids, Registers(r)
      PROVE  OneCleaner'
  <2>1. prod[r] = "none"
    BY <1>1, <1>4 DEF Registers, Fresh, Ids, TypeOK, EngineType
  <2>2. /\ \A s \in Ids : s # r => prod'[s] = prod[s]
        /\ prod'[r] = "read" /\ UNCHANGED <<cleaning, stopper>>
    BY <1>1, <1>4 DEF Registers
  <2> QED
    BY <2>1, <2>2
<1>5. ASSUME NEW r \in Ids, Reads(r) \/ PutsSentinel(r)
      PROVE  OneCleaner'
  <2>1. /\ \A s \in Ids : s # r => prod'[s] = prod[s]
        /\ prod'[r] # "grace" /\ prod[r] # "grace" /\ UNCHANGED <<cleaning, stopper>>
    BY <1>1, <1>5 DEF Reads, PutsSentinel
  <2> QED
    BY <2>1
<1>6. ASSUME NEW r \in Ids, Drained(r)
      PROVE  OneCleaner'
  <2>1. CASE cleaning = Nobody
    BY <1>1, <1>2, <1>6, <2>1, DrainedDoes
  <2>2. CASE cleaning # Nobody
    BY <1>1, <1>6, <2>2, DrainedDoes
  <2> QED
    BY <2>1, <2>2
<1>7. ASSUME NEW r \in Ids, ProducerCleans(r)
      PROVE  OneCleaner'
  <2>1. /\ \A s \in Ids : s # r => prod'[s] = prod[s]
        /\ prod'[r] = "done" /\ prod[r] = "grace" /\ cleaning' = Nobody /\ UNCHANGED stopper
    BY <1>1, <1>7 DEF ProducerCleans, Cleaned
  <2> QED
    BY <1>2, <2>1
<1>8. CASE Paces
  BY <1>1, <1>8 DEF Paces
<1>9. ASSUME NEW b \in Stoppers, StopperCleans(b)
      PROVE  OneCleaner'
  <2>1. /\ \A c \in Stoppers : c # b => stopper'[c] = stopper[c]
        /\ stopper[b] = "grace" /\ stopper'[b] = "after" /\ cleaning' = Nobody /\ UNCHANGED prod
    BY <1>1, <1>9 DEF StopperCleans, Cleaned, Returned
  <2> QED
    BY <1>2, <2>1
<1>10. ASSUME NEW b \in Stoppers, Stops(b)
       PROVE  OneCleaner'
  <2>1. Stop(b) /\ stopper[b] # "grace" /\ UNCHANGED entry
    BY <1>10 DEF Stops
  <2>2. CASE entry = 0
    BY <1>1, <2>1, <2>2, StopDoes
  <2>3. CASE entry # 0 /\ cleaning = Nobody
    BY <1>1, <1>2, <2>1, <2>3, StopDoes DEF ProducerAt
  <2>4. CASE entry # 0 /\ cleaning # Nobody
    BY <1>1, <1>2, <2>1, <2>4, StopDoes DEF ProducerAt
  <2> QED
    BY <2>2, <2>3, <2>4
<1>11. CASE SessionRemoved
  <2>1. /\ UNCHANGED prod
        /\ stopper["end"] = "after" /\ stopper'["end"] = "idle" /\ stopper'["pipe"] = "idle"
        /\ \A b \in Stoppers : b \notin {"end", "pipe"} => stopper'[b] = stopper[b]
        /\ cleaning' = IF stopper["pipe"] = "grace" THEN Nobody ELSE cleaning
    BY <1>1, <1>11 DEF SessionRemoved, Stoppers
  <2>2. "end" \in Stoppers /\ "pipe" \in Stoppers
    BY DEF Stoppers
  <2> QED
    BY <1>1, <1>2, <2>1, <2>2
<1> QED
  BY <1>3, <1>4, <1>5, <1>6, <1>7, <1>8, <1>9, <1>10, <1>11 DEF Kinds

LEMMA CancelledFirstKeeps ==
    ASSUME TypeOK, Fresh, OneCleaner, CancelledFirst, Kinds
    PROVE  CancelledFirst'
<1>1. prod \in [Ids -> ProducerAt] /\ pacer \in [Ids -> {"none", "run", "done"}]
      /\ cleaning \in Cleaner /\ 0 \notin Ids /\ entry \in {0} \cup Ids
  BY StreamingAssumption DEF TypeOK, EngineType, TaskType, Ids
<1>2. /\ Nobody.by = "none" /\ Nobody.id = 0
      /\ cleaning = Nobody <=> cleaning.by = "none"
      /\ cleaning.by # "none" => cleaning.id \in Ids
      /\ Nobody.by \notin Stoppers
  BY <1>1, NobodyIs, BargersDiffer DEF OneCleaner, Cleaner
<1> USE BargersDiffer DEF CancelledFirst
<1>3. CASE Rests
  BY <1>1, <1>3 DEF Rests
<1>4. ASSUME NEW r \in Ids, Registers(r)
      PROVE  CancelledFirst'
  <2>1. prod[r] = "none"
    BY <1>1, <1>4 DEF Registers, Fresh, Ids, TypeOK, EngineType
  <2>2. /\ \A s \in Ids : s # r => prod'[s] = prod[s] /\ pacer'[s] = pacer[s]
        /\ prod'[r] = "read" /\ UNCHANGED cleaning
    BY <1>1, <1>4 DEF Registers
  <2> QED
    BY <1>2, <2>1, <2>2
<1>5. ASSUME NEW r \in Ids, Reads(r)
      PROVE  CancelledFirst'
  <2>1. /\ \A s \in Ids : s # r => prod'[s] = prod[s]
        /\ prod[r] \in {"read", "put"} /\ prod'[r] # "close" /\ UNCHANGED <<pacer, cleaning>>
    BY <1>1, <1>5 DEF Reads
  <2> QED
    BY <1>2, <2>1
<1>6. ASSUME NEW r \in Ids, PutsSentinel(r)
      PROVE  CancelledFirst'
  <2>1. /\ \A s \in Ids : s # r => prod'[s] = prod[s]
        /\ prod'[r] = "drain" /\ UNCHANGED <<pacer, cleaning>>
    BY <1>1, <1>6 DEF PutsSentinel
  <2> QED
    BY <1>2, <2>1
<1>7. ASSUME NEW r \in Ids, Drained(r)
      PROVE  CancelledFirst'
  <2>1. /\ \A s \in Ids : s # r => prod'[s] = prod[s]
        /\ \A s \in Ids : pacer[s] = "done" => pacer'[s] = "done"
        /\ prod'[r] \in {"grace", "done"}
    BY <1>7, DrainedDoes
  <2>2. CASE cleaning = Nobody
    BY <1>2, <1>7, <2>1, <2>2, DrainedDoes
  <2>3. CASE cleaning # Nobody
    BY <1>2, <1>7, <2>1, <2>3, DrainedDoes
  <2> QED
    BY <2>2, <2>3
<1>8. ASSUME NEW r \in Ids, ProducerCleans(r)
      PROVE  CancelledFirst'
  <2>1. /\ \A s \in Ids : s # r => prod'[s] = prod[s]
        /\ prod'[r] = "done" /\ cleaning' = Nobody /\ UNCHANGED pacer
    BY <1>1, <1>8 DEF ProducerCleans, Cleaned
  <2> QED
    BY <1>2, <2>1
<1>9. CASE Paces
  BY <1>1, <1>2, <1>9 DEF Paces
<1>10. ASSUME NEW b \in Stoppers, StopperCleans(b)
       PROVE  CancelledFirst'
  <2>1. cleaning' = Nobody /\ UNCHANGED <<prod, pacer>>
    BY <1>10 DEF StopperCleans, Cleaned
  <2> QED
    BY <1>2, <2>1
<1>11. ASSUME NEW b \in Stoppers, Stops(b)
       PROVE  CancelledFirst'
  <2>1. Stop(b) /\ UNCHANGED entry
    BY <1>11 DEF Stops
  <2>2. CASE entry = 0
    BY <1>1, <2>1, <2>2, StopDoes
  <2>3. CASE entry # 0 /\ cleaning = Nobody
    <3>1. prod'[entry] \in {"close", "drain", "done"} /\ pacer'[entry] = "done"
          /\ \A s \in Ids : s # entry => prod'[s] = prod[s] /\ pacer'[s] = pacer[s]
      BY <1>1, <2>1, <2>3, StopDoes DEF ProducerAt
    <3> QED
      BY <1>1, <2>1, <2>3, <3>1, StopDoes
  <2>4. CASE entry # 0 /\ cleaning # Nobody
    <3>1. prod'[entry] \in {"close", "drain", "done"} /\ pacer'[entry] = "done"
          /\ \A s \in Ids : s # entry => prod'[s] = prod[s] /\ pacer'[s] = pacer[s]
      BY <1>1, <2>1, <2>4, StopDoes DEF ProducerAt
    <3> QED
      BY <1>1, <1>2, <2>1, <2>4, <3>1, StopDoes
  <2> QED
    BY <2>2, <2>3, <2>4
<1>12. CASE SessionRemoved
  <2>1. UNCHANGED <<prod, pacer>> /\ cleaning' \in {cleaning, Nobody}
    BY <1>12 DEF SessionRemoved
  <2> QED
    BY <1>2, <2>1
<1> QED
  BY <1>3, <1>4, <1>5, <1>6, <1>7, <1>8, <1>9, <1>10, <1>11, <1>12 DEF Kinds

LEMMA StoppersKnownKeeps ==
    ASSUME TypeOK, StoppersKnown, Kinds
    PROVE  StoppersKnown'
<1>1. stopper \in [Stoppers -> {"idle", "grace", "after"}] /\ "end" \in Stoppers /\ "pipe" \in Stoppers
  BY DEF TypeOK, TaskType, Stoppers
<1> USE DEF StoppersKnown
<1>2. CASE Rests
  BY <1>1, <1>2 DEF Rests
<1>3. ASSUME NEW r \in Ids, Registers(r)
      PROVE  StoppersKnown'
  BY <1>1, <1>3 DEF Registers
<1>4. ASSUME NEW r \in Ids, Reads(r) \/ PutsSentinel(r) \/ Drained(r) \/ ProducerCleans(r)
      PROVE  StoppersKnown'
  BY <1>1, <1>4 DEF Reads, PutsSentinel, Drained, ProducerCleans, engine
<1>5. CASE Paces
  BY <1>1, <1>5 DEF Paces, engine
<1>6. ASSUME NEW b \in Stoppers, StopperCleans(b)
      PROVE  StoppersKnown'
  BY <1>1, <1>6 DEF StopperCleans, Returned
<1>7. ASSUME NEW b \in Stoppers, Stops(b)
      PROVE  StoppersKnown'
  <2>1. \A c \in Stoppers : c # b => stopper'[c] = stopper[c]
    BY <1>7, StopDoes DEF Stops
  <2> QED
    BY <1>1, <1>7, <2>1, BargersDiffer DEF Stops
<1>8. CASE SessionRemoved
  BY <1>1, <1>8 DEF SessionRemoved
<1> QED
  BY <1>2, <1>3, <1>4, <1>5, <1>6, <1>7, <1>8 DEF Kinds

LEMMA ContinuousKeeps ==
    ASSUME TypeOK, CancelledFirst, Continuous, Kinds
    PROVE  Continuous'
<1> SUFFICES ASSUME mode' = "continuous" PROVE Continuous'
  BY DEF Continuous
<1>1. prod \in [Ids -> ProducerAt] /\ pacer \in [Ids -> {"none", "run", "done"}]
      /\ 0 \notin Ids /\ entry \in {0} \cup Ids
  BY StreamingAssumption DEF TypeOK, EngineType, TaskType, Ids
<1>2. mode = "continuous"
  BY DEF Kinds, Rests, Registers, Reads, PutsSentinel, Drained, ProducerCleans, Paces, StopperCleans, Stops,
         SessionRemoved, engine
<1> USE <1>2 DEF Continuous
<1>3. CASE Rests
  BY <1>1, <1>3 DEF Rests
<1>4. ASSUME NEW r \in Ids, Registers(r)
      PROVE  Continuous'
  BY <1>1, <1>4 DEF Registers
<1>5. ASSUME NEW r \in Ids, Reads(r)
      PROVE  Continuous'
  BY <1>1, <1>5 DEF Reads
<1>6. ASSUME NEW r \in Ids, PutsSentinel(r)
      PROVE  Continuous'
  BY <1>1, <1>6 DEF PutsSentinel, CancelledFirst
<1>7. ASSUME NEW r \in Ids, Drained(r)
      PROVE  Continuous'
  <2>1. /\ \A s \in Ids : prod'[s] = prod[s] \/ prod'[s] \in {"grace", "done"}
        /\ \A s \in Ids : pacer[s] = "done" => pacer'[s] = "done"
        /\ UNCHANGED q
    BY <1>7, DrainedDoes
  <2> QED
    BY <2>1
<1>8. ASSUME NEW r \in Ids, ProducerCleans(r)
      PROVE  Continuous'
  BY <1>1, <1>8 DEF ProducerCleans
<1>9. CASE Paces
  BY <1>1, <1>9 DEF Paces
<1>10. ASSUME NEW b \in Stoppers, StopperCleans(b)
       PROVE  Continuous'
  BY <1>1, <1>10 DEF StopperCleans
<1>11. ASSUME NEW b \in Stoppers, Stops(b)
       PROVE  Continuous'
  <2>1. Stop(b) /\ UNCHANGED <<entry, q>>
    BY <1>11 DEF Stops
  <2>2. CASE entry = 0
    BY <1>1, <2>1, <2>2, StopDoes
  <2>3. CASE entry # 0
    <3>1. prod'[entry] # "end" /\ pacer'[entry] = "done"
          /\ \A s \in Ids : s # entry => prod'[s] = prod[s] /\ pacer'[s] = pacer[s]
      BY <1>1, <2>1, <2>3, StopDoes DEF ProducerAt
    <3> QED
      BY <2>1, <3>1
  <2> QED
    BY <2>2, <2>3
<1>12. CASE SessionRemoved
  BY <1>1, <1>12 DEF SessionRemoved
<1> QED
  BY <1>3, <1>4, <1>5, <1>6, <1>7, <1>8, <1>9, <1>10, <1>11, <1>12 DEF Kinds

(* What may be left of a stream: see Leftover. *)
Left(r) ==
    \/ prod[r] \in {"none", "done"}
    \/ prod[r] = "close" /\ ~Room(r)
    \/ ~Apart /\ prod[r] \in {"read", "put"}

LEMMA LeftoverKeeps ==
    ASSUME TypeOK, Fresh, OneCleaner, CancelledFirst, Continuous, Leftover, Registered, Kinds
    PROVE  Leftover'
<1> SUFFICES ASSUME mode' = "continuous" \/ Apart'
             PROVE  /\ \A r \in Ids : prod'[r] = "drain" => waits'[r] = r
                    /\ \A r \in Ids : r # entry' => Left(r)'
  BY DEF Leftover, Left
<1>1. /\ prod \in [Ids -> ProducerAt] /\ pacer \in [Ids -> {"none", "run", "done"}]
      /\ waits \in [Ids -> 0 .. used] /\ jb \in [Ids -> Frames]
      /\ cleaning \in Cleaner /\ 0 \notin Ids /\ entry \in {0} \cup Ids
  BY StreamingAssumption DEF TypeOK, EngineType, TaskType, BufferType, Ids
<1>2. odd \subseteq odd' /\ mode' = mode
  BY StopDoes DEF Kinds, Rests, Registers, Reads, PutsSentinel, Drained, ProducerCleans, Cleaned, Paces,
     StopperCleans, Returned, Stops, SessionRemoved, engine
<1>3. Apart' => Apart
  BY <1>2 DEF Apart
<1>4. /\ mode = "continuous" \/ Apart
      /\ \A r \in Ids : prod[r] = "drain" => waits[r] = r
      /\ \A r \in Ids : r # entry => Left(r)
  BY <1>2, <1>3 DEF Leftover, Left
<1>5. \A r \in Ids : UNCHANGED <<prod[r], jb[r]>> /\ Left(r) => Left(r)'
  BY <1>3 DEF Left, Room
<1>6. CASE Rests
  BY <1>1, <1>4, <1>5, <1>6 DEF Rests
<1>7. ASSUME NEW r \in Ids, Registers(r)
      PROVE  /\ \A s \in Ids : prod'[s] = "drain" => waits'[s] = s
             /\ \A s \in Ids : s # entry' => Left(s)'
  <2>1. /\ \A s \in Ids : s # r => prod'[s] = prod[s]
        /\ prod'[r] = "read" /\ UNCHANGED <<jb, waits>> /\ entry' = r
    BY <1>1, <1>7 DEF Registers
  <2>2. entry \in Ids => Left(entry)
    BY <1>7 DEF Registers, Running, Left, Ids
  <2> QED
    BY <1>1, <1>4, <1>5, <2>1, <2>2
<1>8. ASSUME NEW r \in Ids, Reads(r)
      PROVE  /\ \A s \in Ids : prod'[s] = "drain" => waits'[s] = s
             /\ \A s \in Ids : s # entry' => Left(s)'
  <2>1. /\ \A s \in Ids : s # r => prod'[s] = prod[s]
        /\ \A s \in Ids : s # r /\ s # entry => jb'[s] = jb[s]
        /\ prod[r] \in {"read", "put"} /\ prod'[r] \in {"read", "put", "end"}
        /\ mode = "continuous" => prod'[r] # "end"
        /\ UNCHANGED <<waits, entry>>
    BY <1>1, <1>8 DEF Reads, Continuous
  <2>2. r # entry => mode = "continuous" /\ ~Apart
    BY <1>4, <2>1 DEF Left
  <2>3. r # entry => Left(r)'
    BY <1>3, <2>1, <2>2 DEF Left
  <2> QED
    BY <1>4, <1>5, <2>1, <2>3
<1>9. ASSUME NEW r \in Ids, PutsSentinel(r)
      PROVE  /\ \A s \in Ids : prod'[s] = "drain" => waits'[s] = s
             /\ \A s \in Ids : s # entry' => Left(s)'
  <2>1. r = entry
    BY <1>4, <1>9 DEF Left, PutsSentinel
  <2>2. /\ \A s \in Ids : s # r => UNCHANGED <<prod[s], waits[s], jb[s]>>
        /\ waits'[r] = entry /\ UNCHANGED entry
    BY <1>1, <1>9 DEF PutsSentinel
  <2> QED
    BY <1>4, <1>5, <2>1, <2>2
<1>10. ASSUME NEW r \in Ids, Drained(r)
       PROVE  /\ \A s \in Ids : prod'[s] = "drain" => waits'[s] = s
              /\ \A s \in Ids : s # entry' => Left(s)'
  <2>1. /\ \A s \in Ids : s # r => prod'[s] = prod[s]
        /\ prod[r] = "drain" /\ prod'[r] # "drain" /\ UNCHANGED <<jb, waits, entry>>
    BY <1>10, DrainedDoes
  <2>2. r = entry
    BY <1>4, <2>1 DEF Left
  <2> QED
    BY <1>4, <1>5, <2>1, <2>2
<1>11. ASSUME NEW r \in Ids, ProducerCleans(r)
       PROVE  /\ \A s \in Ids : prod'[s] = "drain" => waits'[s] = s
              /\ \A s \in Ids : s # entry' => Left(s)'
  <2>1. /\ \A s \in Ids : s # r => prod'[s] = prod[s]
        /\ prod[r] = "grace" /\ prod'[r] = "done" /\ UNCHANGED <<jb, waits>>
    BY <1>1, <1>11 DEF ProducerCleans
  <2>2. r = entry
    BY <1>4, <2>1 DEF Left
  <2>3. Left(r)'
    BY <2>1 DEF Left
  <2> QED
    BY <1>4, <1>5, <2>1, <2>2, <2>3
<1>12. CASE Paces
  <2>1. /\ \A s \in Ids : s # entry /\ pacer[s] # "run" => jb'[s] = jb[s]
        /\ UNCHANGED <<prod, waits, entry>>
    BY <1>12 DEF Paces
  <2>2. \A s \in Ids : prod[s] = "close" => pacer[s] # "run"
    BY DEF CancelledFirst
  <2>3. ASSUME NEW s \in Ids, s # entry
        PROVE  Left(s)'
    <3>1. CASE prod[s] = "close"
      BY <1>4, <1>5, <2>1, <2>2, <2>3, <3>1
    <3>2. CASE prod[s] # "close"
      BY <1>3, <1>4, <2>1, <2>3, <3>2 DEF Left
    <3> QED
      BY <3>1, <3>2
  <2> QED
    BY <1>4, <2>1, <2>3
<1>13. ASSUME NEW b \in Stoppers, StopperCleans(b)
       PROVE  /\ \A s \in Ids : prod'[s] = "drain" => waits'[s] = s
              /\ \A s \in Ids : s # entry' => Left(s)'
  <2>1. UNCHANGED <<prod, jb, waits>> /\ stopper[b] = "grace" /\ Calm
    BY <1>13 DEF StopperCleans
  <2>2. ASSUME entry \in Ids
        PROVE  Left(entry)
    <3>1. cleaning.by = b /\ prod[entry] # "grace" /\ cleaning.by # "none"
      BY <2>1, <2>2, BargersDiffer DEF OneCleaner
    <3>2. prod[entry] # "drain" \/ pacer[entry] # "done"
      BY <1>4, <2>1, <2>2 DEF Calm, DrainOver
    <3>3. prod[entry] # "close" \/ ~Room(entry)
      BY <2>1, <2>2 DEF Calm
    <3>4. CASE Apart
      <4>1. cleaning # Nobody
        BY <3>1 DEF Nobody
      <4>2. prod[entry] \in {"close", "drain", "done"} /\ pacer[entry] = "done"
        BY <3>1, <3>4, <4>1 DEF Registered, CancelledFirst
      <4> QED
        BY <3>2, <3>3, <4>2 DEF Left
    <3>5. CASE ~Apart
      <4>1. prod[entry] # "end" /\ (prod[entry] = "drain" => pacer[entry] = "done")
        BY <1>4, <2>2, <3>5 DEF Continuous
      <4>2. prod[entry] \in ProducerAt
        BY <1>1, <2>2
      <4> QED
        BY <3>1, <3>2, <3>3, <3>5, <4>1, <4>2 DEF Left, ProducerAt
    <3> QED
      BY <3>4, <3>5
  <2> QED
    BY <1>4, <1>5, <2>1, <2>2
<1>14. ASSUME NEW b \in Stoppers, Stops(b)
       PROVE  /\ \A s \in Ids : prod'[s] = "drain" => waits'[s] = s
              /\ \A s \in Ids : s # entry' => Left(s)'
  <2>1. Stop(b) /\ UNCHANGED <<entry, jb>>
    BY <1>14 DEF Stops
  <2>2. \A s \in Ids : s # entry => UNCHANGED <<prod[s], waits[s]>>
    BY <2>1, StopDoes
  <2>3. entry \in Ids /\ prod'[entry] = "drain" => waits'[entry] = entry
    BY <1>1, <1>4, <2>1, StopDoes DEF ProducerAt
  <2> QED
    BY <1>4, <1>5, <2>1, <2>2, <2>3
<1>15. CASE SessionRemoved
  BY <1>4, <1>5, <1>15 DEF SessionRemoved
<1> QED
  BY <1>6, <1>7, <1>8, <1>9, <1>10, <1>11, <1>12, <1>13, <1>14, <1>15 DEF Kinds

LEMMA RegisteredKeeps ==
    ASSUME TypeOK, Fresh, OneCleaner, CancelledFirst, Leftover, Registered, Kinds
    PROVE  Registered'
<1> SUFFICES ASSUME Apart' PROVE Registered'
  BY DEF Registered
<1>1. /\ prod \in [Ids -> ProducerAt] /\ pacer \in [Ids -> {"none", "run", "done"}]
      /\ cleaning \in Cleaner /\ 0 \notin Ids /\ entry \in {0} \cup Ids
  BY StreamingAssumption DEF TypeOK, EngineType, TaskType, BufferType, Ids
<1>2. odd \subseteq odd'
  BY StopDoes DEF Kinds, Rests, Registers, Reads, PutsSentinel, Drained, ProducerCleans, Cleaned, Paces,
     StopperCleans, Returned, Stops, SessionRemoved, engine
<1>3. Apart
  BY <1>2 DEF Apart
<1>4. /\ cleaning # Nobody => cleaning.id = entry /\ keepalive = 0
      /\ keepalive \in {0, entry}
      /\ \A r \in Ids : pacer[r] = "run" => r = entry /\ prod[r] \notin {"grace", "done"}
  BY <1>3 DEF Registered
<1>5. /\ cleaning = Nobody <=> cleaning.by = "none"
      /\ cleaning.by \in Stoppers => entry # 0 /\ pacer[entry] = "done"
  BY <1>1, <1>4, NobodyIs, BargersDiffer DEF OneCleaner, CancelledFirst
<1>6. \A r \in Ids : prod[r] \in {"drain", "grace"} => r = entry /\ (prod[r] = "drain" => waits[r] = r)
  BY <1>3 DEF Leftover
<1> USE DEF Registered
<1>7. CASE Rests
  BY <1>4, <1>7 DEF Rests
<1>8. ASSUME NEW r \in Ids, Registers(r)
      PROVE  Registered'
  <2>1. /\ cleaning = Nobody /\ UNCHANGED cleaning /\ keepalive' = r /\ entry' = r
        /\ \A s \in Ids : s # r => prod'[s] = prod[s] /\ pacer'[s] = pacer[s]
        /\ prod'[r] = "read" /\ entry # 0 => prod[entry] \in {"none", "done"}
    BY <1>1, <1>8 DEF Registers, Running, Apart
  <2>2. \A s \in Ids : pacer[s] # "run"
    BY <1>1, <1>4, <1>8, <2>1 DEF Registers, Running, Fresh
  <2>3. prod'[r] = "read"
    BY <1>1, <1>8 DEF Registers
  <2> QED
    BY <2>1, <2>2, <2>3
<1>9. ASSUME NEW r \in Ids, Reads(r)
      PROVE  Registered'
  BY <1>1, <1>4, <1>9 DEF Reads
<1>10. ASSUME NEW r \in Ids, PutsSentinel(r)
       PROVE  Registered'
  BY <1>1, <1>4, <1>10 DEF PutsSentinel
<1>11. ASSUME NEW r \in Ids, Drained(r)
       PROVE  Registered'
  <2>1. /\ r = entry /\ waits[r] = r /\ UNCHANGED entry /\ keepalive' = 0
        /\ \A s \in Ids : s # r => prod'[s] = prod[s]
        /\ \A s \in Ids : pacer'[s] = IF s = r THEN "done" ELSE pacer[s]
        /\ cleaning'.id = r
    BY <1>4, <1>6, <1>11, DrainedDoes
  <2> QED
    BY <1>4, <2>1
<1>12. ASSUME NEW r \in Ids, ProducerCleans(r)
       PROVE  Registered'
  <2>1. /\ prod[r] = "grace" /\ entry' = 0 /\ cleaning' = Nobody /\ UNCHANGED <<pacer, keepalive>>
    BY <1>12 DEF ProducerCleans, Cleaned
  <2>2. r = entry /\ cleaning # Nobody
    BY <1>1, <1>5, <1>6, <2>1 DEF OneCleaner
  <2>3. \A s \in Ids : pacer[s] # "run"
    BY <1>4, <2>1, <2>2
  <2> QED
    BY <1>4, <2>1, <2>2, <2>3
<1>13. CASE Paces
  BY <1>4, <1>13 DEF Paces
<1>14. ASSUME NEW b \in Stoppers, StopperCleans(b)
       PROVE  Registered'
  <2>1. /\ stopper[b] = "grace" /\ entry' = 0 /\ cleaning' = Nobody /\ UNCHANGED <<pacer, keepalive>>
    BY <1>14 DEF StopperCleans, Cleaned
  <2>2. cleaning.by = b /\ cleaning # Nobody
    BY <1>5, <2>1, BargersDiffer DEF OneCleaner
  <2>3. \A s \in Ids : pacer[s] # "run"
    BY <1>4, <1>5, <2>2
  <2> QED
    BY <1>4, <2>1, <2>2, <2>3
<1>15. ASSUME NEW b \in Stoppers, Stops(b)
       PROVE  Registered'
  <2>1. Stop(b) /\ UNCHANGED entry
    BY <1>15 DEF Stops
  <2>2. CASE entry = 0
    BY <1>4, <2>1, <2>2, StopDoes
  <2>3. CASE entry # 0 /\ cleaning = Nobody
    <3>1. /\ cleaning'.id = entry /\ keepalive' = 0 /\ pacer'[entry] = "done"
          /\ \A s \in Ids : s # entry => pacer'[s] = pacer[s]
      BY <2>1, <2>3, StopDoes
    <3> QED
      BY <1>4, <2>1, <3>1
  <2>4. CASE entry # 0 /\ cleaning # Nobody
    <3>1. /\ cleaning' \in {cleaning, Nobody} /\ keepalive' = 0 /\ pacer'[entry] = "done"
          /\ \A s \in Ids : s # entry => pacer'[s] = pacer[s]
      BY <2>1, <2>4, StopDoes
    <3> QED
      BY <1>4, <2>1, <3>1
  <2> QED
    BY <2>2, <2>3, <2>4
<1>16. CASE SessionRemoved
  BY <1>4, <1>16 DEF SessionRemoved
<1> QED
  BY <1>7, <1>8, <1>9, <1>10, <1>11, <1>12, <1>13, <1>14, <1>15, <1>16 DEF Kinds

-----------------------------------------------------------------------------
(* What the properties say of the registered stream.                        *)

LEMMA EntryRunsKeeps ==
    ASSUME TypeOK, Tasks, EntryRuns, Kinds
    PROVE  EntryRuns'
<1> SUFFICES ASSUME odd' \subseteq {"joined", "late"}, entry' # 0
             PROVE  Running(entry)' \/ cleaning'.id = entry'
  BY DEF EntryRuns
<1>1. /\ prod \in [Ids -> ProducerAt] /\ cleaning \in Cleaner /\ 0 \notin Ids /\ entry \in {0} \cup Ids
  BY StreamingAssumption DEF TypeOK, EngineType, TaskType, Ids
<1>2. odd \subseteq odd'
  BY StopDoes DEF Kinds, Rests, Registers, Reads, PutsSentinel, Drained, ProducerCleans, Cleaned, Paces,
     StopperCleans, Returned, Stops, SessionRemoved, engine
<1>3. Apart /\ odd \subseteq {"joined", "late"}
  BY <1>2 DEF Apart
<1>4. entry # 0 => entry \in Ids /\ (prod[entry] \notin {"none", "done"} \/ cleaning.id = entry)
  BY <1>1, <1>3 DEF EntryRuns, Running
<1>5. cleaning # Nobody => cleaning.id = entry
  BY <1>3 DEF Tasks, Registered
<1> USE DEF Running
<1>6. CASE Rests \/ Paces
  BY <1>4, <1>6 DEF Rests, Paces
<1>7. ASSUME NEW r \in Ids, Registers(r)
      PROVE  Running(entry)'
  BY <1>1, <1>7 DEF Registers
<1>8. ASSUME NEW r \in Ids, Reads(r) \/ PutsSentinel(r)
      PROVE  Running(entry)' \/ cleaning'.id = entry'
  <2>1. /\ prod'[r] \notin {"none", "done"} /\ UNCHANGED <<entry, cleaning>>
        /\ \A s \in Ids : s # r => prod'[s] = prod[s]
    BY <1>1, <1>8 DEF Reads, PutsSentinel
  <2> QED
    BY <1>4, <2>1
<1>9. ASSUME NEW r \in Ids, Drained(r)
      PROVE  Running(entry)' \/ cleaning'.id = entry'
  <2>1. UNCHANGED entry /\ \A s \in Ids : s # r => prod'[s] = prod[s]
    BY <1>9, DrainedDoes
  <2>2. CASE cleaning = Nobody
    <3>1. cleaning.id = 0
      BY <2>2 DEF Nobody
    <3> QED
      BY <1>1, <1>4, <1>9, <2>1, <2>2, <3>1, DrainedDoes
  <2>3. CASE cleaning # Nobody
    BY <1>5, <1>9, <2>1, <2>3, DrainedDoes
  <2> QED
    BY <2>2, <2>3
<1>10. ASSUME NEW r \in Ids, ProducerCleans(r)
       PROVE  FALSE
  BY <1>10 DEF ProducerCleans, Cleaned
<1>11. ASSUME NEW b \in Stoppers, Stops(b)
       PROVE  Running(entry)' \/ cleaning'.id = entry'
  <2>1. Stop(b) /\ UNCHANGED entry
    BY <1>11 DEF Stops
  <2>2. CASE cleaning = Nobody
    BY <2>1, <2>2, StopDoes
  <2>3. CASE cleaning # Nobody
    BY <1>5, <2>1, <2>3, StopDoes
  <2> QED
    BY <2>2, <2>3
<1>12. CASE SessionRemoved
  BY <1>4, <1>12 DEF SessionRemoved
<1>13. ASSUME NEW b \in Stoppers, StopperCleans(b)
       PROVE  FALSE
  BY <1>13 DEF StopperCleans, Cleaned
<1> QED
  BY <1>6, <1>7, <1>8, <1>9, <1>11, <1>10, <1>12, <1>13 DEF Kinds

LEMMA InUseKeeps ==
    ASSUME TypeOK, Tasks, InUse, Kinds
    PROVE  InUse'
<1> DEFINE Used == cur # 0 /\ entry = cur /\ prod[cur] \in {"read", "put"}
           Interrupted == \E b \in Bargers : stopper[b] = "grace"
<1> SUFFICES ASSUME mode' = "continuous", alive' = "up", cur' # 0 \/ Running(entry)'
             PROVE  Used' \/ Interrupted'
  BY DEF InUse
<1>1. /\ prod \in [Ids -> ProducerAt] /\ cleaning \in Cleaner /\ 0 \notin Ids /\ entry \in {0} \cup Ids
      /\ cur \in {0} \cup Ids /\ stopper \in [Stoppers -> {"idle", "grace", "after"}]
      /\ Bargers \subseteq Stoppers /\ "end" \in Stoppers /\ "pipe" \in Stoppers
  BY StreamingAssumption DEF TypeOK, EngineType, TaskType, Ids, Stoppers
<1>2. mode = "continuous" /\ alive = "up"
  BY DEF Kinds, Rests, Registers, Reads, PutsSentinel, Drained, ProducerCleans, Paces, StopperCleans, Stops,
         SessionRemoved, engine
<1>3. cur # 0 \/ Running(entry) => Used \/ Interrupted
  BY <1>2 DEF InUse
<1>4. /\ \A r \in Ids : r # entry =>
           \/ prod[r] \in {"none", "done"} \/ (prod[r] = "close" /\ ~Room(r)) \/ prod[r] \in {"read", "put"}
      /\ \A r \in Ids : prod[r] # "end"
  BY <1>2 DEF Tasks, Leftover, Continuous
<1>5. \A b \in Stoppers : stopper[b] = "grace" <=> cleaning.by = b
  BY DEF Tasks, OneCleaner
<1>6. stopper["end"] = "idle" /\ stopper["pipe"] = "idle"
  BY <1>2 DEF Tasks, StoppersKnown
<1>7. \A r \in Ids : prod[r] = "grace" <=> cleaning.by = "producer" /\ cleaning.id = r
  BY DEF Tasks, OneCleaner
<1> USE BargersDiffer DEF Running
<1>8. CASE Rests
  <2>1. Interrupted => Interrupted'
    BY <1>1, <1>8 DEF Rests
  <2> QED
    BY <1>2, <1>3, <1>8, <2>1 DEF Rests
<1>9. ASSUME NEW r \in Ids, Registers(r)
      PROVE  Used'
  BY <1>1, <1>9 DEF Registers
<1>10. ASSUME NEW r \in Ids, Reads(r)
       PROVE  Used' \/ Interrupted'
  <2>1. /\ \A s \in Ids : s # r => prod'[s] = prod[s]
        /\ prod[r] \in {"read", "put"} /\ prod'[r] \in {"read", "put"} /\ UNCHANGED <<cur, entry, stopper>>
    BY <1>1, <1>2, <1>4, <1>10 DEF Reads, engine, Tasks, Continuous
  <2> QED
    BY <1>1, <1>3, <2>1
<1>11. ASSUME NEW r \in Ids, PutsSentinel(r) \/ Drained(r)
       PROVE  Used' \/ Interrupted'
  <2>1. /\ \A s \in Ids : s # r => prod'[s] = prod[s]
        /\ prod[r] \notin {"read", "put", "none", "done"} /\ UNCHANGED <<cur, entry, stopper>>
    BY <1>1, <1>11, DrainedDoes DEF PutsSentinel, engine
  <2> QED
    BY <1>1, <1>3, <2>1
<1>12. ASSUME NEW r \in Ids, ProducerCleans(r)
       PROVE  Used' \/ Interrupted'
  <2>1. prod[r] = "grace" /\ entry' = 0 /\ UNCHANGED <<cur, stopper>>
    BY <1>12 DEF ProducerCleans, Cleaned, engine
  <2>2. r = entry
    BY <1>4, <2>1
  <2>3. Interrupted
    BY <1>3, <2>1, <2>2
  <2> QED
    BY <2>1, <2>3
<1>13. CASE Paces
  BY <1>3, <1>13 DEF Paces, engine
<1>14. ASSUME NEW b \in Stoppers, StopperCleans(b)
       PROVE  FALSE
  <2>1. b \in Bargers
    BY <1>6, <1>14 DEF StopperCleans, Stoppers
  <2>2. cur' = 0 /\ entry' = 0
    BY <1>2, <1>14, <2>1 DEF StopperCleans, Cleaned, Returned
  <2> QED
    BY <2>2
<1>15. ASSUME NEW b \in Stoppers, Stops(b)
       PROVE  Interrupted'
  <2>1. Stop(b) /\ UNCHANGED entry /\ b \in Bargers /\ stopper[b] # "grace"
    BY <1>2, <1>15 DEF Stops
  <2>2. CASE entry # 0 /\ cleaning = Nobody
    <3>1. stopper'[b] = "grace"
      BY <2>1, <2>2, StopDoes
    <3> QED
      BY <2>1, <3>1
  <2>3. CASE entry = 0
    <3>1. cur' = 0
      BY <1>2, <2>1, <2>3, StopDoes
    <3> QED
      BY <2>1, <2>3, <3>1
  <2>4. CASE entry # 0 /\ cleaning # Nobody
    <3>1. cur' = 0 /\ prod'[entry] \notin {"none", "done"}
      BY <1>2, <2>1, <2>4, StopDoes
    <3>2. prod[entry] \notin {"none", "grace", "done"}
      BY <1>1, <2>1, <2>4, <3>1, StopDoes
    <3>3. cleaning.by # "none"
      BY <1>1, <2>4, NobodyIs DEF Tasks, OneCleaner
    <3>4. cleaning.by # "producer"
      <4>1. cleaning.id \in {0} \cup Ids
        BY <1>1 DEF Cleaner
      <4>2. cleaning.id # 0
        BY <3>3 DEF Tasks, OneCleaner
      <4> QED
        BY <1>4, <1>7, <3>2, <4>1, <4>2
    <3>5. PICK c \in Bargers : cleaning.by = c
      BY <1>1, <1>5, <1>6, <3>3, <3>4 DEF Cleaner, Stoppers
    <3>6. stopper'[c] = "grace"
      BY <1>1, <1>5, <2>1, <3>5, StopDoes
    <3> QED
      BY <3>6
  <2> QED
    BY <2>2, <2>3, <2>4
<1>16. CASE SessionRemoved
  BY <1>2, <1>16 DEF SessionRemoved
<1> HIDE DEF Used, Interrupted
<1> QED
  BY <1>8, <1>9, <1>10, <1>11, <1>12, <1>13, <1>14, <1>15, <1>16 DEF Kinds

LEMMA StoppedByEndKeeps ==
    ASSUME TypeOK, Tasks, StoppedByEnd, Kinds
    PROVE  StoppedByEnd'
<1> SUFFICES ASSUME alive' # "up", odd' \subseteq {"joined"}
             PROVE  /\ keepalive' = 0 /\ (cleaning' = Nobody => entry' = 0)
                    /\ \A r \in Ids : prod'[r] \notin {"read", "put", "end"} /\ pacer'[r] # "run"
  BY DEF StoppedByEnd, Reading
<1>1. /\ prod \in [Ids -> ProducerAt] /\ pacer \in [Ids -> {"none", "run", "done"}]
      /\ 0 \notin Ids /\ entry \in {0} \cup Ids /\ alive \in {"up", "ending", "over"}
  BY StreamingAssumption DEF TypeOK, EngineType, TaskType, Ids
<1>2. odd \subseteq odd'
  BY StopDoes DEF Kinds, Rests, Registers, Reads, PutsSentinel, Drained, ProducerCleans, Cleaned, Paces,
     StopperCleans, Returned, Stops, SessionRemoved, engine
<1>3. Apart /\ odd \subseteq {"joined"}
  BY <1>2 DEF Apart
<1>4. alive # "up" => /\ keepalive = 0 /\ (cleaning = Nobody => entry = 0)
                      /\ \A r \in Ids : prod[r] \notin {"read", "put", "end"} /\ pacer[r] # "run"
  BY <1>3 DEF StoppedByEnd, Reading
<1>5. /\ \A r \in Ids : r # entry => prod[r] \notin {"read", "put", "end", "drain"} /\ pacer[r] # "run"
      /\ keepalive \in {0, entry}
  BY <1>3 DEF Tasks, Leftover, Registered
<1>6. CASE Rests \/ Paces \/ SessionRemoved
  BY <1>4, <1>6 DEF Rests, Paces, SessionRemoved, engine
<1>7. ASSUME NEW r \in Ids, Registers(r)
      PROVE  FALSE
  BY <1>1, <1>2, <1>7 DEF Registers
<1>8. ASSUME NEW r \in Ids, Reads(r)
      PROVE  FALSE
  BY <1>4, <1>8 DEF Reads, engine
<1>9. ASSUME NEW r \in Ids, PutsSentinel(r)
      PROVE  /\ keepalive' = 0 /\ (cleaning' = Nobody => entry' = 0)
             /\ \A s \in Ids : prod'[s] \notin {"read", "put", "end"} /\ pacer'[s] # "run"
  BY <1>1, <1>4, <1>9 DEF PutsSentinel, engine
<1>10. ASSUME NEW r \in Ids, Drained(r)
       PROVE  /\ keepalive' = 0 /\ (cleaning' = Nobody => entry' = 0)
              /\ \A s \in Ids : prod'[s] \notin {"read", "put", "end"} /\ pacer'[s] # "run"
  <2>1. alive # "up" /\ prod[r] = "drain"
    BY <1>10, DrainedDoes DEF engine
  <2>2. r = entry /\ cleaning # Nobody
    BY <1>1, <1>4, <1>5, <2>1
  <2>3. /\ \A s \in Ids : s # r => prod'[s] = prod[s]
        /\ \A s \in Ids : pacer'[s] \in {"done", pacer[s]}
        /\ prod'[r] = "done" /\ cleaning' = cleaning /\ keepalive' = 0
    BY <1>10, <2>2, DrainedDoes
  <2> QED
    BY <1>4, <2>1, <2>2, <2>3
<1>11. ASSUME NEW r \in Ids, ProducerCleans(r)
       PROVE  /\ keepalive' = 0 /\ (cleaning' = Nobody => entry' = 0)
              /\ \A s \in Ids : prod'[s] \notin {"read", "put", "end"} /\ pacer'[s] # "run"
  BY <1>1, <1>4, <1>11 DEF ProducerCleans, Cleaned, engine
<1>12. ASSUME NEW b \in Stoppers, StopperCleans(b)
       PROVE  /\ keepalive' = 0 /\ (cleaning' = Nobody => entry' = 0)
              /\ \A s \in Ids : prod'[s] \notin {"read", "put", "end"} /\ pacer'[s] # "run"
  BY <1>1, <1>4, <1>12 DEF StopperCleans, Cleaned
<1>13. ASSUME NEW b \in Stoppers, Stops(b)
       PROVE  /\ keepalive' = 0 /\ (cleaning' = Nobody => entry' = 0)
              /\ \A s \in Ids : prod'[s] \notin {"read", "put", "end"} /\ pacer'[s] # "run"
  <2>1. Stop(b) /\ UNCHANGED entry
    BY <1>13 DEF Stops
  <2>2. CASE entry = 0
    BY <1>1, <1>5, <2>1, <2>2, StopDoes
  <2>3. CASE entry # 0
    <3>1. prod'[entry] \notin {"read", "put", "end"} /\ pacer'[entry] = "done" /\ keepalive' = 0
      BY <1>1, <2>1, <2>3, StopDoes DEF ProducerAt
    <3>2. \A s \in Ids : s # entry => prod'[s] = prod[s] /\ pacer'[s] = pacer[s]
      BY <2>1, StopDoes
    <3>3. CASE cleaning = Nobody
      <4>1. cleaning'.by = b
        BY <2>1, <2>3, <3>3, StopDoes
      <4>2. cleaning' # Nobody
        BY <4>1, BargersDiffer DEF Nobody
      <4> QED
        BY <1>5, <3>1, <3>2, <4>2
    <3>4. CASE cleaning # Nobody
      <4>1. prod[entry] # "grace"
        BY <2>1, <2>3, <3>4, StopDoes
      <4>2. cleaning' # Nobody
        BY <2>1, <2>3, <3>4, <4>1, StopDoes
      <4> QED
        BY <1>5, <3>1, <3>2, <4>2
    <3> QED
      BY <3>3, <3>4
  <2> QED
    BY <2>2, <2>3
<1> QED
  BY <1>6, <1>7, <1>8, <1>9, <1>10, <1>11, <1>12, <1>13 DEF Kinds

LEMMA FallbackKeeps ==
    ASSUME TypeOK, Fallback, Next
    PROVE  Fallback'
<1> USE DEF Fallback
<1>1. entry \in {0} \cup Ids /\ used \in Nat /\ cur \in {0} \cup Ids
  BY StreamingAssumption DEF TypeOK, EngineType, TaskType, Ids
<1>2. CASE AgentAudio
  <2>1. mode' = mode /\ tokens' \subseteq tokens \cup SegmentTokens \cup {cur'} /\ (cur = 0 => cur' = used + 1)
        /\ (cur # 0 => tokens' = tokens \cup SegmentTokens)
    BY <1>2 DEF AgentAudio, StartTokens
  <2>2. SegmentTokens # {} => mode = "continuous"
    BY DEF SegmentTokens
  <2> QED
    BY <1>1, <2>1, <2>2 DEF SegmentToken
<1>3. CASE ReplyStarts
  BY <1>1, <1>3 DEF ReplyStarts, StartTokens, SegmentToken
<1>4. CASE AgentAudioDone \/ ReplyChunk \/ ReplyEnds \/ ReplyFails \/ ReplyPlayedFromFile \/ KeepaliveTimesOut
           \/ CallEnds \/ SessionRemoved
  BY <1>4 DEF AgentAudioDone, ReplyChunk, ReplyEnds, ReplyFails, ReplyPlayedFromFile, KeepaliveTimesOut,
     CallEnds, SessionRemoved, engine
<1>5. ASSUME NEW r \in Ids, Producer(r) \/ TimedOut(r) \/ Pacer(r) \/ PacerFails(r)
      PROVE  Fallback'
  BY <1>5 DEF Producer, Takes, Puts, SeesEnd, PutsSentinel, Drained, ProducerCleans, Cleaned, TimedOut,
     Pacer, Plays, PacerEnds, PacerFails, engine
<1>6. ASSUME NEW b \in Stoppers, BargeInStops(b) \/ Stopping(b)
      PROVE  Fallback'
  BY <1>6 DEF BargeInStops, Stopping, StopperCleans, Cleaned, BargeInReleases, engine
<1> QED
  BY <1>2, <1>3, <1>4, <1>5, <1>6 DEF Next

(* A token has its releaser: see TokenHasReleaser. *)
Held(t) == IF t = SegmentToken THEN said > 0 ELSE Running(t) \/ cleaning.id = t

LEMMA TokenKeeps ==
    ASSUME TypeOK, Tasks, EntryRuns, Fallback, TokenHasReleaser, Next
    PROVE  TokenHasReleaser'
<1> SUFFICES ASSUME odd' \subseteq {"joined", "late"}, \A b \in Bargers : stopper'[b] = "idle",
                    NEW t \in tokens'
             PROVE  Held(t)'
  BY DEF TokenHasReleaser, Held
<1>1. /\ prod \in [Ids -> ProducerAt] /\ cleaning \in Cleaner /\ 0 \notin Ids /\ entry \in {0} \cup Ids
      /\ used \in Nat /\ said \in Nat /\ cur \in {0} \cup Ids
      /\ stopper \in [Stoppers -> {"idle", "grace", "after"}] /\ Bargers \subseteq Stoppers
      /\ tokens \subseteq Ids \cup {0}
  BY StreamingAssumption DEF TypeOK, EngineType, TaskType, Ids, Stoppers, SegmentToken
<1>2. Kinds
  BY StepKinds DEF Tasks
<1>3. odd \subseteq odd'
  BY <1>2, StopDoes DEF Kinds, Rests, Registers, Reads, PutsSentinel, Drained, ProducerCleans, Cleaned, Paces,
     StopperCleans, Returned, Stops, SessionRemoved, engine
<1>4. Apart /\ odd \subseteq {"joined", "late"}
  BY <1>3 DEF Apart
<1>5. (\A b \in Bargers : stopper[b] = "idle") => \A u \in tokens : Held(u)
  BY <1>4 DEF TokenHasReleaser, Held
<1>6. cleaning # Nobody => cleaning.id = entry
  BY <1>4 DEF Tasks, Registered
<1>7. entry # 0 => Held(entry)
  BY <1>1, <1>4 DEF EntryRuns, Held, SegmentToken
<1> USE DEF Held, Running, SegmentToken
<1>8. CASE AgentAudio
  <2>1. /\ \A b \in Bargers : stopper[b] = "idle"
        /\ UNCHANGED cleaning /\ said' = said + 1
    BY <1>8 DEF AgentAudio
  <2>2. \A u \in Ids : prod[u] \notin {"none", "done"} => prod'[u] \notin {"none", "done"}
    BY <1>1, <1>8 DEF AgentAudio, StartStream
  <2>3. \A u \in tokens \cup SegmentTokens : Held(u)'
    <3>1. SegmentTokens \subseteq {entry, 0}
      BY DEF SegmentTokens
    <3>2. \A u \in Ids : Held(u) => Held(u)'
      BY <1>1, <2>1, <2>2
    <3>3. Held(0)'
      BY <1>1, <2>1
    <3> QED
      BY <1>1, <1>5, <1>7, <2>1, <3>1, <3>2, <3>3
  <2>4. CASE cur # 0
    BY <1>8, <2>3, <2>4 DEF AgentAudio
  <2>5. CASE cur = 0
    <3>1. tokens' = tokens \cup SegmentTokens \cup StartTokens(cur') /\ StartStream(cur') /\ cur' = used + 1
          /\ used < MaxQueues
      BY <1>8, <2>5 DEF AgentAudio
    <3>2. \A u \in StartTokens(cur') : u = cur' /\ ~Reused
      BY DEF StartTokens
    <3>3. used + 1 \in Ids
      BY <1>1, <3>1, StreamingAssumption DEF Ids
    <3>4. t \in StartTokens(cur') => Held(t)'
      BY <1>1, <3>1, <3>2, <3>3 DEF StartStream
    <3> QED
      BY <2>3, <3>1, <3>4
  <2> QED
    BY <2>4, <2>5
<1>9. CASE AgentAudioDone
  <2>1. /\ \A b \in Bargers : stopper[b] = "idle"
        /\ UNCHANGED <<prod, cleaning>> /\ t \in tokens
    BY <1>9 DEF AgentAudioDone
  <2>2. t # 0
    BY <1>9 DEF AgentAudioDone, Fallback
  <2> QED
    BY <1>5, <2>1, <2>2
<1>10. CASE ReplyStarts
  <2>1. /\ \A b \in Bargers : stopper[b] = "idle"
        /\ UNCHANGED cleaning /\ StartStream(cur') /\ cur' = used + 1 /\ mode = "pipeline"
        /\ tokens' = tokens \cup StartTokens(cur') /\ used < MaxQueues
    BY <1>10 DEF ReplyStarts
  <2>2. \A u \in Ids : prod[u] \notin {"none", "done"} => prod'[u] \notin {"none", "done"}
    BY <1>1, <2>1 DEF StartStream
  <2>3. 0 \notin tokens
    BY <2>1 DEF Fallback
  <2>4. \A u \in StartTokens(cur') : u = cur' /\ ~Reused
    BY DEF StartTokens
  <2>5. used + 1 \in Ids
    BY <1>1, <2>1, StreamingAssumption DEF Ids
  <2>6. t \in StartTokens(cur') => Held(t)'
    BY <1>1, <2>1, <2>4, <2>5 DEF StartStream
  <2>7. t \in tokens => Held(t)'
    BY <1>1, <1>5, <2>1, <2>2, <2>3
  <2> QED
    BY <2>1, <2>6, <2>7
<1>11. CASE ReplyChunk \/ ReplyEnds \/ KeepaliveTimesOut
  BY <1>1, <1>5, <1>11 DEF ReplyChunk, ReplyEnds, KeepaliveTimesOut, engine
<1>12. CASE ReplyPlayedFromFile
  <2>1. /\ \A b \in Bargers : b # "pipe" => stopper[b] = "idle"
        /\ UNCHANGED <<prod, cleaning, said, tokens>>
    BY <1>1, <1>12 DEF ReplyPlayedFromFile, player
  <2> QED
    BY <1>5, <2>1, BargersDiffer
<1>13. ASSUME NEW b \in Stoppers, Stops(b), UNCHANGED <<said, tokens>>
       PROVE  Held(t)'
  <2>1. Stop(b) /\ UNCHANGED entry
    BY <1>13 DEF Stops
  <2>2. b \notin Bargers
    <3>1. stopper'[b] \in {"grace", "after"}
      BY <2>1, StopDoes
    <3> QED
      BY <3>1
  <2>3. \A c \in Bargers : stopper[c] = "idle"
    BY <1>1, <2>1, <2>2, StopDoes
  <2>4. Held(t) /\ t \in tokens
    BY <1>5, <1>13, <2>3
  <2>5. CASE t = 0
    BY <1>13, <2>4, <2>5
  <2>6. ASSUME t # 0, prod[t] \notin {"none", "done"}
        PROVE  prod'[t] \notin {"none", "done"} \/ cleaning'.id = t
    <3>1. t \in Ids
      BY <1>1, <2>4, <2>6
    <3>2. CASE t # entry \/ entry = 0
      BY <2>1, <2>6, <3>1, <3>2, StopDoes
    <3>3. CASE t = entry /\ prod[t] # "grace"
      BY <1>1, <2>1, <2>6, <3>1, <3>3, StopDoes DEF ProducerAt
    <3>4. CASE t = entry /\ prod[t] = "grace" /\ cleaning = Nobody
      BY <2>1, <2>6, <3>4, StopDoes
    <3>5. CASE t = entry /\ prod[t] = "grace" /\ cleaning # Nobody
      BY <2>1, <2>6, <3>5, StopDoes
    <3> QED
      BY <3>2, <3>3, <3>4, <3>5
  <2>7. ASSUME t # 0, cleaning.id = t, prod[t] \in {"none", "done"}
        PROVE  prod'[t] \notin {"none", "done"} \/ cleaning'.id = t
    <3>1. cleaning # Nobody /\ t = entry
      BY <1>6, <2>7 DEF Nobody
    <3>2. UNCHANGED cleaning
      BY <2>1, <2>7, <3>1, StopDoes
    <3> QED
      BY <2>7, <3>2
  <2> QED
    BY <2>4, <2>5, <2>6, <2>7
<1>14. CASE ReplyFails
  <2>1. Stops("pipe") /\ "pipe" \in Stoppers
    BY <1>14 DEF ReplyFails, Synthesising, Stops, Tasks, StoppersKnown, Stoppers
  <2> QED
    BY <1>13, <1>14, <2>1 DEF ReplyFails
<1>15. CASE CallEnds
  <2>1. Stops("end") /\ "end" \in Stoppers
    BY <1>15 DEF CallEnds, Stops, Tasks, StoppersKnown, Stoppers
  <2> QED
    BY <1>13, <1>15, <2>1 DEF CallEnds
<1>16. ASSUME NEW b \in Stoppers, BargeInStops(b)
       PROVE  Held(t)'
  <2>1. Stops(b)
    BY <1>16 DEF BargeInStops, Stops
  <2> QED
    BY <1>13, <1>16, <2>1 DEF BargeInStops
<1>17. ASSUME NEW b \in Stoppers, BargeInReleases(b)
       PROVE  Held(t)'
  BY <1>17 DEF BargeInReleases
<1>18. CASE SessionRemoved
  BY <1>18 DEF SessionRemoved
<1>19. ASSUME NEW b \in Stoppers, StopperCleans(b)
       PROVE  Held(t)'
  <2>1. /\ stopper[b] = "grace" /\ tokens' = tokens \ {cleaning.id} /\ UNCHANGED <<prod, said>>
        /\ stopper' = [stopper EXCEPT ![b] = "after"]
    BY <1>19 DEF StopperCleans, Cleaned, Returned
  <2>2. \A c \in Bargers : stopper[c] = "idle"
    BY <1>1, <2>1
  <2> QED
    BY <1>5, <2>1, <2>2
<1>20. ASSUME NEW r \in Ids, ProducerCleans(r)
       PROVE  Held(t)'
  <2>1. /\ prod[r] = "grace" /\ tokens' = tokens \ {r} /\ UNCHANGED <<said, stopper>>
        /\ \A s \in Ids : s # r => prod'[s] = prod[s]
    BY <1>1, <1>20 DEF ProducerCleans, Cleaned, engine
  <2>2. cleaning.id = r
    BY <2>1 DEF Tasks, OneCleaner
  <2> QED
    BY <1>1, <1>5, <2>1, <2>2
<1>21. ASSUME NEW r \in Ids, Drained(r)
       PROVE  Held(t)'
  <2>1. /\ prod[r] = "drain" /\ \A s \in Ids : s # r => prod'[s] = prod[s]
        /\ UNCHANGED <<said, stopper, tokens, entry>>
    BY <1>21, DrainedDoes DEF engine
  <2>2. r = entry
    BY <1>4, <2>1 DEF Tasks, Leftover
  <2>3. CASE cleaning = Nobody
    <3>1. prod'[r] = "grace" /\ cleaning.id = 0
      BY <1>21, <2>3, DrainedDoes DEF Nobody
    <3> QED
      BY <1>1, <1>5, <2>1, <3>1
  <2>4. CASE cleaning # Nobody
    <3>1. cleaning.id = r /\ UNCHANGED cleaning
      BY <1>6, <1>21, <2>2, <2>4, DrainedDoes
    <3> QED
      BY <1>1, <1>5, <2>1, <3>1
  <2> QED
    BY <2>3, <2>4
<1>22. ASSUME NEW r \in Ids, Takes(r) \/ Puts(r) \/ SeesEnd(r) \/ PutsSentinel(r) \/ TimedOut(r)
       PROVE  Held(t)'
  <2>1. /\ prod'[r] \notin {"none", "done"} /\ \A s \in Ids : s # r => prod'[s] = prod[s]
        /\ UNCHANGED <<said, stopper, tokens, cleaning>>
    BY <1>1, <1>22 DEF Takes, Puts, SeesEnd, PutsSentinel, TimedOut, engine
  <2> QED
    BY <1>1, <1>5, <2>1
<1>23. ASSUME NEW r \in Ids, Plays(r) \/ PacerEnds(r) \/ PacerFails(r)
       PROVE  Held(t)'
  BY <1>1, <1>5, <1>23 DEF Plays, PacerEnds, PacerFails, engine
<1> HIDE DEF Held
<1> QED
  BY <1>8, <1>9, <1>10, <1>11, <1>12, <1>14, <1>15, <1>16, <1>17, <1>18, <1>19, <1>20, <1>21, <1>22, <1>23
     DEF Next, Producer, Pacer, Stopping

-----------------------------------------------------------------------------
(* Types.                                                                   *)

LEMMA Arithmetic ==
    /\ MaxQueues \in Nat /\ Chunks \in Nat /\ QueueCap \in Nat \ {0} /\ JitterCap \in Nat \ {0}
    /\ 0 \notin Ids
BY StreamingAssumption DEF Ids

LEMMA EngineTypeKeeps ==
    ASSUME TypeOK, Next
    PROVE  EngineType'
<1> USE Arithmetic DEF TypeOK, EngineType
<1>1. cur \in Nat /\ used \in Nat /\ said \in Nat
  OBVIOUS
<1>2. CASE AgentAudio
  <2>1. (segOn \/ mode = "continuous") \in BOOLEAN
    OBVIOUS
  <2>2. segOn' \in BOOLEAN
    BY <1>2, <2>1 DEF AgentAudio
  <2>3. UNCHANGED <<mode, kind, alive, pipe>> /\ said' = said + 1 /\ said < Chunks
    BY <1>2 DEF AgentAudio
  <2>4. (cur' = cur /\ used' = used) \/ (used < MaxQueues /\ cur' = used + 1 /\ used' = used + 1)
    BY <1>2 DEF AgentAudio
  <2> QED
    BY <1>1, <2>2, <2>3, <2>4
<1>3. CASE AgentAudioDone
  <2>1. segOn' \in BOOLEAN
    <3>1. (segOn /\ kind = "agent") \in BOOLEAN
      OBVIOUS
    <3> QED
      BY <1>3, <3>1 DEF AgentAudioDone
  <2>2. UNCHANGED <<mode, kind, alive, pipe, used>> /\ said' = 0 /\ cur' \in {cur, 0}
    BY <1>3 DEF AgentAudioDone
  <2> QED
    BY <1>1, <2>1, <2>2
<1>4. CASE ReplyStarts \/ ReplyChunk \/ ReplyEnds \/ ReplyPlayedFromFile
  BY <1>1, <1>4 DEF ReplyStarts, ReplyChunk, ReplyEnds, ReplyPlayedFromFile
<1>5. ASSUME NEW b \in Stoppers, Stop(b)
      PROVE  cur' \in {0, cur}
  BY <1>5 DEF Stop, Returned
<1>6. ASSUME NEW b \in Stoppers, BargeInStops(b) \/ Stopping(b)
      PROVE  EngineType'
  BY <1>1, <1>5, <1>6 DEF BargeInStops, Stopping, StopperCleans, Returned, BargeInReleases, engine
<1>7. CASE ReplyFails \/ CallEnds
  BY <1>1, <1>5, <1>7 DEF ReplyFails, CallEnds, Stoppers
<1>8. CASE SessionRemoved \/ KeepaliveTimesOut
  BY <1>8 DEF SessionRemoved, KeepaliveTimesOut, engine
<1>9. ASSUME NEW r \in Ids, Producer(r) \/ TimedOut(r) \/ Pacer(r) \/ PacerFails(r)
      PROVE  EngineType'
  BY <1>9 DEF Producer, Takes, Puts, SeesEnd, PutsSentinel, Drained, ProducerCleans, TimedOut,
     Pacer, Plays, PacerEnds, PacerFails, engine
<1> QED
  BY <1>2, <1>3, <1>4, <1>6, <1>7, <1>8, <1>9 DEF Next

LEMMA EntryWith ==
    ASSUME NEW e \in Entries
    PROVE  /\ \A n \in 0 .. QueueCap : [e EXCEPT !.n = n] \in Entries
           /\ [e EXCEPT !.end = TRUE] \in Entries
           /\ e.n \in 0 .. QueueCap
BY DEF Entries

LEMMA FrameWith ==
    ASSUME NEW f \in Frames
    PROVE  /\ \A n \in 0 .. JitterCap : [f EXCEPT !.n = n] \in Frames
           /\ \A s \in BOOLEAN : [f EXCEPT !.s = s] \in Frames
           /\ f.n \in 0 .. JitterCap /\ f.s \in BOOLEAN
BY DEF Frames

LEMMA BufferTypeKeeps ==
    ASSUME TypeOK, Next
    PROVE  BufferType'
<1> USE Arithmetic DEF BufferType
<1>1. q \in [Ids -> Entries] /\ jb \in [Ids -> Frames]
  BY DEF TypeOK
<1>2. ASSUME NEW x \in Ids
      PROVE  q[x].n \in Nat /\ q[x].n <= QueueCap
  <2>1. q[x] \in Entries
    BY <1>1
  <2>2. q[x].n \in 0 .. QueueCap
    BY <2>1, EntryWith
  <2> QED
    BY <2>2
<1>3. ASSUME NEW x, NEW e, x \in Ids => e \in Entries
      PROVE  [q EXCEPT ![x] = e] \in [Ids -> Entries]
  BY <1>1, <1>3
<1>4. ASSUME NEW r \in Ids, NEW f \in Frames
      PROVE  [jb EXCEPT ![r] = f] \in [Ids -> Frames]
  BY <1>1, <1>4
<1>5. ASSUME NEW x
      PROVE  Enqueued(x) \in [Ids -> Entries]
  <2> DEFINE n == IF q[x].n < QueueCap THEN q[x].n + 1 ELSE q[x].n
  <2>1. x \in Ids => n \in 0 .. QueueCap
    BY <1>2
  <2>2. x \in Ids => [q[x] EXCEPT !.n = n] \in Entries
    BY <1>1, <2>1, EntryWith
  <2>3. Enqueued(x) = [q EXCEPT ![x] = [q[x] EXCEPT !.n = n]]
    BY DEF Enqueued
  <2> HIDE DEF n
  <2> QED
    BY <1>3, <2>2, <2>3
<1>6. Emptied \in [Ids -> Frames]
  <2>1. [n |-> 0, s |-> FALSE] \in Frames
    BY DEF Frames
  <2>2. [jb EXCEPT ![entry] = [n |-> 0, s |-> FALSE]] \in [Ids -> Frames]
    BY <1>1, <2>1
  <2> QED
    BY <1>1, <2>2 DEF Emptied
<1>7. CASE AgentAudio
  BY <1>1, <1>5, <1>7 DEF AgentAudio
<1>8. CASE AgentAudioDone \/ ReplyEnds
  <2>1. cur \in Ids => [q[cur] EXCEPT !.end = TRUE] \in Entries
    BY <1>1, EntryWith
  <2>2. [q EXCEPT ![cur] = [q[cur] EXCEPT !.end = TRUE]] \in [Ids -> Entries]
    BY <1>3, <2>1
  <2>3. [q EXCEPT ![cur].end = TRUE] \in [Ids -> Entries]
    BY <2>2
  <2> QED
    BY <1>1, <1>8, <2>3 DEF AgentAudioDone, ReplyEnds
<1>9. CASE ReplyChunk
  <2>1. cur \in Ids => q[cur].n + 1 \in 0 .. QueueCap
    BY <1>2, <1>9 DEF ReplyChunk
  <2>2. cur \in Ids => [q[cur] EXCEPT !.n = q[cur].n + 1] \in Entries
    BY <1>1, <2>1, EntryWith
  <2>3. [q EXCEPT ![cur] = [q[cur] EXCEPT !.n = q[cur].n + 1]] \in [Ids -> Entries]
    BY <1>3, <2>2
  <2> QED
    BY <1>1, <1>9, <2>3 DEF ReplyChunk
<1>10. ASSUME NEW r \in Ids, Takes(r)
      PROVE  BufferType'
  <2>1. q[r].n - 1 \in 0 .. QueueCap
    BY <1>2, <1>10 DEF Takes
  <2>2. [q[r] EXCEPT !.n = q[r].n - 1] \in Entries
    BY <1>1, <2>1, EntryWith
  <2>3. [q EXCEPT ![r] = [q[r] EXCEPT !.n = q[r].n - 1]] \in [Ids -> Entries]
    BY <1>3, <2>2
  <2> QED
    BY <1>1, <1>10, <2>3 DEF Takes
<1>11. ASSUME NEW r \in Ids, Puts(r)
       PROVE  BufferType'
  <2>1. jb[r].n + 1 \in 0 .. JitterCap
    BY <1>1, <1>11, FrameWith DEF Puts, Room
  <2>2. [jb[r] EXCEPT !.n = jb[r].n + 1] \in Frames
    BY <1>1, <2>1, FrameWith
  <2> QED
    BY <1>1, <1>4, <1>11, <2>2 DEF Puts
<1>12. ASSUME NEW r \in Ids, PutsSentinel(r) \/ PacerEnds(r)
       PROVE  BufferType'
  <2>1. [jb[r] EXCEPT !.s = TRUE] \in Frames /\ [jb[r] EXCEPT !.s = FALSE] \in Frames
    BY <1>1, FrameWith
  <2>2. q' = q
    BY <1>12 DEF PutsSentinel, PacerEnds
  <2>3. CASE PutsSentinel(r)
    <3>1. jb' = [jb EXCEPT ![r] = [jb[r] EXCEPT !.s = TRUE]]
      BY <2>3 DEF PutsSentinel
    <3>2. jb' \in [Ids -> Frames]
      BY <1>4, <2>1, <3>1
    <3> QED
      BY <1>1, <2>2, <3>2
  <2>4. CASE PacerEnds(r)
    <3>1. jb' = jb \/ jb' = [jb EXCEPT ![r] = [jb[r] EXCEPT !.s = FALSE]]
      BY <2>4 DEF PacerEnds
    <3>2. jb' \in [Ids -> Frames]
      BY <1>1, <1>4, <2>1, <3>1
    <3> QED
      BY <1>1, <2>2, <3>2
  <2> QED
    BY <1>12, <2>3, <2>4
<1>13. ASSUME NEW r \in Ids, Plays(r)
       PROVE  BufferType'
  <2>1. jb[r].n - 1 \in 0 .. JitterCap
    BY <1>1, <1>13, FrameWith DEF Plays
  <2>2. [jb[r] EXCEPT !.n = jb[r].n - 1] \in Frames
    BY <1>1, <2>1, FrameWith
  <2> QED
    BY <1>1, <1>4, <1>13, <2>2 DEF Plays
<1>14. ASSUME NEW r \in Ids, TimedOut(r) \/ PacerFails(r)
       PROVE  BufferType'
  BY <1>1, <1>6, <1>14 DEF TimedOut, PacerFails
<1>15. CASE KeepaliveTimesOut
  BY <1>1, <1>6, <1>15 DEF KeepaliveTimesOut
<1>16. ASSUME NEW r \in Ids, SeesEnd(r) \/ Drained(r) \/ ProducerCleans(r)
       PROVE  BufferType'
  BY <1>1, <1>16 DEF SeesEnd, Drained, ProducerCleans
<1>17. CASE ReplyStarts \/ ReplyFails \/ ReplyPlayedFromFile \/ CallEnds \/ SessionRemoved
  BY <1>1, <1>17 DEF ReplyStarts, ReplyFails, ReplyPlayedFromFile, CallEnds, SessionRemoved, player
<1>18. ASSUME NEW b \in Stoppers, BargeInStops(b) \/ Stopping(b)
       PROVE  BufferType'
  BY <1>1, <1>18 DEF BargeInStops, Stopping, StopperCleans, BargeInReleases, player
<1> QED
  BY <1>7, <1>8, <1>9, <1>10, <1>11, <1>12, <1>13, <1>14, <1>15, <1>16, <1>17, <1>18 DEF Next, Producer, Pacer

LEMMA TaskTypeKeeps ==
    ASSUME TypeOK, Next
    PROVE  TaskType'
<1>1. /\ prod \in [Ids -> ProducerAt] /\ pacer \in [Ids -> {"none", "run", "done"}]
      /\ used \in Nat /\ entry \in 0 .. used /\ keepalive \in 0 .. used /\ waits \in [Ids -> 0 .. used]
      /\ cleaning \in Cleaner /\ stopper \in [Stoppers -> {"idle", "grace", "after"}]
      /\ used \in 0 .. MaxQueues /\ entry \in Ids \cup {0} /\ 0 \in 0 .. used
  BY Arithmetic DEF TypeOK, EngineType, TaskType, Ids
<1>2. Nobody \in Cleaner
  BY DEF Nobody, Cleaner
<1> USE DEF TaskType
<1>3. ASSUME StartStream(used + 1), used < MaxQueues, used' = used + 1, UNCHANGED <<waits, cleaning, stopper>>
      PROVE  TaskType'
  <2>1. used + 1 \in Ids /\ used' \in Nat /\ 0 .. used \subseteq 0 .. used' /\ used' \in 0 .. used'
    BY <1>1, <1>3, Arithmetic DEF Ids
  <2>2. prod' \in [Ids -> ProducerAt] /\ pacer' \in [Ids -> {"none", "run", "done"}]
    BY <1>1, <1>3 DEF StartStream, ProducerAt
  <2>3. entry' \in 0 .. used' /\ keepalive' \in 0 .. used'
    BY <1>1, <1>3, <2>1 DEF StartStream
  <2>4. waits' \in [Ids -> 0 .. used']
    BY <1>1, <1>3, <2>1
  <2> QED
    BY <1>1, <1>3, <2>2, <2>3, <2>4
<1>4. CASE AgentAudio
  BY <1>1, <1>3, <1>4 DEF AgentAudio
<1>5. CASE ReplyStarts
  BY <1>1, <1>3, <1>5 DEF ReplyStarts
<1>6. CASE AgentAudioDone \/ ReplyChunk \/ ReplyEnds
  BY <1>1, <1>6 DEF AgentAudioDone, ReplyChunk, ReplyEnds
<1>7. CASE ReplyPlayedFromFile
  BY <1>1, <1>7 DEF ReplyPlayedFromFile, player
<1>8. ASSUME NEW b \in Stoppers, Stop(b), UNCHANGED <<used, entry>>
      PROVE  TaskType'
  <2>1. prod' \in [Ids -> ProducerAt] /\ pacer' \in [Ids -> {"none", "run", "done"}]
    BY <1>1, <1>8 DEF Stop, Cancelled, ProducerAt
  <2>2. waits' \in [Ids -> 0 .. used] /\ keepalive' \in 0 .. used
    BY <1>1, <1>8 DEF Stop
  <2>3. cleaning' \in Cleaner
    <3>1. entry # 0 => [by |-> b, id |-> entry] \in Cleaner
      BY <1>1 DEF Cleaner
    <3> QED
      BY <1>1, <1>2, <1>8, <3>1 DEF Stop
  <2>4. stopper' \in [Stoppers -> {"idle", "grace", "after"}]
    BY <1>1, <1>8 DEF Stop, Returned
  <2> QED
    BY <1>1, <1>8, <2>1, <2>2, <2>3, <2>4
<1>9. CASE ReplyFails \/ CallEnds
  BY <1>8, <1>9 DEF ReplyFails, CallEnds, Stoppers
<1>10. CASE SessionRemoved
  BY <1>1, <1>2, <1>10 DEF SessionRemoved
<1>11. ASSUME NEW b \in Stoppers, BargeInStops(b)
       PROVE  TaskType'
  BY <1>8, <1>11 DEF BargeInStops
<1>12. ASSUME NEW b \in Stoppers, StopperCleans(b)
       PROVE  TaskType'
  BY <1>1, <1>2, <1>12 DEF StopperCleans, Cleaned, Returned
<1>13. ASSUME NEW b \in Stoppers, BargeInReleases(b)
       PROVE  TaskType'
  BY <1>1, <1>13 DEF BargeInReleases, engine, player
<1>14. ASSUME NEW r \in Ids, Takes(r) \/ Puts(r) \/ SeesEnd(r) \/ TimedOut(r)
       PROVE  TaskType'
  BY <1>1, <1>14 DEF Takes, Puts, SeesEnd, TimedOut, engine, ProducerAt
<1>15. ASSUME NEW r \in Ids, PutsSentinel(r)
       PROVE  TaskType'
  BY <1>1, <1>15 DEF PutsSentinel, engine, ProducerAt
<1>16. ASSUME NEW r \in Ids, Drained(r)
       PROVE  TaskType'
  <2>1. [by |-> "producer", id |-> r] \in Cleaner
    BY DEF Cleaner
  <2>2. cleaning' \in Cleaner
    BY <1>1, <1>16, <2>1 DEF Drained
  <2>3. prod' \in [Ids -> ProducerAt]
    BY <1>1, <1>16 DEF Drained, ProducerAt
  <2>4. pacer' \in [Ids -> {"none", "run", "done"}]
    BY <1>1, <1>16 DEF Drained
  <2> QED
    BY <1>1, <1>16, <2>2, <2>3, <2>4 DEF Drained, engine
<1>17. ASSUME NEW r \in Ids, ProducerCleans(r)
       PROVE  TaskType'
  BY <1>1, <1>2, <1>17 DEF ProducerCleans, Cleaned, engine, ProducerAt
<1>18. ASSUME NEW r \in Ids, Plays(r) \/ PacerEnds(r) \/ PacerFails(r)
       PROVE  TaskType'
  BY <1>1, <1>18 DEF Plays, PacerEnds, PacerFails, engine
<1>19. CASE KeepaliveTimesOut
  BY <1>1, <1>19 DEF KeepaliveTimesOut, engine
<1> QED
  BY <1>4, <1>5, <1>6, <1>7, <1>9, <1>10, <1>11, <1>12, <1>13, <1>14, <1>15, <1>16, <1>17, <1>18, <1>19
     DEF Next, Producer, Pacer, Stopping

LEMMA TypeKeeps ==
    ASSUME TypeOK, Next
    PROVE  TypeOK'
<1>1. EngineType' /\ BufferType' /\ TaskType'
  BY EngineTypeKeeps, BufferTypeKeeps, TaskTypeKeeps
<1>2. entry \in Ids \cup {0} /\ used + 1 \in Nat
  BY Arithmetic DEF TypeOK, EngineType, TaskType, Ids
<1> USE DEF TypeOK
<1>3. tokens' \subseteq Ids \cup {SegmentToken}
  <2> USE DEF SegmentToken
  <2>1. CASE AgentAudio \/ ReplyStarts
    <3>1. SegmentTokens \subseteq Ids \cup {0}
      BY <1>2 DEF SegmentTokens
    <3>2. used < MaxQueues => StartTokens(used + 1) \subseteq Ids
      BY <1>2, Arithmetic DEF StartTokens, Ids, EngineType
    <3> QED
      BY <2>1, <3>1, <3>2 DEF AgentAudio, ReplyStarts
  <2>2. CASE AgentAudioDone \/ ReplyChunk \/ ReplyEnds \/ ReplyFails \/ ReplyPlayedFromFile \/ KeepaliveTimesOut
             \/ CallEnds \/ SessionRemoved
    BY <2>2 DEF AgentAudioDone, ReplyChunk, ReplyEnds, ReplyFails, ReplyPlayedFromFile, KeepaliveTimesOut,
       CallEnds, SessionRemoved, engine
  <2>3. ASSUME NEW r \in Ids, Producer(r) \/ TimedOut(r) \/ Pacer(r) \/ PacerFails(r)
        PROVE  tokens' \subseteq Ids \cup {0}
    BY <2>3 DEF Producer, Takes, Puts, SeesEnd, PutsSentinel, Drained, ProducerCleans, Cleaned, TimedOut,
       Pacer, Plays, PacerEnds, PacerFails, engine
  <2>4. ASSUME NEW b \in Stoppers, BargeInStops(b) \/ Stopping(b)
        PROVE  tokens' \subseteq Ids \cup {0}
    BY <2>4 DEF BargeInStops, Stopping, StopperCleans, Cleaned, BargeInReleases, engine
  <2> QED
    BY <2>1, <2>2, <2>3, <2>4 DEF Next
<1>4. failed' \subseteq Ids /\ odd' \subseteq {"overlapped", "joined", "aborted", "late"}
  <2>1. CASE AgentAudio \/ ReplyStarts
    BY <2>1 DEF AgentAudio, ReplyStarts, StartStream
  <2>2. CASE AgentAudioDone \/ ReplyChunk \/ ReplyEnds \/ ReplyPlayedFromFile \/ KeepaliveTimesOut
             \/ SessionRemoved
    BY <2>2 DEF AgentAudioDone, ReplyChunk, ReplyEnds, ReplyPlayedFromFile, KeepaliveTimesOut,
       SessionRemoved, engine, player
  <2>3. ASSUME NEW r \in Ids, Producer(r) \/ TimedOut(r) \/ Pacer(r) \/ PacerFails(r)
        PROVE  failed' \subseteq Ids /\ odd' \subseteq {"overlapped", "joined", "aborted", "late"}
    BY <2>3 DEF Producer, Takes, Puts, SeesEnd, PutsSentinel, Drained, ProducerCleans, Cleaned, TimedOut,
       Pacer, Plays, PacerEnds, PacerFails, engine
  <2>4. ASSUME NEW b \in Stoppers, Stop(b)
        PROVE  odd' \subseteq {"overlapped", "joined", "aborted", "late"}
    BY <2>4 DEF Stop
  <2>5. CASE ReplyFails \/ CallEnds
    BY <2>4, <2>5 DEF ReplyFails, CallEnds, Stoppers
  <2>6. ASSUME NEW b \in Stoppers, BargeInStops(b) \/ Stopping(b)
        PROVE  failed' \subseteq Ids /\ odd' \subseteq {"overlapped", "joined", "aborted", "late"}
    BY <2>4, <2>6 DEF BargeInStops, Stopping, StopperCleans, BargeInReleases, engine, player
  <2> QED
    BY <2>1, <2>2, <2>3, <2>5, <2>6 DEF Next
<1> QED
  BY <1>1, <1>3, <1>4

-----------------------------------------------------------------------------
(* The theorems.                                                            *)

(* At first there is no stream. *)
LEMMA InitHolds == Init => IInv
<1> SUFFICES ASSUME Init PROVE IInv
  OBVIOUS
<1> USE Arithmetic, BargersDiffer DEF Init
<1>1. TypeOK
  <2>1. <<mode, kind>> \in Speakers
    <3>1. PICK s \in Speakers : mode = s[1] /\ kind = s[2]
      OBVIOUS
    <3>2. s \in {"continuous", "segment", "pipeline"} \X {"agent", "raw"}
      BY StreamingAssumption
    <3>3. s = <<mode, kind>>
      BY <3>1, <3>2
    <3> QED
      BY <3>3
  <2>2. EngineType
    <3>1. /\ alive = "up" /\ pipe = "idle" /\ segOn = FALSE
          /\ cur = 0 /\ used = 0 /\ said = 0
      OBVIOUS
    <3> HIDE DEF Init
    <3>2. cur \in 0 .. used /\ used \in 0 .. MaxQueues /\ said \in 0 .. Chunks
      BY <3>1
    <3>3. segOn \in BOOLEAN
      BY <3>1
    <3> QED
      BY <2>1, <3>1, <3>2, <3>3 DEF EngineType
  <2>3. BufferType
    BY DEF BufferType, Entries, Frames
  <2>4. TaskType
    BY DEF TaskType, ProducerAt, Cleaner, Nobody
  <2> QED
    BY <2>2, <2>3, <2>4 DEF TypeOK
<1>2. Tasks
  BY DEF Tasks, Fresh, OneCleaner, CancelledFirst, StoppersKnown, Continuous, Leftover, Registered, Nobody,
     Stoppers, Apart
<1>3. EntryRuns /\ InUse /\ Fallback /\ TokenHasReleaser /\ StoppedByEnd
  BY DEF EntryRuns, InUse, Fallback, TokenHasReleaser, StoppedByEnd, Running
<1> QED
  BY <1>1, <1>2, <1>3 DEF IInv

LEMMA StutterKeeps == IInv /\ UNCHANGED vars => IInv'
<1> SUFFICES ASSUME IInv, UNCHANGED vars PROVE IInv'
  OBVIOUS
<1>1. UNCHANGED <<mode, kind, alive, cur, used, said, segOn, pipe, q, entry, jb, prod, waits, pacer, keepalive,
                  cleaning, failed, tokens, stopper, odd>>
  BY DEF vars, engine, player
<1>2. TypeOK'
  BY <1>1 DEF IInv, TypeOK, EngineType, BufferType, TaskType
<1>3. Tasks'
  BY <1>1 DEF IInv, Tasks, Fresh, OneCleaner, CancelledFirst, StoppersKnown, Continuous, Leftover, Registered,
     Apart, Room
<1>4. EntryRuns' /\ InUse' /\ Fallback' /\ TokenHasReleaser' /\ StoppedByEnd'
  BY <1>1 DEF IInv, EntryRuns, InUse, Fallback, TokenHasReleaser, StoppedByEnd, Running, Reading
<1> QED
  BY <1>2, <1>3, <1>4 DEF IInv

THEOREM Safety == Spec => []IInv
<1>1. IInv /\ [Next]_vars => IInv'
  <2>1. ASSUME IInv, Next
        PROVE  IInv'
    <3>1. TypeOK /\ Tasks /\ EntryRuns /\ InUse /\ Fallback /\ TokenHasReleaser /\ StoppedByEnd
      BY <2>1 DEF IInv
    <3>2. Kinds
      BY <2>1, <3>1, StepKinds DEF Tasks
    <3>3. TypeOK'
      BY <2>1, <3>1, TypeKeeps
    <3>4. Tasks'
      BY <3>1, <3>2, FreshKeeps, CleanerKeeps, CancelledFirstKeeps, StoppersKnownKeeps, ContinuousKeeps,
         LeftoverKeeps, RegisteredKeeps DEF Tasks
    <3>5. EntryRuns' /\ InUse' /\ StoppedByEnd'
      BY <3>1, <3>2, EntryRunsKeeps, InUseKeeps, StoppedByEndKeeps
    <3>6. Fallback' /\ TokenHasReleaser'
      BY <2>1, <3>1, FallbackKeeps, TokenKeeps
    <3> QED
      BY <3>3, <3>4, <3>5, <3>6 DEF IInv
  <2> QED
    BY <2>1, StutterKeeps
<1> QED
  BY InitHolds, <1>1, PTL DEF Spec

(* Every variable keeps its type: no buffer is ever longer than its cap. *)
THEOREM TypeCorrect == Spec => []TypeOK
<1>1. IInv => TypeOK
  BY DEF IInv
<1> QED
  BY <1>1, Safety, PTL

(* Two streams never read at once unless they were started across a         *)
(* cleanup, and a continuous call's queue always has its reader, or a       *)
(* barge-in that will drop it.                                              *)
THEOREM ReadByOne == Spec => []QueueReadByOne
<1>1. ASSUME IInv
      PROVE  QueueReadByOne
  <2>1. OneReader
    <3>1. SUFFICES ASSUME Apart PROVE Cardinality({r \in Ids : prod[r] \in {"read", "put"}}) <= 1
      BY DEF OneReader, Apart
    <3>2. {r \in Ids : prod[r] \in {"read", "put"}} \subseteq {entry}
      BY <1>1, <3>1 DEF IInv, Tasks, Leftover
    <3>3. IsFiniteSet({entry}) /\ Cardinality({entry}) = 1
      BY FS_Singleton
    <3>4. Cardinality({r \in Ids : prod[r] \in {"read", "put"}}) <= Cardinality({entry})
      BY <3>2, <3>3, FS_Subset
    <3> QED
      BY <3>3, <3>4
  <2>2. QueueHasReader
    <3>1. SUFFICES ASSUME mode = "continuous", alive = "up", cur # 0
                   PROVE  \/ entry = cur /\ prod[cur] \in {"read", "put"}
                          \/ \E b \in Bargers : stopper[b] # "idle"
      BY DEF QueueHasReader
    <3> QED
      BY <1>1, <3>1 DEF IInv, InUse
  <2> QED
    BY <2>1, <2>2 DEF QueueReadByOne
<1> QED
  BY <1>1, Safety, PTL

(* The caller is never left unheard by a stream that is gone: whoever can    *)
(* release the token is still there.                                        *)
THEOREM TokensReleased == Spec => []TokenHasReleaser
<1>1. IInv => TokenHasReleaser
  BY DEF IInv
<1> QED
  BY <1>1, Safety, PTL

(* Nothing of an ended call is read or played, unless a stream was started  *)
(* after the cleanup had stopped it or a cleanup of its own was abandoned.  *)
THEOREM SilentAfterCall == Spec => []NothingPlaysAfterCall
<1>1. IInv => NothingPlaysAfterCall
  BY DEF IInv, StoppedByEnd, NothingPlaysAfterCall, Reading
<1> QED
  BY <1>1, Safety, PTL

-----------------------------------------------------------------------------
(* A reply is played out before its stream is deregistered.                 *)

(* A queue gets its end marker when the reply is over, and no chunk after it. *)
EndsKnown ==
    /\ cur # 0 => ~q[cur].end
    /\ \A r \in Ids : r > used => ~q[r].end

(* The sentinel is the last thing a producer puts into its buffer. *)
Sentinels == \A r \in Ids : jb[r].s => prod[r] \in {"drain", "grace", "done"}

(* A registered stream that nobody has cancelled and that did not fail has  *)
(* read its queue when it goes to its end, and its pacer has played the     *)
(* buffer when it is done.                                                  *)
HeardOut ==
    odd \subseteq {"joined"} /\ entry # 0 /\ entry \notin failed /\ cleaning.by \notin Stoppers =>
        /\ prod[entry] \in {"end", "drain", "grace"} => q[entry].n = 0 /\ q[entry].end
        /\ pacer[entry] = "done" => jb[entry].n = 0 /\ prod[entry] \in {"drain", "grace", "done"}
        /\ prod[entry] = "grace" => jb[entry].n = 0

DrainInv == EndsKnown /\ Sentinels /\ HeardOut

LEMMA DrainTypes ==
    ASSUME TypeOK
    PROVE  /\ q \in [Ids -> Entries] /\ jb \in [Ids -> Frames] /\ prod \in [Ids -> ProducerAt]
           /\ pacer \in [Ids -> {"none", "run", "done"}] /\ cleaning \in Cleaner
           /\ used \in Nat /\ cur \in 0 .. used /\ entry \in 0 .. used
           /\ \A r \in Ids : r # 0 /\ q[r] \in Entries /\ jb[r] \in Frames
           /\ entry # 0 => entry \in Ids
           /\ cur # 0 => cur \in Ids
<1>1. MaxQueues \in Nat /\ used \in 0 .. MaxQueues
  BY StreamingAssumption DEF TypeOK, EngineType
<1> QED
  BY <1>1 DEF TypeOK, EngineType, BufferType, TaskType, Ids

(* What is failed or odd stays so. *)
LEMMA HistoryGrows ==
    ASSUME Next
    PROVE  odd \subseteq odd' /\ failed \subseteq failed'
<1>1. ASSUME NEW b, Stop(b)
      PROVE  odd \subseteq odd'
  BY <1>1 DEF Stop
<1>2. ASSUME NEW r, StartStream(r)
      PROVE  odd \subseteq odd'
  BY <1>2 DEF StartStream
<1>3. CASE AgentAudio \/ ReplyStarts
  BY <1>2, <1>3 DEF AgentAudio, ReplyStarts
<1>4. CASE ReplyFails \/ CallEnds \/ \E b \in Stoppers : BargeInStops(b)
  BY <1>1, <1>4 DEF ReplyFails, CallEnds, BargeInStops
<1>5. CASE AgentAudioDone \/ ReplyChunk \/ ReplyEnds \/ ReplyPlayedFromFile \/ KeepaliveTimesOut \/ SessionRemoved
  BY <1>5 DEF AgentAudioDone, ReplyChunk, ReplyEnds, ReplyPlayedFromFile, KeepaliveTimesOut, SessionRemoved,
     player
<1>6. ASSUME NEW r \in Ids, Producer(r) \/ TimedOut(r) \/ Pacer(r) \/ PacerFails(r)
      PROVE  odd \subseteq odd' /\ failed \subseteq failed'
  BY <1>6 DEF Producer, Takes, Puts, SeesEnd, PutsSentinel, Drained, ProducerCleans, TimedOut, Pacer, Plays,
     PacerEnds, PacerFails
<1>7. ASSUME NEW b \in Stoppers, Stopping(b)
      PROVE  odd \subseteq odd' /\ failed \subseteq failed'
  BY <1>7 DEF Stopping, StopperCleans, BargeInReleases, player
<1> QED
  BY <1>3, <1>4, <1>5, <1>6, <1>7 DEF Next

(* What becomes of the queues.                                              *)
Queues ==
    \/ \E r \in Ids : \* a chunk
         /\ cur' = r /\ cur' = cur /\ used' = used
         /\ q' = [q EXCEPT ![r] = q'[r]] /\ q'[r].end = q[r].end
    \/ \E r \in Ids : \* a queue is made
         /\ cur' = r /\ r = used + 1 /\ used' = r
         /\ q' = [q EXCEPT ![r] = q'[r]] /\ q'[r].end = q[r].end
    \/ \E r \in Ids : \* the end marker
         /\ cur' = 0 /\ used' = used
         /\ q' = [q EXCEPT ![r] = q'[r]] /\ q'[r].n = q[r].n /\ q'[r].end
         /\ r = cur
    \/ \E r \in Ids : \* a chunk is read
         /\ cur' = cur /\ used' = used
         /\ q' = [q EXCEPT ![r] = q'[r]] /\ q'[r].end = q[r].end /\ q[r].n # 0
    \/ cur' \in {cur, 0} /\ used' = used /\ q' = q

LEMMA QueuesAre ==
    ASSUME TypeOK, Next
    PROVE  Queues
<1> USE DrainTypes DEF Queues
<1>0. \A r \in Ids : q[r].n \in Nat
  BY StreamingAssumption DEF Entries
<1>1. CASE AgentAudio
  <2>1. CASE cur # 0
    <3>1. cur \in Ids /\ q' = Enqueued(cur) /\ cur' = cur /\ used' = used
      BY <1>1, <2>1 DEF AgentAudio
    <3>2. q' = [q EXCEPT ![cur] = q'[cur]] /\ q'[cur].end = q[cur].end
      BY <3>1 DEF Enqueued, Entries
    <3> QED
      BY <3>1, <3>2
  <2>2. CASE cur = 0
    <3>1. cur' = used + 1 /\ used' = used + 1 /\ q' = Enqueued(used + 1) /\ used < MaxQueues
      BY <1>1, <2>2 DEF AgentAudio
    <3>2. used + 1 \in Ids
      BY <3>1, StreamingAssumption DEF Ids
    <3>3. q' = [q EXCEPT ![used + 1] = q'[used + 1]] /\ q'[used + 1].end = q[used + 1].end
      BY <3>1, <3>2 DEF Enqueued, Entries
    <3> QED
      BY <3>1, <3>2, <3>3
  <2> QED
    BY <2>1, <2>2
<1>2. CASE ReplyStarts
  <2>1. cur' = used + 1 /\ used' = used + 1 /\ q' = q /\ used < MaxQueues
    BY <1>2 DEF ReplyStarts
  <2>2. used + 1 \in Ids
    BY <2>1, StreamingAssumption DEF Ids
  <2>3. q' = [q EXCEPT ![used + 1] = q'[used + 1]] /\ q'[used + 1].end = q[used + 1].end
    BY <2>1, <2>2
  <2> QED
    BY <2>1, <2>2, <2>3
<1>3. CASE ReplyChunk \/ ReplyEnds \/ AgentAudioDone
  <2>1. CASE cur = 0
    BY <1>3, <2>1 DEF AgentAudioDone, ReplyChunk, ReplyEnds
  <2>2. CASE cur # 0
    <3>1. CASE ReplyChunk
      <4>1. q' = [q EXCEPT ![cur] = q'[cur]] /\ q'[cur].end = q[cur].end /\ cur' = cur /\ used' = used
        BY <2>2, <3>1 DEF ReplyChunk, Entries
      <4> QED
        BY <2>2, <4>1
    <3>2. CASE ReplyEnds \/ (AgentAudioDone /\ mode # "continuous")
      <4>1. q' = [q EXCEPT ![cur].end = TRUE] /\ cur' = 0 /\ used' = used
        BY <2>2, <3>2 DEF ReplyEnds, AgentAudioDone
      <4>2. q' = [q EXCEPT ![cur] = q'[cur]] /\ q'[cur].n = q[cur].n /\ q'[cur].end
        BY <2>2, <4>1 DEF Entries
      <4> QED
        BY <2>2, <4>1, <4>2
    <3>3. CASE AgentAudioDone /\ mode = "continuous"
      BY <3>3 DEF AgentAudioDone
    <3> QED
      BY <1>3, <3>1, <3>2, <3>3
  <2> QED
    BY <2>1, <2>2
<1>4. ASSUME NEW b, Stop(b)
      PROVE  cur' \in {cur, 0}
  BY <1>4 DEF Stop, Returned
<1>5. CASE ReplyFails \/ CallEnds \/ \E b \in Stoppers : BargeInStops(b)
  BY <1>4, <1>5 DEF ReplyFails, CallEnds, BargeInStops
<1>6. CASE ReplyPlayedFromFile \/ KeepaliveTimesOut \/ SessionRemoved
  BY <1>6 DEF ReplyPlayedFromFile, KeepaliveTimesOut, SessionRemoved, player, engine
<1>7. ASSUME NEW r \in Ids, Takes(r)
      PROVE  Queues
  <2>1. q' = [q EXCEPT ![r] = q'[r]] /\ q'[r].end = q[r].end /\ q[r].n # 0 /\ UNCHANGED <<cur, used>>
    BY <1>0, <1>7 DEF Takes, Entries, engine
  <2> QED
    BY <2>1
<1>8. ASSUME NEW r \in Ids, Puts(r) \/ SeesEnd(r) \/ PutsSentinel(r) \/ Drained(r) \/ ProducerCleans(r) \/
                            TimedOut(r) \/ Plays(r) \/ PacerEnds(r) \/ PacerFails(r)
      PROVE  Queues
  BY <1>8 DEF Puts, SeesEnd, PutsSentinel, Drained, ProducerCleans, TimedOut, Plays, PacerEnds, PacerFails, engine
<1>9. ASSUME NEW b \in Stoppers, Stopping(b)
      PROVE  Queues
  BY <1>9 DEF Stopping, StopperCleans, Returned, BargeInReleases, player, engine
<1> QED
  BY <1>1, <1>2, <1>3, <1>5, <1>6, <1>7, <1>8, <1>9 DEF Next, Producer, Pacer

(* An empty queue that has its end marker gets nothing more.                *)
LEMMA QueuesKeep ==
    ASSUME TypeOK, EndsKnown, Queues
    PROVE  EndsKnown' /\ \A r \in Ids : q[r].end /\ q[r].n = 0 => q'[r].end /\ q'[r].n = 0
<1> USE DrainTypes DEF EndsKnown
<1>1. ASSUME NEW r \in Ids, q' = [q EXCEPT ![r] = q'[r]]
      PROVE  \A s \in Ids : s # r => q'[s] = q[s]
  BY <1>1
<1>2. ASSUME NEW r \in Ids, cur' = r, (cur' = cur /\ used' = used) \/ (r = used + 1 /\ used' = r),
             q' = [q EXCEPT ![r] = q'[r]], q'[r].end = q[r].end
      PROVE  EndsKnown' /\ \A s \in Ids : q[s].end /\ q[s].n = 0 => q'[s].end /\ q'[s].n = 0
  <2>1. ~q[r].end
    BY <1>2 DEF Ids
  <2>2. \A s \in Ids : s > used' => s > used
    BY <1>2 DEF Ids
  <2> QED
    BY <1>1, <1>2, <2>1, <2>2
<1>3. ASSUME NEW r \in Ids, cur' = 0, used' = used, r = cur,
             q' = [q EXCEPT ![r] = q'[r]], q'[r].n = q[r].n, q'[r].end
      PROVE  EndsKnown' /\ \A s \in Ids : q[s].end /\ q[s].n = 0 => q'[s].end /\ q'[s].n = 0
  <2>1. ~(r > used)
    BY <1>3
  <2> QED
    BY <1>1, <1>3, <2>1
<1>4. ASSUME NEW r \in Ids, cur' = cur, used' = used,
             q' = [q EXCEPT ![r] = q'[r]], q'[r].end = q[r].end, q[r].n # 0
      PROVE  EndsKnown' /\ \A s \in Ids : q[s].end /\ q[s].n = 0 => q'[s].end /\ q'[s].n = 0
  BY <1>1, <1>4
<1>5. CASE cur' \in {cur, 0} /\ used' = used /\ q' = q
  BY <1>5
<1> QED
  BY <1>2, <1>3, <1>4, <1>5 DEF Queues

LEMMA SentinelsKeep ==
    ASSUME TypeOK, Tasks, Sentinels, Next
    PROVE  Sentinels'
<1> USE DrainTypes DEF Sentinels
<1>1. ASSUME UNCHANGED <<jb, prod>>
      PROVE  Sentinels'
  BY <1>1
<1>2. ASSUME \A s \in Ids : jb'[s].s => jb[s].s, prod' = prod
      PROVE  Sentinels'
  BY <1>2
<1>4. jb' = Emptied => \A s \in Ids : jb'[s].s => jb[s].s
  BY DEF Emptied, Frames
<1>5. ASSUME NEW b, Stop(b), jb' = jb
      PROVE  Sentinels'
  <2>1. prod' = prod \/ (entry # 0 /\ prod' = [prod EXCEPT ![entry] = Cancelled(@)])
    BY <1>5 DEF Stop
  <2>2. \A p : p \in {"drain", "grace", "done"} => Cancelled(p) \in {"drain", "done"}
    BY DEF Cancelled
  <2> QED
    BY <1>5, <2>1, <2>2
<1>6. CASE ReplyFails \/ CallEnds \/ \E b \in Stoppers : BargeInStops(b)
  BY <1>5, <1>6 DEF ReplyFails, CallEnds, BargeInStops
<1>7. CASE AgentAudio \/ ReplyStarts
  <2>1. jb' = jb /\ (prod' = prod \/ (prod' = [prod EXCEPT ![used + 1] = "read"] /\ used + 1 \in Ids))
    <3>1. StartStream(used + 1) => prod' = prod \/ prod' = [prod EXCEPT ![used + 1] = "read"]
      BY DEF StartStream
    <3>2. used < MaxQueues => used + 1 \in Ids
      BY StreamingAssumption DEF Ids
    <3> QED
      BY <1>7, <3>1, <3>2 DEF AgentAudio, ReplyStarts
  <2>2. used + 1 \in Ids => prod[used + 1] = "none"
    BY DEF Tasks, Fresh
  <2> QED
    BY <2>1, <2>2
<1>8. CASE AgentAudioDone \/ ReplyChunk \/ ReplyEnds \/ ReplyPlayedFromFile \/ SessionRemoved
           \/ \E b \in Stoppers : Stopping(b)
  BY <1>1, <1>8 DEF AgentAudioDone, ReplyChunk, ReplyEnds, ReplyPlayedFromFile, SessionRemoved, Stopping,
     StopperCleans, BargeInReleases, player
<1>9. CASE KeepaliveTimesOut
  BY <1>2, <1>4, <1>9 DEF KeepaliveTimesOut
<1>10. ASSUME NEW r \in Ids, Takes(r) \/ SeesEnd(r) \/ Puts(r) \/ TimedOut(r)
       PROVE  Sentinels'
  <2>1. prod[r] \in {"read", "put"} /\ \A s \in Ids : s # r => prod'[s] = prod[s]
    BY <1>10 DEF Takes, SeesEnd, Puts, TimedOut
  <2>2. \A s \in Ids : jb'[s].s => jb[s].s
    BY <1>4, <1>10 DEF Takes, SeesEnd, Puts, TimedOut, Frames
  <2> QED
    BY <2>1, <2>2
<1>11. ASSUME NEW r \in Ids, PutsSentinel(r)
       PROVE  Sentinels'
  BY <1>11 DEF PutsSentinel, Frames
<1>12. ASSUME NEW r \in Ids, Drained(r) \/ ProducerCleans(r)
       PROVE  Sentinels'
  <2>1. jb' = jb /\ \A s \in Ids : prod'[s] = prod[s] \/ prod'[s] \in {"grace", "done"}
    BY <1>12 DEF Drained, ProducerCleans
  <2> QED
    BY <2>1
<1>13. ASSUME NEW r \in Ids, Plays(r) \/ PacerEnds(r) \/ PacerFails(r)
       PROVE  Sentinels'
  <2>1. prod' = prod /\ \A s \in Ids : jb'[s].s => jb[s].s
    BY <1>4, <1>13 DEF Plays, PacerEnds, PacerFails, Frames
  <2> QED
    BY <2>1
<1> QED
  BY <1>6, <1>7, <1>8, <1>9, <1>10, <1>11, <1>12, <1>13 DEF Next, Producer, Pacer

LEMMA HeardOutKeeps ==
    ASSUME TypeOK, Tasks, EntryRuns, EndsKnown, Sentinels, HeardOut, Next
    PROVE  HeardOut'
<1> USE DrainTypes, BargersDiffer
<1>1. SUFFICES ASSUME odd' \subseteq {"joined"}, entry' # 0, entry' \notin failed', cleaning'.by \notin Stoppers
               PROVE  /\ prod'[entry'] \in {"end", "drain", "grace"} => q'[entry'].n = 0 /\ q'[entry'].end
                      /\ pacer'[entry'] = "done" =>
                           jb'[entry'].n = 0 /\ prod'[entry'] \in {"drain", "grace", "done"}
                      /\ prod'[entry'] = "grace" => jb'[entry'].n = 0
  BY DEF HeardOut
<1> DEFINE Goal == /\ prod'[entry'] \in {"end", "drain", "grace"} => q'[entry'].n = 0 /\ q'[entry'].end
                   /\ pacer'[entry'] = "done" =>
                        jb'[entry'].n = 0 /\ prod'[entry'] \in {"drain", "grace", "done"}
                   /\ prod'[entry'] = "grace" => jb'[entry'].n = 0
<1>2. odd \subseteq {"joined"} /\ Apart /\ \A r : r \in failed => r \in failed'
  BY <1>1, HistoryGrows DEF Apart
<1>3. \A r \in Ids : q[r].end /\ q[r].n = 0 => q'[r].end /\ q'[r].n = 0
  BY QueuesAre, QueuesKeep
\* A step that leaves the registered stream's tasks alone.
<1>4. ASSUME UNCHANGED <<entry, prod, pacer, cleaning>>, entry # 0 /\ jb[entry].n = 0 => jb'[entry].n = 0
      PROVE  Goal
  BY <1>1, <1>2, <1>3, <1>4 DEF HeardOut
<1>5. CASE AgentAudio \/ ReplyStarts
  <2>1. jb' = jb /\ cleaning' = cleaning /\ (StartStream(used + 1) \/ UNCHANGED <<entry, prod, pacer>>)
    BY <1>5 DEF AgentAudio, ReplyStarts
  <2>2. CASE UNCHANGED <<entry, prod, pacer>>
    BY <1>4, <2>1, <2>2
  <2>3. CASE ~(UNCHANGED <<entry, prod, pacer>>)
    <3>1. used < MaxQueues
      BY <1>5, <2>3 DEF AgentAudio, ReplyStarts
    <3>2. used + 1 \in Ids
      BY <3>1, StreamingAssumption DEF Ids
    <3>3. entry' = used + 1 /\ prod'[used + 1] = "read" /\ pacer'[used + 1] = "run"
      BY <2>1, <2>3, <3>2 DEF StartStream
    <3> QED
      BY <3>3
  <2> QED
    BY <2>2, <2>3
<1>6. CASE AgentAudioDone \/ ReplyChunk \/ ReplyEnds \/ ReplyPlayedFromFile \/ \E b \in Stoppers : BargeInReleases(b)
  BY <1>4, <1>6 DEF AgentAudioDone, ReplyChunk, ReplyEnds, ReplyPlayedFromFile, BargeInReleases, player
<1>7. CASE SessionRemoved
  <2>1. UNCHANGED cleaning
    BY <1>1, <1>7 DEF SessionRemoved
  <2> QED
    BY <1>4, <1>7, <2>1 DEF SessionRemoved
<1>8. jb' = Emptied => \A r \in Ids : jb[r].n = 0 => jb'[r].n = 0
  BY DEF Emptied, Frames
<1>9. CASE KeepaliveTimesOut
  BY <1>4, <1>8, <1>9 DEF KeepaliveTimesOut
\* Whoever stops the registered stream becomes its cleaner, or abandons its cleanup.
<1>10. ASSUME NEW b \in Stoppers, Stop(b), entry' = entry
       PROVE  FALSE
  <2>1. entry # 0
    BY <1>1, <1>10
  <2>2. CASE cleaning = Nobody
    <3>1. cleaning'.by = b
      BY <1>10, <2>1, <2>2 DEF Stop
    <3> QED
      BY <1>1, <3>1
  <2>3. CASE cleaning # Nobody
    <3>1. prod[entry] # "grace" /\ cleaning' = cleaning
      <4>1. prod[entry] = "grace" => "aborted" \in odd'
        BY <1>10, <2>1, <2>3 DEF Stop
      <4> QED
        BY <1>1, <1>10, <2>1, <2>3, <4>1 DEF Stop
    <3>2. cleaning.id = entry
      BY <1>2, <2>3 DEF Tasks, Registered
    <3>3. cleaning.by # "producer"
      BY <2>1, <3>1, <3>2 DEF Tasks, OneCleaner
    <3>4. cleaning.by \in Stoppers
      <4>1. cleaning.by # "none"
        BY <2>1, <3>2 DEF Tasks, OneCleaner
      <4> QED
        BY <3>3, <4>1 DEF Cleaner
    <3> QED
      BY <1>1, <3>1, <3>4
  <2> QED
    BY <2>2, <2>3
<1>11. CASE ReplyFails \/ CallEnds \/ \E b \in Stoppers : BargeInStops(b)
  BY <1>10, <1>11 DEF ReplyFails, CallEnds, BargeInStops, Stoppers
<1>12. CASE (\E b \in Stoppers : StopperCleans(b)) \/ \E r \in Ids : ProducerCleans(r)
  BY <1>1, <1>12 DEF StopperCleans, ProducerCleans, Cleaned
\* The registered stream, before the step, unless a producer is given its sentinel.
<1>13. /\ entry # 0 /\ entry \notin failed /\ cleaning.by \notin Stoppers =>
            /\ prod[entry] \in {"end", "drain", "grace"} => q[entry].n = 0 /\ q[entry].end
            /\ pacer[entry] = "done" => jb[entry].n = 0 /\ prod[entry] \in {"drain", "grace", "done"}
            /\ prod[entry] = "grace" => jb[entry].n = 0
       /\ \A r \in Ids : prod[r] \in {"read", "put", "end", "drain"} => r = entry
       /\ \A r \in Ids : pacer[r] = "run" => r = entry
  <2>1. ASSUME NEW r \in Ids, prod[r] \in {"read", "put", "end", "drain"}
        PROVE  r = entry
    BY <1>2, <2>1 DEF Tasks, Leftover
  <2>2. \A r \in Ids : pacer[r] = "run" => r = entry
    BY <1>2 DEF Tasks, Registered
  <2> QED
    BY <1>2, <2>1, <2>2 DEF HeardOut
<1>14. ASSUME NEW r \in Ids, Takes(r) \/ Puts(r) \/ SeesEnd(r) \/ TimedOut(r)
       PROVE  Goal
  <2>1. /\ prod[r] \in {"read", "put"} /\ UNCHANGED <<entry, pacer, cleaning>> /\ r = entry
    BY <1>13, <1>14 DEF Takes, Puts, SeesEnd, TimedOut
  <2>2. pacer[r] # "done"
    BY <1>1, <1>2, <1>13, <2>1
  <2>3. CASE Takes(r) \/ Puts(r)
    BY <2>1, <2>2, <2>3 DEF Takes, Puts
  <2>4. CASE SeesEnd(r)
    <3>1. prod'[r] = "end" /\ q'[r].n = 0 /\ q'[r].end
      BY <1>3, <2>4 DEF SeesEnd
    <3> QED
      BY <2>1, <2>2, <3>1
  <2>5. CASE TimedOut(r)
    BY <1>1, <2>1, <2>5 DEF TimedOut
  <2> QED
    BY <1>14, <2>3, <2>4, <2>5
<1>15. ASSUME NEW r \in Ids, PutsSentinel(r)
       PROVE  Goal
  <2>1. /\ UNCHANGED <<entry, pacer, cleaning, failed>> /\ prod'[r] = "drain"
        /\ \A s \in Ids : s # r => prod'[s] = prod[s]
        /\ \A s \in Ids : jb'[s].n = jb[s].n
    BY <1>15 DEF PutsSentinel, Frames
  <2>2. CASE r # entry
    BY <1>1, <1>2, <1>3, <1>13, <2>1, <2>2
  <2>3. CASE r = entry
    <3>1. prod[r] # "close"
      <4>1. prod[r] = "close" => pacer[r] = "done"
        BY DEF Tasks, CancelledFirst
      <4> QED
        BY <1>1, <1>2, <1>13, <2>1, <2>3, <4>1
    <3>2. prod[r] = "end"
      BY <1>15, <3>1 DEF PutsSentinel
    <3> QED
      BY <1>1, <1>2, <1>3, <1>13, <2>1, <2>3, <3>2
  <2> QED
    BY <2>2, <2>3
<1>16. ASSUME NEW r \in Ids, Drained(r)
       PROVE  Goal
  <2>1. r = entry /\ UNCHANGED <<entry, jb, q, failed>> /\ prod[r] = "drain" /\ DrainOver(r)
    BY <1>13, <1>16 DEF Drained
  <2>2. waits[r] = r
    BY <1>2, <2>1 DEF Tasks, Leftover
  <2>3. cleaning = Nobody
    <3>1. cleaning # Nobody => cleaning.id = entry /\ cleaning' = cleaning
      BY <1>2, <1>16 DEF Drained, Tasks, Registered
    <3>2. cleaning # Nobody => cleaning.by \in Stoppers
      <4>1. cleaning # Nobody => cleaning.by # "producer" /\ cleaning.by # "none"
        BY <2>1, <3>1 DEF Tasks, OneCleaner
      <4> QED
        BY <4>1 DEF Cleaner
    <3> QED
      BY <1>1, <3>1, <3>2
  <2>4. prod'[r] = "grace"
    BY <1>16, <2>3 DEF Drained
  <2>5. entry # 0 /\ entry \notin failed /\ cleaning.by \notin Stoppers
    BY <1>1, <2>1, <2>3 DEF Nobody
  <2>6. jb[r].n = 0 /\ q[r].n = 0 /\ q[r].end
    BY <1>13, <2>1, <2>2, <2>5 DEF DrainOver
  <2> QED
    BY <2>1, <2>4, <2>6
<1>17. ASSUME NEW r \in Ids, Plays(r)
       PROVE  Goal
  <2>1. UNCHANGED <<entry, prod, pacer, cleaning>> /\ \A s \in Ids : jb[s].n = 0 => jb'[s].n = 0
    BY <1>17 DEF Plays, Frames
  <2> QED
    BY <1>4, <2>1
<1>18. ASSUME NEW r \in Ids, PacerEnds(r)
       PROVE  Goal
  <2>1. r = entry /\ entry # 0 /\ UNCHANGED <<entry, prod, cleaning, failed>>
    BY <1>13, <1>18 DEF PacerEnds
  <2>2. jb[r].n = 0 /\ jb[r].s /\ jb'[r].n = 0
    BY <1>18, <2>1 DEF PacerEnds, Frames
  <2>3. prod[r] \in {"drain", "grace", "done"}
    BY <2>2 DEF Sentinels
  <2> QED
    BY <1>1, <1>2, <1>3, <1>13, <2>1, <2>2, <2>3
<1>19. ASSUME NEW r \in Ids, PacerFails(r)
       PROVE  Goal
  <2>1. r = entry /\ entry' = entry /\ r \in failed'
    BY <1>13, <1>19 DEF PacerFails
  <2> QED
    BY <1>1, <2>1
<1> QED
  BY <1>5, <1>6, <1>7, <1>9, <1>11, <1>12, <1>14, <1>15, <1>16, <1>17, <1>18, <1>19
     DEF Next, Producer, Pacer, Stopping

LEMMA DrainHolds == Spec => []DrainInv
<1>1. Init => DrainInv
  BY DrainTypes DEF Init, DrainInv, EndsKnown, Sentinels, HeardOut
<1>2. ASSUME IInv, DrainInv, [Next]_vars
      PROVE  DrainInv'
  <2>1. CASE Next
    BY <1>2, <2>1, QueuesAre, QueuesKeep, SentinelsKeep, HeardOutKeeps DEF IInv, DrainInv
  <2>2. CASE UNCHANGED vars
    BY <1>2, <2>2 DEF DrainInv, EndsKnown, Sentinels, HeardOut, vars, engine, player
  <2> QED
    BY <1>2, <2>1, <2>2
<1> QED
  BY <1>1, <1>2, Safety, PTL DEF Spec

(* For any speakers, capacities and barge-ins: a stream that ends by itself *)
(* has played what it was given, or its transport failed, whatever joined   *)
(* it (streaming_playback_manager.py, producer, pacer and clean-up).        *)
THEOREM PlaysOut == Spec => PlayedOut
<1> DEFINE Played(r) == r \in failed \/ (q[r].n = 0 /\ jb[r].n = 0)
           Played2 == \A r \in Ids : prod[r] = "grace" /\ entry = r /\ entry' = 0 /\ odd' \subseteq {"joined"} =>
                        Played(r)
<1>1. ASSUME IInv, DrainInv, [Next]_vars
      PROVE  Played2
  <2>1. SUFFICES ASSUME NEW r \in Ids, prod[r] = "grace", entry = r, odd' \subseteq {"joined"}, r \notin failed
                 PROVE  q[r].n = 0 /\ jb[r].n = 0
    OBVIOUS
  <2>2. odd \subseteq {"joined"}
    BY <1>1, <2>1, HistoryGrows DEF vars
  <2>3. cleaning.by = "producer" /\ cleaning.by \notin Stoppers /\ entry # 0
    BY <1>1, <2>1, BargersDiffer, DrainTypes DEF IInv, Tasks, OneCleaner
  <2> QED
    BY <1>1, <2>1, <2>2, <2>3 DEF DrainInv, HeardOut
<1>2. IInv /\ DrainInv /\ [Next]_vars => [Played2]_vars
  BY <1>1
<1> QED
  BY <1>2, DrainHolds, Safety, PTL DEF Spec, PlayedOut

-----------------------------------------------------------------------------
(* A registered stream can always go on.                                    *)

(* A dialog worker between two replies has no queue and stops no stream. *)
Worker == pipe = "idle" => stopper["pipe"] = "idle" /\ (mode = "pipeline" => cur = 0)

(* A registered stream that nobody stops was given a pacer, and its queue   *)
(* has its end marker or is the one in use.                                 *)
Fed ==
    odd \subseteq {"joined"} /\ entry # 0 /\ cleaning = Nobody =>
        /\ pacer[entry] # "none"
        /\ q[entry].end \/ cur = entry
        /\ stopper["pipe"] # "after"

FedInv == Worker /\ Fed

LEMMA WorkerKeeps ==
    ASSUME TypeOK, Worker, Next
    PROVE  Worker'
<1> USE DEF Worker
<1>1. "pipe" \in Stoppers /\ stopper \in [Stoppers -> {"idle", "grace", "after"}]
  BY DEF TypeOK, TaskType, Stoppers
<1>2. CASE AgentAudio \/ AgentAudioDone \/ ReplyStarts \/ ReplyChunk \/ ReplyEnds \/ KeepaliveTimesOut
           \/ ReplyPlayedFromFile \/ SessionRemoved
  BY <1>1, <1>2 DEF AgentAudio, AgentAudioDone, ReplyStarts, ReplyChunk, ReplyEnds, Synthesising,
     KeepaliveTimesOut, ReplyPlayedFromFile, SessionRemoved, engine
<1>3. CASE ReplyFails
  BY <1>3 DEF ReplyFails, Synthesising
<1>4. ASSUME NEW b \in Stoppers \ {"pipe"}, Stop(b), pipe' = pipe, mode' = mode
      PROVE  Worker'
  <2>1. stopper'["pipe"] = stopper["pipe"] /\ (mode = "pipeline" => cur' = cur)
    BY <1>1, <1>4 DEF Stop, Returned
  <2> QED
    BY <1>4, <2>1
<1>5. CASE CallEnds \/ \E b \in Stoppers : BargeInStops(b)
  BY <1>4, <1>5, BargersDiffer DEF CallEnds, BargeInStops, Stoppers
<1>6. ASSUME NEW r \in Ids, Producer(r) \/ TimedOut(r) \/ Pacer(r) \/ PacerFails(r)
      PROVE  Worker'
  BY <1>6 DEF Producer, Takes, Puts, SeesEnd, PutsSentinel, Drained, ProducerCleans, TimedOut, Pacer, Plays,
     PacerEnds, PacerFails, engine
<1>7. ASSUME NEW b \in Stoppers, Stopping(b)
      PROVE  Worker'
  <2>1. CASE StopperCleans(b)
    BY <1>1, <2>1, BargersDiffer DEF StopperCleans, Returned
  <2>2. CASE BargeInReleases(b)
    BY <1>1, <2>2, BargersDiffer DEF BargeInReleases, engine
  <2> QED
    BY <1>7, <2>1, <2>2 DEF Stopping
<1> QED
  BY <1>2, <1>3, <1>5, <1>6, <1>7 DEF Next

LEMMA FedKeeps ==
    ASSUME TypeOK, Tasks, EndsKnown, Worker, Fed, Next
    PROVE  Fed'
<1> USE DrainTypes DEF Fed
<1>1. "pipe" \in Stoppers /\ stopper \in [Stoppers -> {"idle", "grace", "after"}]
  BY DEF TypeOK, TaskType, Stoppers
<1>2. SUFFICES ASSUME odd' \subseteq {"joined"}, odd \subseteq {"joined"}, entry' # 0, cleaning' = Nobody
               PROVE  pacer'[entry'] # "none" /\ (q'[entry'].end \/ cur' = entry') /\ stopper'["pipe"] # "after"
  BY HistoryGrows
<1> DEFINE Goal == pacer'[entry'] # "none" /\ (q'[entry'].end \/ cur' = entry') /\ stopper'["pipe"] # "after"
<1>3. ASSUME entry' = entry, cleaning = Nobody, \A s \in Ids : pacer[s] # "none" => pacer'[s] # "none",
             \A s \in Ids : q[s].end => q'[s].end, \A s \in Ids : cur = s => cur' = s \/ q'[s].end,
             stopper'["pipe"] = "after" => stopper["pipe"] = "after"
      PROVE  Goal
  BY <1>2, <1>3
<1>4. CASE AgentAudio
  <2>1. \A x : \A s \in Ids : Enqueued(x)[s].end = q[s].end
    BY DEF Enqueued, Entries
  <2>2. mode # "pipeline" /\ stopper["pipe"] = "idle" /\ UNCHANGED <<cleaning, stopper>>
    BY <1>4 DEF AgentAudio, Tasks, StoppersKnown
  <2>3. CASE cur # 0
    BY <1>2, <1>3, <1>4, <2>1, <2>2, <2>3 DEF AgentAudio
  <2>4. CASE cur = 0
    <3>1. cur' = used + 1 /\ StartStream(used + 1) /\ used < MaxQueues /\ \A s \in Ids : q'[s].end = q[s].end
      BY <1>4, <2>1, <2>4 DEF AgentAudio
    <3>2. CASE Reused
      BY <1>2, <1>3, <2>2, <2>4, <3>1, <3>2 DEF StartStream
    <3>3. CASE ~Reused
      <4>1. entry' = used + 1 /\ entry' \in Ids /\ pacer' = [pacer EXCEPT ![used + 1] = "run"]
        BY <3>1, <3>3, StreamingAssumption DEF StartStream, Ids
      <4> QED
        BY <2>2, <3>1, <4>1
    <3> QED
      BY <3>2, <3>3
  <2> QED
    BY <2>3, <2>4
<1>5. CASE ReplyStarts
  <2>1. cur = 0 /\ stopper["pipe"] = "idle" /\ UNCHANGED <<q, cleaning, stopper>>
    BY <1>5 DEF ReplyStarts, Worker
  <2>2. cur' = used + 1 /\ StartStream(used + 1) /\ used < MaxQueues
    BY <1>5 DEF ReplyStarts
  <2>3. CASE Reused
    BY <1>2, <1>3, <2>1, <2>2, <2>3 DEF StartStream
  <2>4. CASE ~Reused
    <3>1. entry' = used + 1 /\ entry' \in Ids /\ pacer' = [pacer EXCEPT ![used + 1] = "run"]
      BY <2>2, <2>4, StreamingAssumption DEF StartStream, Ids
    <3> QED
      BY <2>1, <2>2, <3>1
  <2> QED
    BY <2>3, <2>4
<1>6. CASE AgentAudioDone \/ ReplyEnds
  <2>1. UNCHANGED <<entry, cleaning, pacer, stopper>>
    BY <1>6 DEF AgentAudioDone, ReplyEnds
  <2>2. \/ UNCHANGED <<q, cur>>
        \/ cur' = 0 /\ cur = 0
        \/ cur' = 0 /\ cur \in Ids /\ q' = [q EXCEPT ![cur].end = TRUE]
    BY <1>6 DEF AgentAudioDone, ReplyEnds
  <2>3. q' = q \/ q' = [q EXCEPT ![cur].end = TRUE]
    BY <1>6 DEF AgentAudioDone, ReplyEnds
  <2>4. ASSUME NEW s \in Ids
        PROVE  (q[s].end => q'[s].end) /\ (cur = s => cur' = s \/ q'[s].end)
    <3>1. q[s].end => q'[s].end
      BY <2>3 DEF Entries
    <3>2. cur = s => cur' = s \/ q'[s].end
      BY <2>2 DEF Entries
    <3> QED
      BY <3>1, <3>2
  <2> QED
    BY <1>2, <1>3, <2>1, <2>4
<1>7. CASE ReplyChunk
  BY <1>2, <1>3, <1>7 DEF ReplyChunk, Entries
<1>8. ASSUME NEW b, Stop(b), UNCHANGED entry
      PROVE  Goal
  BY <1>2, <1>8, BargersDiffer DEF Stop, Nobody
<1>9. CASE ReplyFails \/ CallEnds \/ \E b \in Stoppers : BargeInStops(b)
  BY <1>8, <1>9 DEF ReplyFails, CallEnds, BargeInStops
<1>10. CASE ReplyPlayedFromFile
  BY <1>2, <1>10 DEF ReplyPlayedFromFile, player
<1>11. CASE SessionRemoved
  <2>1. UNCHANGED <<entry, cleaning, pacer, q, cur>> /\ stopper'["pipe"] = "idle"
    BY <1>1, <1>2, <1>11 DEF SessionRemoved
  <2> QED
    BY <1>2, <1>3, <2>1
<1>12. CASE KeepaliveTimesOut
  BY <1>2, <1>3, <1>12 DEF KeepaliveTimesOut, engine
<1>13. ASSUME NEW r \in Ids, Producer(r) \/ TimedOut(r) \/ Pacer(r) \/ PacerFails(r)
       PROVE  Goal
  <2>1. ~ProducerCleans(r)
    BY <1>2 DEF ProducerCleans, Cleaned
  <2>2. CASE Drained(r)
    <3>1. cleaning' = cleaning /\ UNCHANGED <<entry, q, cur, stopper>>
      BY <1>2, <2>2 DEF Drained, Nobody, engine
    <3>2. \A s \in Ids : pacer[s] # "none" => pacer'[s] # "none"
      BY <2>2 DEF Drained
    <3> QED
      BY <1>2, <1>3, <3>1, <3>2
  <2>3. CASE Takes(r) \/ Puts(r) \/ SeesEnd(r) \/ PutsSentinel(r) \/ TimedOut(r) \/ Plays(r)
    <3>1. UNCHANGED <<entry, cleaning, cur, pacer, stopper>> /\ \A s \in Ids : q'[s].end = q[s].end
      BY <2>3 DEF Takes, Puts, SeesEnd, PutsSentinel, TimedOut, Plays, engine, Entries
    <3> QED
      BY <1>2, <1>3, <3>1
  <2>4. CASE PacerEnds(r) \/ PacerFails(r)
    BY <1>2, <1>3, <2>4 DEF PacerEnds, PacerFails, engine
  <2> QED
    BY <1>13, <2>1, <2>2, <2>3, <2>4 DEF Producer, Pacer
<1>14. ASSUME NEW b \in Stoppers, Stopping(b)
       PROVE  Goal
  <2>1. ~StopperCleans(b)
    BY <1>2 DEF StopperCleans, Cleaned
  <2>2. CASE BargeInReleases(b)
    BY <1>1, <1>2, <1>3, <2>2 DEF BargeInReleases, engine, player
  <2> QED
    BY <1>14, <2>1, <2>2 DEF Stopping
<1> QED
  BY <1>4, <1>5, <1>6, <1>7, <1>9, <1>10, <1>11, <1>12, <1>13, <1>14 DEF Next

(* The producer of stream r has its next chunk, the end marker or more to   *)
(* come, room for what it holds or the end of its wait; or the pacer has a  *)
(* frame to play or the sentinel.                                           *)
GoesOn(r) ==
    \/ prod[r] = "read" /\ (q[r].n > 0 \/ q[r].end \/ cur = r)
    \/ prod[r] \in {"put", "end"} /\ Room(r)
    \/ prod[r] = "drain" /\ DrainOver(r)
    \/ pacer[r] = "run" /\ ((jb[r].n > 0 /\ alive # "over") \/ (jb[r].n = 0 /\ jb[r].s))

(* What EndedStreamForgotten rests on (streaming_playback_manager.py,       *)
(* producer, pacer and clean-up): a registered stream whose transport works *)
(* is being cleaned up or can go on; producer, pacer and whoever fills the  *)
(* queue never wait for one another.                                        *)
StreamGoesOn ==
    odd \subseteq {"joined"} /\ entry # 0 /\ entry \notin failed => cleaning.id = entry \/ GoesOn(entry)

THEOREM NoStreamStuck == Spec => []StreamGoesOn
<1>1. Init => FedInv
  BY DEF Init, FedInv, Worker, Fed, Stoppers
<1>2. ASSUME IInv, DrainInv, FedInv, [Next]_vars
      PROVE  FedInv'
  <2>1. CASE Next
    BY <1>2, <2>1, WorkerKeeps, FedKeeps DEF IInv, DrainInv, FedInv
  <2>2. CASE UNCHANGED vars
    BY <1>2, <2>2 DEF FedInv, Worker, Fed, vars, engine, player
  <2> QED
    BY <1>2, <2>1, <2>2
<1>3. ASSUME IInv, DrainInv, FedInv
      PROVE  StreamGoesOn
  <2>1. SUFFICES ASSUME odd \subseteq {"joined"}, entry # 0, entry \notin failed, cleaning.id # entry
                 PROVE  GoesOn(entry)
    BY DEF StreamGoesOn
  <2> USE <1>3, DrainTypes
  <2>2. cleaning = Nobody /\ cleaning.by \notin Stoppers /\ entry \in Ids
    BY <2>1, BargersDiffer DEF IInv, Tasks, Registered, Apart, Nobody
  <2>3. prod[entry] \in {"read", "put", "end", "close", "drain"}
    BY <2>1, <2>2 DEF IInv, EntryRuns, Running, Tasks, OneCleaner, Nobody, ProducerAt
  <2>4. alive # "over"
    BY <2>1, <2>2 DEF IInv, StoppedByEnd
  <2>5. pacer[entry] \in {"run", "done"} /\ (q[entry].end \/ cur = entry)
    <3>1. Fed /\ pacer[entry] \in {"none", "run", "done"}
      BY <2>2 DEF IInv, FedInv
    <3>2. pacer[entry] # "none" /\ (q[entry].end \/ cur = entry)
      BY <2>1, <2>2, <3>1, Zenon DEF Fed
    <3> QED
      BY <3>1, <3>2
  <2>6. pacer[entry] = "done" => prod[entry] = "drain"
    BY <2>1, <2>2, <2>3 DEF DrainInv, HeardOut
  <2>7. prod[entry] # "close"
    BY <2>2, <2>6 DEF IInv, Tasks, CancelledFirst
  <2>8. CASE prod[entry] = "read"
    BY <2>5, <2>8 DEF GoesOn
  <2>9. CASE pacer[entry] = "done"
    BY <2>6, <2>9 DEF GoesOn, DrainOver
  <2>10. CASE pacer[entry] = "run" /\ prod[entry] \in {"put", "end", "drain"}
    <3>1. jb[entry].n > 0 \/ jb[entry].n = 0
      <4>1. jb[entry] \in Frames
        BY <2>2 DEF IInv
      <4>2. jb[entry].n \in 0 .. JitterCap
        BY <4>1 DEF Frames
      <4> QED
        BY <4>2, StreamingAssumption
    <3>2. jb[entry].n = 0 /\ ~jb[entry].s => Room(entry) /\ DrainOver(entry)
      BY StreamingAssumption DEF Room, DrainOver
    <3> QED
      BY <2>4, <2>10, <3>1, <3>2 DEF GoesOn
  <2> QED
    BY <2>3, <2>5, <2>7, <2>8, <2>9, <2>10
<1> QED
  BY <1>1, <1>2, <1>3, DrainHolds, Safety, PTL DEF Spec
=============================================================================
