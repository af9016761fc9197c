------------------------- MODULE StreamingPlayback -------------------------
(***************************************************************************)
(* The audio streams of one call: the provider's or the pipeline's audio   *)
(* queue, StreamingPlaybackManager's producer and pacer tasks with the     *)
(* jitter buffer between them, barge-ins, and the first step of the        *)
(* call's cleanup.  Everything the manager keeps is keyed by the call, so  *)
(* streams of one call meet and streams of two calls do not.  Stream r     *)
(* reads queue r.  A chunk is longer than the start-up threshold.          *)
(***************************************************************************)
EXTENDS Naturals, FiniteSets

CONSTANTS Speakers,   \* who speaks, drawn in Init: a mode, "continuous", "segment" or
                      \* "pipeline", and a kind, "agent" (it gates its turns) or "raw"
          MaxQueues,  \* bound: queues created in the call
          Chunks,     \* bound: chunks of one reply
          QueueCap,   \* chunks a queue holds (256)
          JitterCap,  \* entries the jitter buffer holds
          Bargers,    \* tasks that may apply a barge-in at the same time
          MayFail     \* TRUE when sending to Asterisk may fail

ASSUME StreamingAssumption ==
    /\ Speakers \subseteq {"continuous", "segment", "pipeline"} \X {"agent", "raw"}
    /\ MaxQueues \in Nat /\ Chunks \in Nat /\ MayFail \in BOOLEAN
    /\ QueueCap \in Nat \ {0} /\ JitterCap \in Nat \ {0}
    /\ Bargers \cap {"end", "pipe", "producer", "none"} = {}

VARIABLES
    mode, kind,
    alive,      \* the session: "up", "ending" (in cleanup) or "over" (removed)
    cur,        \* _provider_stream_queues[call], or the dialog worker's queue; 0: none
    used,       \* queues created
    said,       \* chunks of the reply that is being received
    q,          \* the queues: chunks, and whether the end marker follows
    entry,      \* active_streams[call]; 0: none
    jb,         \* the streams' jitter buffers: chunks, and whether the sentinel follows
    prod,       \* where each stream's producer is
    waits,      \* the stream whose pacer a closing producer waits for
    pacer,      \* each stream's pacer: "none", "run" or "done"
    keepalive,  \* keepalive_tasks[call]; 0: none
    tokens,     \* the streams' gating tokens, and 0, the fallback token of a segment
    segOn,      \* the call is in _segment_tts_active
    cleaning,   \* who is in _cleanup_stream, for which stream
    stopper,    \* each caller of stop_streaming_playback: "idle", "grace" or "after"
    pipe,       \* the pipeline's dialog worker: "idle", "synth" or "over"
    failed,     \* history: streams whose transport failed, or given up as too late
    odd         \* history: "overlapped", "joined", "aborted", "late"

engine == <<mode, kind, alive, cur, used, said, segOn, pipe>>
player == <<q, entry, jb, prod, waits, pacer, keepalive, cleaning, failed>>
vars   == <<engine, player, tokens, stopper, odd>>

Ids      == 1 .. MaxQueues
Stoppers == Bargers \cup {"end", "pipe"}
SegmentToken == 0
Nobody   == [by |-> "none", id |-> 0]
Running(r) == r # 0 /\ prod[r] \notin {"none", "done"}   \* is_stream_active, for the entry

\* continuous_stream is on unless the mode says otherwise.
TimesOut == mode = "segment"
Gated    == mode = "pipeline" \/ kind = "raw"

Init ==
    /\ \E s \in Speakers : mode = s[1] /\ kind = s[2]
    /\ alive = "up" /\ cur = 0 /\ used = 0 /\ said = 0 /\ segOn = FALSE /\ pipe = "idle"
    /\ q = [r \in Ids |-> [n |-> 0, end |-> FALSE]]
    /\ jb = [r \in Ids |-> [n |-> 0, s |-> FALSE]]
    /\ prod = [r \in Ids |-> "none"] /\ pacer = [r \in Ids |-> "none"]
    /\ waits = [r \in Ids |-> 0]
    /\ entry = 0 /\ keepalive = 0 /\ cleaning = Nobody
    /\ tokens = {} /\ stopper = [b \in Stoppers |-> "idle"]
    /\ failed = {} /\ odd = {}

-----------------------------------------------------------------------------
(* start_streaming_playback, run without suspension by its callers.         *)

Reused == Running(entry)

\* A running stream is reused: whoever asked gets its id, and queue r no reader.
StartStream(r) ==
    IF Reused
    THEN /\ odd' = odd \cup {"joined"}
         /\ UNCHANGED <<entry, keepalive, prod, pacer>>
    ELSE /\ entry' = r /\ keepalive' = r
         /\ prod' = [prod EXCEPT ![r] = "read"] /\ pacer' = [pacer EXCEPT ![r] = "run"]
         /\ odd' = odd \cup (IF cleaning # Nobody THEN {"overlapped"} ELSE {})
                       \cup (IF alive = "ending" THEN {"late"} ELSE {})

StartTokens(r) == IF Gated /\ ~Reused THEN {r} ELSE {}

-----------------------------------------------------------------------------
(* The provider's events.                                                   *)

\* start_segment_gating, and the fallback token when the gate stayed open.
SegmentTokens ==
    IF mode = "continuous" /\ ~segOn
    THEN IF entry # 0 THEN {entry} ELSE IF tokens = {} THEN {SegmentToken} ELSE {}
    ELSE {}

\* put_nowait on a queue without a bound.
Enqueued_Unbounded(r) == [q EXCEPT ![r].n = @ + 1]

\* put_nowait, a full queue drops the chunk.
Enqueued(r) == [q EXCEPT ![r].n = IF @ < QueueCap THEN @ + 1 ELSE @]

\* One chunk of a reply.  Without a queue a new one is made and a stream asked
\* for.
AgentAudio ==
    /\ mode # "pipeline" /\ alive # "over" /\ said < Chunks
    /\ said' = said + 1
    /\ segOn' = (segOn \/ mode = "continuous")
    /\ \/ /\ cur # 0
          /\ q' = Enqueued(cur)
          /\ tokens' = tokens \cup SegmentTokens
          /\ UNCHANGED <<cur, used, entry, keepalive, prod, pacer, odd>>
       \/ /\ cur = 0 /\ used < MaxQueues
          /\ cur' = used + 1 /\ used' = used + 1
          /\ StartStream(cur')
          /\ q' = Enqueued(cur')
          /\ tokens' = tokens \cup SegmentTokens \cup StartTokens(cur')
    /\ UNCHANGED <<mode, kind, alive, pipe, jb, waits, cleaning, failed, stopper>>

\* The reply ends.  A continuous stream stays; otherwise the queue gets the end
\* marker and is forgotten, so that the next chunk makes a new one.
AgentAudioDone ==
    /\ mode # "pipeline" /\ alive # "over" /\ said > 0
    /\ said' = 0
    /\ IF mode = "continuous"
       THEN /\ tokens' = tokens \ {entry, SegmentToken}
            /\ segOn' = (segOn /\ kind = "agent")
            /\ UNCHANGED <<q, cur>>
       ELSE /\ q' = IF cur = 0 THEN q ELSE [q EXCEPT ![cur].end = TRUE]
            /\ cur' = 0
            /\ UNCHANGED <<tokens, segOn>>
    /\ UNCHANGED <<mode, kind, alive, used, pipe, entry, jb, prod, waits, pacer, keepalive,
                   cleaning, failed, stopper, odd>>

-----------------------------------------------------------------------------
(* The pipeline's dialog worker, one reply after the other.                 *)

Synthesising == pipe = "synth" /\ stopper["pipe"] = "idle"

ReplyStarts ==
    /\ mode = "pipeline" /\ pipe = "idle" /\ alive # "over" /\ used < MaxQueues
    /\ pipe' = "synth" /\ said' = 0
    /\ cur' = used + 1 /\ used' = used + 1
    /\ StartStream(cur')
    /\ tokens' = tokens \cup StartTokens(cur')
    /\ UNCHANGED <<mode, kind, alive, segOn, q, jb, waits, cleaning, failed, stopper>>

\* put waits for room.
ReplyChunk ==
    /\ Synthesising /\ said < Chunks /\ q[cur].n < QueueCap
    /\ said' = said + 1 /\ q' = [q EXCEPT ![cur].n = @ + 1]
    /\ UNCHANGED <<mode, kind, alive, cur, used, segOn, pipe, entry, jb, prod, waits, pacer,
                   keepalive, cleaning, failed, tokens, stopper, odd>>

ReplyEnds ==
    /\ Synthesising /\ said > 0
    /\ pipe' = "idle" /\ cur' = 0 /\ q' = [q EXCEPT ![cur].end = TRUE]
    /\ UNCHANGED <<mode, kind, alive, used, said, segOn, entry, jb, prod, waits, pacer,
                   keepalive, cleaning, failed, tokens, stopper, odd>>

-----------------------------------------------------------------------------
(* The producer, _stream_audio_loop.  "put": a chunk waits for room; "end": *)
(* the sentinel does; "close": it does in the finally clause; "drain": the  *)
(* pacer is waited for; "grace": in _cleanup_stream.                        *)

Room(r) == jb[r].n + (IF jb[r].s THEN 1 ELSE 0) < JitterCap

Takes(r) ==
    /\ prod[r] = "read" /\ q[r].n > 0
    /\ q' = [q EXCEPT ![r].n = @ - 1] /\ prod' = [prod EXCEPT ![r] = "put"]
    /\ UNCHANGED <<engine, entry, jb, waits, pacer, keepalive, cleaning, failed, tokens,
                   stopper, odd>>

Puts(r) ==
    /\ prod[r] = "put" /\ Room(r)
    /\ jb' = [jb EXCEPT ![r].n = @ + 1] /\ prod' = [prod EXCEPT ![r] = "read"]
    /\ UNCHANGED <<engine, q, entry, waits, pacer, keepalive, cleaning, failed, tokens,
                   stopper, odd>>

SeesEnd(r) ==
    /\ prod[r] = "read" /\ q[r].n = 0 /\ q[r].end
    /\ prod' = [prod EXCEPT ![r] = "end"]
    /\ UNCHANGED <<engine, q, entry, jb, waits, pacer, keepalive, cleaning, failed, tokens,
                   stopper, odd>>

\* The registered buffer is emptied into a file playback, the sentinel dropped.
Emptied == IF alive = "over" \/ entry = 0 THEN jb
           ELSE [jb EXCEPT ![entry] = [n |-> 0, s |-> FALSE]]

\* No chunk for fallback_timeout_ms, in a stream that is not continuous.
TimedOut(r) ==
    /\ TimesOut /\ prod[r] = "read" /\ q[r].n = 0 /\ ~q[r].end
    /\ jb' = Emptied /\ prod' = [prod EXCEPT ![r] = "end"] /\ failed' = failed \cup {r}
    /\ UNCHANGED <<engine, q, entry, waits, pacer, keepalive, cleaning, tokens, stopper, odd>>

\* The pacer to wait for is that of the stream registered now.
PutsSentinel(r) ==
    /\ prod[r] \in {"end", "close"} /\ Room(r)
    /\ jb' = [jb EXCEPT ![r].s = TRUE]
    /\ prod' = [prod EXCEPT ![r] = "drain"] /\ waits' = [waits EXCEPT ![r] = entry]
    /\ UNCHANGED <<engine, q, entry, pacer, keepalive, cleaning, failed, tokens, stopper, odd>>

\* The wait for the pacer is too short for what the buffer holds.
DrainOver_Capped(r) == TRUE

\* The time allowed covers what the buffer holds: it runs out only if the pacer
\* belongs to another stream or will see no sentinel.
DrainOver(r) == waits[r] # r \/ pacer[r] = "done" \/ (jb[r].n = 0 /\ ~jb[r].s)

\* The pacer is cancelled; a cleanup that is under way is not repeated.
Drained(r) ==
    /\ prod[r] = "drain" /\ DrainOver(r)
    /\ pacer' = IF waits[r] = 0 THEN pacer ELSE [pacer EXCEPT ![waits[r]] = "done"]
    /\ keepalive' = 0
    /\ IF cleaning = Nobody
       THEN cleaning' = [by |-> "producer", id |-> r] /\ prod' = [prod EXCEPT ![r] = "grace"]
       ELSE prod' = [prod EXCEPT ![r] = "done"] /\ UNCHANGED cleaning
    /\ UNCHANGED <<engine, q, entry, jb, waits, failed, tokens, stopper, odd>>

-----------------------------------------------------------------------------
(* The pacer and the keepalive loop.                                        *)

Plays(r) ==
    /\ pacer[r] = "run" /\ entry # 0 /\ jb[r].n > 0 /\ alive # "over"
    /\ jb' = [jb EXCEPT ![r].n = @ - 1]
    /\ UNCHANGED <<engine, q, entry, prod, waits, pacer, keepalive, cleaning, failed, tokens,
                   stopper, odd>>

\* The sentinel came after the last frame, or the stream is not registered.
PacerEnds(r) ==
    /\ pacer[r] = "run"
    /\ entry = 0 \/ (jb[r].n = 0 /\ jb[r].s)
    /\ pacer' = [pacer EXCEPT ![r] = "done"]
    /\ jb' = IF entry = 0 THEN jb ELSE [jb EXCEPT ![r].s = FALSE]
    /\ UNCHANGED <<engine, q, entry, prod, waits, keepalive, cleaning, failed, tokens,
                   stopper, odd>>

PacerFails(r) ==
    /\ MayFail \/ alive = "over"
    /\ pacer[r] = "run" /\ entry # 0
    /\ pacer' = [pacer EXCEPT ![r] = "done"]
    /\ jb' = Emptied
    /\ failed' = failed \cup {r}
    /\ UNCHANGED <<engine, q, entry, prod, waits, keepalive, cleaning, tokens, stopper, odd>>

\* connection_timeout_ms after the stream's start.
KeepaliveTimesOut ==
    /\ TimesOut /\ keepalive # 0 /\ entry # 0
    /\ jb' = Emptied /\ keepalive' = 0
    /\ UNCHANGED <<engine, q, entry, prod, waits, pacer, cleaning, failed, tokens, stopper, odd>>

-----------------------------------------------------------------------------
(* _cleanup_stream after its grace period, and its callers.                 *)

\* The stream is deregistered but its token is kept.
Cleaned_TokenKept(id) ==
    /\ entry' = 0
    /\ UNCHANGED tokens
    /\ cleaning' = Nobody

\* The token is the stream's own, what is deregistered is whatever is registered.
Cleaned(id) ==
    /\ tokens' = tokens \ {id}
    /\ entry' = 0
    /\ cleaning' = Nobody

\* A cancelled producer that can go on does so long before a grace period ends.
Calm == \A r \in Ids : ~(prod[r] = "close" /\ Room(r)) /\ ~(prod[r] = "drain" /\ DrainOver(r))

ProducerCleans(r) ==
    /\ prod[r] = "grace" /\ Calm
    /\ Cleaned(r)
    /\ prod' = [prod EXCEPT ![r] = "done"]
    /\ UNCHANGED <<engine, q, jb, waits, pacer, keepalive, failed, stopper, odd>>

\* The producer is left running.
Cancelled_Not(step) == step

\* What a producer does when it is cancelled: its own cleanup is abandoned.
Cancelled(step) ==
    CASE step \in {"read", "put", "end"} -> "close"
      [] step \in {"close", "drain"} -> "drain"
      [] OTHER -> "done"

\* The queue of the interrupted reply is kept.
Returned_QueueKept(b) ==
    /\ stopper' = [stopper EXCEPT ![b] = "after"]
    /\ UNCHANGED cur

\* stop_streaming_playback returns: a barge-in forgets the provider's queue at
\* once; the dialog worker keeps the queue it is filling.
Returned(b) ==
    /\ stopper' = [stopper EXCEPT ![b] = "after"]
    /\ cur' = IF b \in Bargers /\ mode # "pipeline" THEN 0 ELSE cur

\* The registered stream's tasks are cancelled and it is cleaned up, unless a
\* cleanup is already on its way.
Stop(b) ==
    IF entry = 0
    THEN /\ Returned(b)
         /\ UNCHANGED <<prod, waits, pacer, keepalive, cleaning, odd>>
    ELSE /\ prod' = [prod EXCEPT ![entry] = Cancelled(@)]
         /\ waits' = IF prod[entry] = "close" THEN [waits EXCEPT ![entry] = entry] ELSE waits
         /\ pacer' = [pacer EXCEPT ![entry] = "done"] /\ keepalive' = 0
         /\ LET own == prod[entry] = "grace" IN
            IF cleaning = Nobody
            THEN /\ cleaning' = [by |-> b, id |-> entry]
                 /\ stopper' = [stopper EXCEPT ![b] = "grace"] /\ UNCHANGED <<cur, odd>>
            ELSE /\ cleaning' = IF own THEN Nobody ELSE cleaning
                 /\ odd' = IF own THEN odd \cup {"aborted"} ELSE odd
                 /\ Returned(b)

StopperCleans(b) ==
    /\ stopper[b] = "grace" /\ Calm
    /\ Cleaned(cleaning.id)
    /\ Returned(b)
    /\ UNCHANGED <<mode, kind, alive, used, said, segOn, pipe, q, jb, prod, waits, pacer,
                   keepalive, failed, odd>>

\* A barge-in is applied while the agent can be heard or the gate is closed.
BargeInStops(b) ==
    /\ b \in Bargers /\ stopper[b] = "idle" /\ alive # "over"
    /\ Running(entry) \/ tokens # {}
    /\ Stop(b)
    /\ UNCHANGED <<mode, kind, alive, used, said, segOn, pipe, q, entry, jb, failed, tokens>>

\* The ARI playbacks are stopped, then every token is released.
BargeInReleases(b) ==
    /\ b \in Bargers /\ stopper[b] = "after"
    /\ stopper' = [stopper EXCEPT ![b] = "idle"]
    /\ tokens' = {}
    /\ UNCHANGED <<engine, player, odd>>

\* Synthesis fails: the call's stream is stopped, then a file is played.
ReplyFails ==
    /\ Synthesising
    /\ Stop("pipe")
    /\ UNCHANGED <<mode, kind, alive, used, said, segOn, pipe, q, entry, jb, failed, tokens>>

ReplyPlayedFromFile ==
    /\ stopper["pipe"] = "after"
    /\ stopper' = [stopper EXCEPT !["pipe"] = "idle"]
    /\ pipe' = IF pipe = "synth" THEN "idle" ELSE pipe
    /\ cur' = IF pipe = "synth" THEN 0 ELSE cur
    /\ UNCHANGED <<mode, kind, alive, used, said, segOn, player, tokens, odd>>

CallEnds ==
    /\ alive = "up" /\ alive' = "ending"
    /\ Stop("end")
    /\ UNCHANGED <<mode, kind, used, said, segOn, pipe, q, entry, jb, failed, tokens>>

\* The rest of _cleanup_call: the provider is stopped, the dialog worker
\* cancelled (a stream cleanup of its own is abandoned), the session removed.
SessionRemoved ==
    /\ alive = "ending" /\ stopper["end"] = "after"
    /\ alive' = "over" /\ pipe' = "over" /\ tokens' = {}
    /\ stopper' = [stopper EXCEPT !["end"] = "idle", !["pipe"] = "idle"]
    /\ IF stopper["pipe"] = "grace"
       THEN cleaning' = Nobody /\ odd' = odd \cup {"aborted"}
       ELSE UNCHANGED <<cleaning, odd>>
    /\ UNCHANGED <<mode, kind, cur, used, said, segOn, q, entry, jb, prod, waits, pacer,
                   keepalive, failed>>

-----------------------------------------------------------------------------

Producer(r) ==
    \/ Takes(r) \/ Puts(r) \/ SeesEnd(r) \/ PutsSentinel(r) \/ Drained(r) \/ ProducerCleans(r)
Pacer(r)    == Plays(r) \/ PacerEnds(r)
Stopping(b) == StopperCleans(b) \/ BargeInReleases(b)

Next ==
    \/ AgentAudio \/ AgentAudioDone
    \/ ReplyStarts \/ ReplyChunk \/ ReplyEnds \/ ReplyFails \/ ReplyPlayedFromFile
    \/ \E r \in Ids : Producer(r) \/ TimedOut(r) \/ Pacer(r) \/ PacerFails(r)
    \/ KeepaliveTimesOut
    \/ \E b \in Stoppers : BargeInStops(b) \/ Stopping(b)
    \/ CallEnds \/ SessionRemoved

\* Timers expire and the event loop runs every task that is ready.
Fairness ==
    /\ \A r \in Ids : WF_vars(Producer(r)) /\ WF_vars(Pacer(r))
    /\ \A b \in Stoppers : WF_vars(Stopping(b))
    /\ WF_vars(SessionRemoved) /\ WF_vars(ReplyPlayedFromFile)
    /\ WF_vars(ReplyChunk \/ ReplyEnds)

Spec == Init /\ [][Next]_vars /\ Fairness
-----------------------------------------------------------------------------
(* Properties.                                                              *)

Entries == [n : 0 .. QueueCap, end : BOOLEAN]
Frames  == [n : 0 .. JitterCap, s : BOOLEAN]
ProducerAt == {"none", "read", "put", "end", "close", "drain", "grace", "done"}
Cleaner == [by : Stoppers \cup {"producer", "none"}, id : Ids \cup {0}]

EngineType ==
    /\ <<mode, kind>> \in Speakers /\ alive \in {"up", "ending", "over"}
    /\ cur \in 0 .. used /\ used \in 0 .. MaxQueues /\ said \in 0 .. Chunks
    /\ segOn \in BOOLEAN /\ pipe \in {"idle", "synth", "over"}

BufferType == q \in [Ids -> Entries] /\ jb \in [Ids -> Frames]

TaskType ==
    /\ prod \in [Ids -> ProducerAt] /\ pacer \in [Ids -> {"none", "run", "done"}]
    /\ entry \in 0 .. used /\ keepalive \in 0 .. used /\ waits \in [Ids -> 0 .. used]
    /\ cleaning \in Cleaner /\ stopper \in [Stoppers -> {"idle", "grace", "after"}]

TypeOK ==
    /\ EngineType /\ BufferType /\ TaskType
    /\ tokens \subseteq Ids \cup {SegmentToken}
    /\ failed \subseteq Ids /\ odd \subseteq {"overlapped", "joined", "aborted", "late"}

\* Two streams never read their queues at once, hence never talk over each
\* other, unless one was started while another was being cleaned up.
OneReader ==
    "overlapped" \notin odd => Cardinality({r \in Ids : prod[r] \in {"read", "put"}}) <= 1

\* While the call goes on, the queue that a continuous stream's chunks are put
\* into is the one its producer reads; if it is not, a barge-in is about to
\* drop it (engine.py:7816, "If we keep the old queue, on_provider_event will
\* continue enqueueing but never restart streaming").
QueueHasReader ==
    mode = "continuous" /\ alive = "up" /\ cur # 0 =>
        \/ entry = cur /\ prod[cur] \in {"read", "put"}
        \/ \E b \in Bargers : stopper[b] # "idle"

\* The caller is never left unheard by a stream that is gone: a token is held
\* by a stream whose producer has not ended, by one that is being cleaned up,
\* or until a barge-in that is under way releases it; the fallback token until
\* the reply ends.  Abandoned and overlapped cleanups are excepted.
TokenHasReleaser ==
    odd \subseteq {"joined", "late"} /\ (\A b \in Bargers : stopper[b] = "idle") =>
        \A t \in tokens : IF t = SegmentToken THEN said > 0 ELSE Running(t) \/ cleaning.id = t

\* A stream that ends by itself, its reply over, has played, or handed to a file,
\* everything it was given (streaming_playback_manager.py:997, "the pacer must be allowed to
\* drain frame remainders; otherwise playback truncates").
PlayedOut ==
    [][ \A r \in Ids : prod[r] = "grace" /\ entry = r /\ entry' = 0 /\ odd' \subseteq {"joined"} =>
            r \in failed \/ (q[r].n = 0 /\ jb[r].n = 0) ]_vars

\* When the call is over and cleaned up nothing of it is read or played, unless a stream was
\* started after the cleanup stopped it or its cleanup was abandoned.
NothingPlaysAfterCall ==
    alive = "over" /\ cleaning = Nobody /\ odd \subseteq {"joined"} =>
        /\ entry = 0 /\ keepalive = 0
        /\ \A r \in Ids : prod[r] \notin {"read", "put", "end"} /\ pacer[r] # "run"

\* A reply whose end was announced is played and its stream deregistered, as
\* long as the transport works.
EndedStreamForgotten ==
    \A r \in Ids : (entry = r /\ q[r].end) ~> (entry # r \/ r \in failed \/ odd # {})

\* As above when the transport fails: the producer does not wait for ever
\* (streaming_playback_manager.py:1000, "We still cap the wait to avoid hanging
\* indefinitely on transport failures").  Violated: a producer whose pacer has
\* failed waits for room in the jitter buffer, where there is no cap.
FailedStreamForgotten ==
    \A r \in Ids : (entry = r /\ q[r].end) ~> (entry # r \/ odd # {})

\* The queue of a stream has its reader and no other (streaming_playback_manager.py,
\* start_streaming_playback and its producer).
QueueReadByOne == OneReader /\ QueueHasReader

\* A reply that was given its end is played in full, and its stream forgotten
\* (streaming_playback_manager.py, producer, pacer and clean-up).
RepliesPlayed == PlayedOut /\ EndedStreamForgotten
=============================================================================
