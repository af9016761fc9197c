--------------------------- MODULE PipelineDialog ---------------------------
(***************************************************************************)
(* One call's pipeline runner: the greeting, the speech-to-text tasks that *)
(* fill the transcript queue, the dialog worker that accumulates           *)
(* transcripts until they are worth a turn, its flush timer, and the turns *)
(* themselves (LLM, speech, tools, follow-up).  Transcripts are numbered   *)
(* as they are heard; a turn is a coroutine of the worker or of a flush    *)
(* task, and the worker and the flush tasks share pending_segments.        *)
(***************************************************************************)
EXTENDS Naturals, FiniteSets, SequencesExt

CONSTANTS Streaming,  \* the STT modes: TRUE for a stream, FALSE for chunks
          Tools,      \* tools allowed in the call's context
          Guarded,    \* the hangup guardrail is enabled
          QueueCap,   \* transcripts the queue holds (8)
          MinWords,   \* aggregation_min_words
          MaxHeard,   \* bound: transcripts of the call
          MaxTurns    \* bound: turns of the call

\* Assumed by the module that gives the constants their values.
DialogAssumption ==
    /\ Streaming \subseteq BOOLEAN /\ Guarded \in BOOLEAN
    /\ Tools \subseteq {"hangup", "transfer", "other"}
    /\ QueueCap \in Nat \ {0} /\ MinWords \in Nat
    /\ MaxHeard \in Nat /\ MaxTurns \in Nat

VARIABLES
    streaming,
    runner,    \* "new", "greeting", "run" or "over"
    stt,       \* the receiver, or the chunk worker, is running
    kinds,     \* the transcripts heard: "short", "long", "bye" or "blank"
    tq,        \* transcript_queue; 0 stands for None
    worker,    \* the dialog worker: "none", "get", "turn", "last" or "over"
    pending,   \* pending_segments
    flush,     \* flush_task is set and sleeping
    turns,     \* the turns begun, in order
    dropped,   \* history: transcripts the full queue lost
    raced      \* history: the worker took a transcript during a flush task's turn

vars == <<streaming, runner, stt, kinds, tq, worker, pending, flush, turns, dropped,
          raced>>
dialog == <<worker, pending, flush, turns, raced>>

None == 0
Words(t) == IF kinds[t] = "long" THEN MinWords ELSE 1
WordsIn(text) == FoldSeq(LAMBDA t, n : Words(t) + n, 0, text)
Intent(text) == \E i \in DOMAIN text : kinds[text[i]] = "bye"
Going(k) == turns[k].step # "done"

Init ==
    /\ streaming \in Streaming
    /\ runner = "new" /\ stt = FALSE /\ kinds = <<>> /\ tq = <<>>
    /\ worker = "none" /\ pending = <<>> /\ flush = FALSE /\ turns = <<>>
    /\ dropped = {} /\ raced = FALSE

-----------------------------------------------------------------------------
(* _pipeline_runner up to its workers.                                      *)

\* The adapters are opened; failures are logged.
RunnerStarts ==
    /\ runner = "new" /\ runner' = "greeting"
    /\ UNCHANGED <<streaming, stt, kinds, tq, dropped, dialog>>

\* The greeting is spoken, or given up after two attempts.
Greeted ==
    /\ runner = "greeting" /\ runner' = "run"
    /\ stt' = TRUE /\ worker' = "get"
    /\ UNCHANGED <<streaming, kinds, tq, pending, flush, turns, dropped, raced>>

\* start_stream fails: the runner ends before its tasks exist.
StreamRefused ==
    /\ runner = "greeting" /\ streaming /\ runner' = "over"
    /\ UNCHANGED <<streaming, stt, kinds, tq, dropped, dialog>>

-----------------------------------------------------------------------------
(* Transcripts.                                                             *)

\* The queue grows past its size.
Enqueued_Unbounded(t) == tq' = Append(tq, t) /\ UNCHANGED dropped

\* A full queue loses its oldest transcript.
Enqueued(t) ==
    IF Len(tq) < QueueCap
    THEN tq' = Append(tq, t) /\ UNCHANGED dropped
    ELSE tq' = Append(Tail(tq), t) /\ dropped' = dropped \cup {Head(tq)}

\* A streaming adapter may report a blank result; the chunk worker does not.
TranscriptArrives(kind) ==
    /\ stt /\ Len(kinds) < MaxHeard
    /\ kind = "blank" => streaming
    /\ kinds' = Append(kinds, kind)
    /\ Enqueued(Len(kinds'))
    /\ UNCHANGED <<streaming, runner, stt, dialog>>

\* TalkDetect's early flush, at any time before the call's cleanup: a full
\* queue loses the new transcript.
EarlyFlush(kind) ==
    /\ runner # "over" /\ kind # "blank" /\ Len(kinds) < MaxHeard
    /\ kinds' = Append(kinds, kind)
    /\ IF Len(tq) < QueueCap
       THEN tq' = Append(tq, Len(kinds')) /\ UNCHANGED dropped
       ELSE dropped' = dropped \cup {Len(kinds')} /\ UNCHANGED tq
    /\ UNCHANGED <<streaming, runner, stt, dialog>>

\* iter_results ends or fails: None follows the transcripts, if there is room.
SttLost ==
    /\ stt /\ streaming
    /\ stt' = FALSE
    /\ tq' = IF Len(tq) < QueueCap THEN Append(tq, None) ELSE tq
    /\ UNCHANGED <<streaming, runner, kinds, dropped, dialog>>

-----------------------------------------------------------------------------
(* dialog_worker, maybe_respond and the flush task.                         *)

Turn(by, text) == [by |-> by, text |-> text, step |-> "llm", tool |-> "none"]

Begun(by, text) == turns' = Append(turns, Turn(by, text))
FlushTurnRuns == \E k \in DOMAIN turns : turns[k].by = "flush" /\ Going(k)
Took == tq' = Tail(tq) /\ raced' = (raced \/ FlushTurnRuns)

\* The timer is not armed for a transcript that does not suffice.
Accumulates_NoTimer(text) == WordsIn(text) < MinWords /\ flush' = FALSE /\ UNCHANGED turns

\* Not worth a turn yet: the flush timer is started again.
Accumulates(text) == WordsIn(text) < MinWords /\ flush' = TRUE /\ UNCHANGED turns

WorkerHears ==
    /\ worker = "get" /\ tq # <<>> /\ Head(tq) # None /\ kinds[Head(tq)] # "blank"
    /\ Took
    /\ pending' = Append(pending, Head(tq))
    /\ \/ Accumulates(pending') /\ UNCHANGED worker
       \/ /\ WordsIn(pending') >= MinWords /\ Len(turns) < MaxTurns
          /\ flush' = FALSE /\ Begun("worker", pending') /\ worker' = "turn"
    /\ UNCHANGED <<streaming, runner, stt, kinds, dropped>>

WorkerHearsBlank ==
    /\ worker = "get" /\ tq # <<>> /\ Head(tq) # None /\ kinds[Head(tq)] = "blank"
    /\ Took
    /\ flush' = (flush \/ pending # <<>>)
    /\ UNCHANGED <<streaming, runner, stt, kinds, dropped, worker, pending, turns>>

\* None: what is pending gets a turn, then the worker ends.
WorkerHearsNone ==
    /\ worker = "get" /\ tq # <<>> /\ Head(tq) = None
    /\ Took /\ flush' = FALSE
    /\ IF pending = <<>>
       THEN worker' = "over" /\ UNCHANGED turns
       ELSE Len(turns) < MaxTurns /\ worker' = "last" /\ Begun("worker", pending)
    /\ UNCHANGED <<streaming, runner, stt, kinds, dropped, pending>>

\* aggregation_timeout_sec without a transcript.  The timer is no longer
\* flush_task while its turn runs.
FlushFires ==
    /\ flush /\ flush' = FALSE
    /\ IF pending = <<>> THEN UNCHANGED turns
       ELSE Len(turns) < MaxTurns /\ Begun("flush", pending)
    /\ UNCHANGED <<streaming, runner, stt, kinds, tq, dropped, worker, pending, raced>>

-----------------------------------------------------------------------------
(* run_turn.                                                                *)

To(k, step) == turns' = [turns EXCEPT ![k].step = step]

\* What is pending after a turn stays pending.
PendingCleared_Never == UNCHANGED pending

\* Whatever is pending when run_turn has returned is cleared.
PendingCleared == pending' = <<>>

Ends(k) ==
    /\ turns' = [turns EXCEPT ![k].step = "done", ![k].tool = "none"]
    /\ PendingCleared
    /\ worker' = IF turns[k].by = "flush" THEN worker ELSE IF worker = "last" THEN "over" ELSE "get"

Stays(k, step) == To(k, step) /\ UNCHANGED <<worker, pending>>
StepFrame == UNCHANGED <<streaming, runner, stt, kinds, tq, dropped, flush, raced>>

NextStep(text, tool) == IF text THEN "speak" ELSE IF tool # "none" THEN "tool" ELSE "retry"
Honoured(k, tool) == IF Guarded /\ tool = "hangup" /\ ~Intent(turns[k].text) THEN "none" ELSE tool

\* The model fails, says nothing, or answers with text, a tool call or both; a
\* hangup nobody asked for is dropped, and without text the model is asked again.
Generated(k) ==
    /\ turns[k].step = "llm"
    /\ \/ Ends(k)
       \/ \E text \in BOOLEAN, tool \in Tools \cup {"none"} :
            /\ text \/ tool # "none"
            /\ turns' = [turns EXCEPT ![k].step = NextStep(text, Honoured(k, tool)),
                                      ![k].tool = Honoured(k, tool)]
            /\ UNCHANGED <<worker, pending>>
    /\ StepFrame

GeneratedAgain(k) ==
    /\ turns[k].step = "retry"
    /\ Ends(k) \/ Stays(k, "speak")
    /\ StepFrame

\* Spoken, or the synthesis failed: the tools follow in either case.
Spoken(k) ==
    /\ turns[k].step = "speak"
    /\ IF turns[k].tool = "none" THEN Ends(k) ELSE Stays(k, "tool")
    /\ StepFrame

\* A tool that raises, and a transfer, done or not, end the turn.
ToolDone(k) ==
    /\ turns[k].step = "tool"
    /\ \/ Ends(k)
       \/ turns[k].tool = "hangup" /\ Stays(k, "farewell")
       \/ turns[k].tool # "transfer" /\ Stays(k, "followup")
    /\ StepFrame

\* The tool's result goes back to the model, which may ask for one more round.
FollowedUp(k) ==
    /\ turns[k].step = "followup"
    /\ Ends(k) \/ ("hangup" \in Tools /\ Stays(k, "farewell"))
    /\ StepFrame

\* The farewell is spoken and the caller hung up.
HungUp(k) ==
    /\ turns[k].step = "farewell"
    /\ Ends(k)
    /\ StepFrame

TurnStep(k) ==
    \/ Generated(k) \/ GeneratedAgain(k) \/ Spoken(k) \/ ToolDone(k) \/ FollowedUp(k) \/ HungUp(k)

-----------------------------------------------------------------------------
(* The end of the runner.                                                   *)

\* The worker's own turn is cancelled with it, and the timer; a flush task's
\* turn is neither.
Cut == [k \in DOMAIN turns |->
          IF turns[k].by = "worker" THEN [turns[k] EXCEPT !.step = "done"] ELSE turns[k]]

\* The call's cleanup, or a transfer that takes the agent out of the call.  Nothing else
\* ends it: the queue's end marker is put after the cancellation.
RunnerCancelled ==
    /\ runner # "over" /\ runner' = "over"
    /\ stt' = FALSE /\ tq' = <<>>
    /\ worker' = IF worker = "none" THEN "none" ELSE "over"
    /\ flush' = FALSE /\ turns' = Cut
    /\ UNCHANGED <<streaming, kinds, dropped, pending, raced>>

-----------------------------------------------------------------------------

Kinds == {"short", "long", "bye", "blank"}

Worker == WorkerHears \/ WorkerHearsBlank \/ WorkerHearsNone

Next ==
    \/ RunnerStarts \/ Greeted \/ StreamRefused
    \/ \E kind \in Kinds : TranscriptArrives(kind) \/ EarlyFlush(kind)
    \/ SttLost \/ Worker \/ FlushFires
    \/ \E k \in 1 .. MaxTurns : k \in DOMAIN turns /\ TurnStep(k)
    \/ RunnerCancelled

\* Tasks that are ready run, timers expire, adapters and tools answer.
Fairness ==
    /\ WF_vars(Worker) /\ WF_vars(FlushFires)
    /\ \A k \in 1 .. MaxTurns : WF_vars(k \in DOMAIN turns /\ TurnStep(k))

Spec == Init /\ [][Next]_vars /\ Fairness
-----------------------------------------------------------------------------
(* Properties.                                                              *)

Heard == 1 .. Len(kinds)
Answers(t) == {k \in DOMAIN turns : t \in ToSet(turns[k].text)}

TypeOK ==
    /\ streaming \in BOOLEAN /\ runner \in {"new", "greeting", "run", "over"} /\ stt \in BOOLEAN
    /\ \A t \in Heard : kinds[t] \in Kinds
    /\ Len(tq) <= QueueCap /\ ToSet(tq) \subseteq Heard \cup {None}
    /\ worker \in {"none", "get", "turn", "last", "over"}
    /\ ToSet(pending) \subseteq Heard /\ flush \in BOOLEAN /\ raced \in BOOLEAN
    /\ \A k \in DOMAIN turns :
         /\ turns[k].by \in {"worker", "flush"} /\ turns[k].tool \in Tools \cup {"none"}
         /\ turns[k].step \in {"llm", "retry", "speak", "tool", "farewell", "followup", "done"}
         /\ ToSet(turns[k].text) \subseteq Heard
    /\ dropped \subseteq Heard

\* What the caller says is answered in one turn only, unless it was heard while
\* a flush task's turn was running (engine.py, maybe_respond: pending_segments
\* is cleared after run_turn, not before).
AnsweredOnce == ~raced => \A t \in Heard : Cardinality(Answers(t)) <= 1

\* As long as the runner and the speech recognition go on, what the caller says
\* is answered, or lost to a full queue.
SpeechAnswered ==
    \A t \in 1 .. MaxHeard :
        (t \in Heard /\ kinds[t] # "blank" /\ worker # "none") ~>
            (Answers(t) # {} \/ t \in dropped \/ raced \/ worker = "over" \/ Len(turns) = MaxTurns)
=============================================================================
