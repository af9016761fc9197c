--------------------------- MODULE LocalAiServer ---------------------------
(***************************************************************************)
(* local_ai_server: the sessions of the local AI server and what they      *)
(* share, the LLM and its lock.  A session's handler takes one message     *)
(* after another; besides it run the idle finalizers it has scheduled,     *)
(* each of which may promote what was heard to a final transcript and      *)
(* answer it.  An inference is a job: a shielded task that takes the lock  *)
(* and runs in a thread, which nothing can stop.  Left out: audio and      *)
(* prompt formats, model files, status, authentication, and the finals     *)
(* that Sherpa and Tone flush at the end of a turn.                        *)
(***************************************************************************)
EXTENDS Naturals, FiniteSets, SequencesExt

CONSTANTS Sessions,
          Plans,     \* drawn in Init: the backends of speech recognition ("vosk", "stream" or
                     \* "segments"), the messages each session's client sends and, a bound,
                     \* how many
          Modes,     \* drawn in Init for the sessions that send audio: "stt", "llm" or "full"
          Texts,     \* what is said; "bye" asks for the end of the call
          MaxTimers  \* bound: idle finalizers of each session

ASSUME ServerAssumption ==
    /\ \A p \in Plans :
         /\ p.backends \subseteq {"vosk", "stream", "segments"}
         /\ p.most \in [Sessions -> Nat]
         /\ p.sends \in [Sessions -> SUBSET {"audio", "barge_in", "tts_request", "llm_request",
                                            "llm_tool_request", "reload_llm", "reload_models"}]
    /\ Modes \subseteq {"stt", "llm", "full"}
    /\ "" \notin Texts /\ MaxTimers \in [Sessions -> Nat]

VARIABLES
    plan, mode, backend,
    sent,        \* messages each client has sent
    open,        \* the connection is up
    at,          \* what each coroutine <<session, task>> waits for; task 0 is the handler
    text,        \* the final transcript it handles
    idle_task,   \* the session's idle_task, or 0
    cancelled,   \* the tasks that will be woken by CancelledError
    recognizer,  \* the session's: "none", "silent" or "speech" (words not yet final)
    dropped,     \* the chunk being fed goes to a recognizer the session has dropped
    last_final_text,  \* "unset" until the first reset
    user,        \* the last user turn of llm_messages, "" if there is none
    suppressed,  \* stt_suppress_until is ahead
    jobs,        \* uses of the LLM: [of, lock, on]: who waits for the answer, "waits" or
                 \* "holds", and the model its thread runs on, or 0
    models,      \* models loaded so far; the last is the server's, unless
    loaded,      \* nothing is loaded
    stt,         \* _stt_is_available()
    warm,        \* the model a reload warms up, or 0
    owed         \* turns put to the LLM and not answered

config   == <<plan, mode, backend>>
peer     == <<sent, open>>
timers   == <<idle_task, cancelled>>
hearing  == <<recognizer, dropped, last_final_text, suppressed>>
server   == <<models, loaded, stt, warm>>
vars     == <<config, peer, at, text, timers, hearing, user, jobs, server, owed>>

Hearing == {s \in Sessions : "audio" \in plan.sends[s]}
Tasks == UNION {{s} \X (0 .. MaxTimers[s]) : s \in Sessions}
Handler(s) == <<s, 0>>
Timers(s) == {c \in Tasks : c[1] = s /\ c[2] # 0}
Begun(s) == {c \in Timers(s) : at[c] # "none"}
Nobody == <<>>
Model == IF loaded THEN models ELSE 0
Runs(c, step) == at[c] = step /\ c \notin cancelled
To(c, step) == at' = [at EXCEPT ![c] = step]

Init ==
    /\ plan \in Plans /\ mode \in [Hearing -> Modes] /\ backend \in plan.backends
    /\ sent = [s \in Sessions |-> 0] /\ open = [s \in Sessions |-> TRUE]
    /\ at = [c \in Tasks |-> IF c[2] = 0 THEN "read" ELSE "none"] /\ text = [c \in Tasks |-> ""]
    /\ idle_task = [s \in Sessions |-> 0] /\ cancelled = {}
    /\ recognizer = [s \in Sessions |-> "none"] /\ dropped = {}
    /\ last_final_text = [s \in Sessions |-> "unset"] /\ user = [s \in Sessions |-> ""]
    /\ suppressed = {} /\ jobs = <<>> /\ models = 1 /\ loaded = TRUE /\ stt = TRUE
    /\ warm = [s \in Sessions |-> 0]
    /\ owed = [s \in Sessions |-> 0]

-----------------------------------------------------------------------------
(* The idle finalizer.                                                      *)

\* What _cancel_idle_timer cancels, called by coroutine c of session s.
IdleCancelled(s, c) ==
    {<<s, idle_task[s]>>} \cap {t \in Timers(s) : t # c /\ at[t] # "over"}

\* _schedule_idle_finalizer: the new task is referenced at once; the cancelled
\* one clears idle_task when it is woken.
Schedules(s) ==
    LET k == Cardinality(Begun(s)) + 1
    IN  /\ at' = [at EXCEPT ![Handler(s)] = "read", ![<<s, k>>] = "new"]
        /\ cancelled' = cancelled \cup IdleCancelled(s, Handler(s))
        /\ idle_task' = [idle_task EXCEPT ![s] = k]

\* _reset_stt_session, called by coroutine c.
Resets(s, c, said) ==
    /\ cancelled' = cancelled \cup IdleCancelled(s, c)
    /\ idle_task' = [idle_task EXCEPT ![s] = 0]
    /\ recognizer' = [recognizer EXCEPT ![s] = "none"]
    /\ dropped' = IF at[Handler(s)] = "feed" THEN dropped \cup {s} ELSE dropped
    /\ last_final_text' = [last_final_text EXCEPT ![s] = said]

\* A coroutine returns: the handler reads on, a timer's task forgets idle_task.
Returns(c) == To(c, IF c[2] = 0 THEN "read" ELSE "over")
Forgotten(c) == IF c[2] = 0 THEN idle_task ELSE [idle_task EXCEPT ![c[1]] = 0]

TimerStarts(c) ==
    /\ Runs(c, "new") /\ To(c, "sleep")
    /\ UNCHANGED <<config, peer, text, timers, hearing, user, jobs, server, owed>>

\* The lock is released by the turn that gives up, not by its thread's end.
Abandoned_Unshielded(c) ==
    [i \in DOMAIN jobs |->
       IF jobs[i].of = c THEN [jobs[i] EXCEPT !.of = Nobody, !.lock = "free"] ELSE jobs[i]]

\* A job that nobody waits for any more keeps its place, the lock and its thread.
Abandoned(c) ==
    [i \in DOMAIN jobs |-> IF jobs[i].of = c THEN [jobs[i] EXCEPT !.of = Nobody] ELSE jobs[i]]

\* CancelledError.  A task that has not started does not reach its finally.
TimerCancelled(c) ==
    /\ c \in cancelled /\ cancelled' = cancelled \ {c}
    /\ To(c, "over")
    /\ idle_task' = IF at[c] = "new" THEN idle_task ELSE [idle_task EXCEPT ![c[1]] = 0]
    /\ jobs' = Abandoned(c) /\ text' = [text EXCEPT ![c] = ""]
    /\ UNCHANGED <<config, peer, hearing, user, server, owed>>

-----------------------------------------------------------------------------
(* _handle_final_transcript, up to the stt_result.                          *)

\* An empty or meaningless final, a repeated empty one, and a promoted one that
\* repeats the last, are not reported; in "stt" mode the engine gets an empty one.
Suppressible(c, said) ==
    LET s == c[1]
    IN  IF said = "" THEN \/ mode[s] # "stt" \/ last_final_text[s] = ""
                          \/ c[2] # 0 /\ last_final_text[s] = "unset"
                     ELSE c[2] # 0 /\ said = last_final_text[s]
Reported(c, said) ==
    IF said = "" THEN mode[c[1]] = "stt" ELSE ~(c[2] # 0 /\ said = last_final_text[c[1]])

Final(c, said) ==
    \/ Reported(c, said) /\ To(c, "emit") /\ text' = [text EXCEPT ![c] = said] /\ UNCHANGED idle_task
    \/ Suppressible(c, said) /\ Returns(c) /\ idle_task' = Forgotten(c) /\ UNCHANGED text

\* stt_idle_ms after it was scheduled; FinalResult empties the recognizer.
TimerFires(c) ==
    LET s == c[1]
    IN  /\ Runs(c, "sleep")
        /\ IF recognizer[s] = "none"
           THEN Returns(c) /\ idle_task' = Forgotten(c) /\ UNCHANGED <<text, recognizer>>
           ELSE /\ recognizer' = [recognizer EXCEPT ![s] = "silent"]
                /\ \E said \in (IF recognizer[s] = "speech" THEN Texts ELSE {""}) : Final(c, said)
        /\ UNCHANGED <<config, peer, cancelled, dropped, last_final_text, suppressed, user,
                       jobs, server, owed>>

-----------------------------------------------------------------------------
(* A turn: the final transcript is sent, the LLM asked, its answer sent and *)
(* spoken.                                                                  *)

\* process_llm, process_llm_chat and the tool decisions, behind the jobs in rest.
Asked(c, rest) == Append(rest, [of |-> c, lock |-> "waits", on |-> 0])

\* The client has got its stt_result: the session is reset, whatever was heard in
\* the meantime.  A final that repeats the last user turn is not answered.
FinalSent(c) ==
    LET s == c[1]
        asks == text[c] # "" /\ mode[s] # "stt" /\ text[c] # user[s]
    IN  /\ Runs(c, "emit")
        /\ IF open[s] THEN Resets(s, c, text[c])
           ELSE /\ idle_task' = IF asks THEN idle_task ELSE Forgotten(c)
                /\ UNCHANGED <<cancelled, recognizer, dropped, last_final_text>>
        /\ IF asks
           THEN /\ To(c, "llm") /\ jobs' = Asked(c, jobs) /\ UNCHANGED text
                /\ user' = [user EXCEPT ![s] = text[c]]
                /\ owed' = [owed EXCEPT ![s] = @ + 1]
           ELSE /\ Returns(c) /\ text' = [text EXCEPT ![c] = ""]
                /\ UNCHANGED <<user, jobs, owed>>
        /\ UNCHANGED <<config, peer, suppressed, server>>

\* _emit_llm_response; in "full" mode what is left of it after the tool calls is spoken.
Answers(c, said, rest) ==
    LET spoken == said # "empty" /\ at[c] # "request" /\ mode[c[1]] = "full" /\ open[c[1]]
    IN  /\ jobs' = rest
        /\ owed' = [owed EXCEPT ![c[1]] = @ - 1]
        /\ text' = [text EXCEPT ![c] = ""]
        /\ IF spoken THEN To(c, "speak") /\ UNCHANGED idle_task
                     ELSE Returns(c) /\ idle_task' = Forgotten(c)

\* A hang-up nobody asked for: the LLM is asked again, without tools.
AsksAgain(c, rest) ==
    /\ mode[c[1]] = "full" /\ text[c] # "bye"
    /\ To(c, "retry") /\ jobs' = Asked(c, rest) /\ UNCHANGED <<text, idle_task, owed>>

\* llm_tool_request: the decision found no calls in what looks like one.
Repairs(c, rest) ==
    /\ To(c, "repair") /\ UNCHANGED <<text, idle_task, owed>>
    /\ jobs' = Asked(c, rest)

Responds(c, rest) == Returns(c) /\ jobs' = rest /\ UNCHANGED <<text, idle_task, owed>>

\* What the coroutine does with the result of its job.
Continues(c, said, rest) ==
    \/ at[c] = "llm" /\ IF said = "hangup" /\ mode[c[1]] = "full" /\ text[c] # "bye"
                        THEN AsksAgain(c, rest) ELSE Answers(c, said, rest)
    \/ at[c] \in {"retry", "request"} /\ Answers(c, said, rest)
    \/ at[c] \in {"tool", "repair"} /\ Responds(c, rest)
    \/ at[c] = "tool" /\ loaded /\ Repairs(c, rest)

TurnFrame == UNCHANGED <<config, peer, cancelled, hearing, user, server>>

\* Only the turns of audio have a time-out.
TimesOut_AudioOnly(c) ==
    /\ c \notin cancelled /\ at[c] \in {"llm", "retry"}
    /\ Answers(c, "text", Abandoned(c))
    /\ TurnFrame

\* llm_infer_timeout_sec: the fallback is the answer, or what came before the retry.
TimesOut(c) ==
    /\ c \notin cancelled /\ at[c] \in {"llm", "retry", "request"}
    /\ Answers(c, "text", Abandoned(c))
    /\ TurnFrame

\* _emit_tts_audio: where an echo would be heard as speech, recognition is held
\* while the audio plays, unless it already is for longer.
Spoken(c) ==
    LET s == c[1]
    IN  /\ c \notin cancelled /\ at[c] \in {"speak", "say"} /\ Returns(c)
        /\ \/ /\ backend = "segments"
              /\ suppressed' = suppressed \cup {s} /\ Resets(s, c, "")
           \/ /\ idle_task' = Forgotten(c)
              /\ UNCHANGED <<cancelled, recognizer, dropped, last_final_text, suppressed>>
        /\ UNCHANGED <<config, peer, text, user, jobs, server, owed>>

-----------------------------------------------------------------------------
(* The LLM's lock and its threads.                                          *)

\* asyncio.Lock: first come, first served.
Served(i) ==
    /\ jobs[i].lock = "waits"
    /\ \A j \in DOMAIN jobs : jobs[j].lock # "holds" /\ (j < i => jobs[j].lock # "waits")

Waited(i) == jobs[i].of # Nobody /\ jobs[i].of \notin cancelled

\* The job is over; what it returns is for the coroutine that still waits for it.
JobOver(i, said) ==
    /\ IF Waited(i) THEN Continues(jobs[i].of, said, RemoveAt(jobs, i))
       ELSE jobs' = RemoveAt(jobs, i) /\ UNCHANGED <<at, text, idle_task, owed>>
    /\ TurnFrame

Reloads(i) == jobs[i].of # Nobody /\ at[jobs[i].of] = "lock"

\* Without a model the job ends with the fallback.
JobBegins(i) ==
    /\ Served(i) /\ ~Reloads(i)
    /\ IF loaded
       THEN /\ jobs' = [jobs EXCEPT ![i] = [@ EXCEPT !.lock = "holds", !.on = models]]
            /\ UNCHANGED <<at, text, idle_task, owed>> /\ TurnFrame
       ELSE JobOver(i, "text")

\* Nothing stops an inference, and nothing bounds its length.
ThreadEnds(i) ==
    /\ jobs[i].on # 0
    /\ \E said \in {"text", "hangup", "empty"} : JobOver(i, said)

\* _load_llm_model keeps the event loop: the old model is replaced in one step.
Loads ==
    \/ loaded' = TRUE /\ models' = models + 1
    \/ loaded' = FALSE /\ UNCHANGED models

\* A load that fails leaves the lock taken.
LlmReloaded_Kept(i) ==
    /\ Served(i) /\ Reloads(i)
    /\ Loads /\ To(jobs[i].of, "read")
    /\ jobs' = IF loaded' THEN RemoveAt(jobs, i)
               ELSE [jobs EXCEPT ![i] = [@ EXCEPT !.lock = "holds", !.of = Nobody]]
    /\ UNCHANGED <<config, peer, text, timers, hearing, user, stt, warm, owed>>

\* reload_llm_only, once it has the lock.
LlmReloaded(i) ==
    /\ Served(i) /\ Reloads(i)
    /\ Loads /\ jobs' = RemoveAt(jobs, i) /\ To(jobs[i].of, "read")
    /\ UNCHANGED <<config, peer, text, timers, hearing, user, stt, warm, owed>>

\* initialize_models, after reload_models and switch_model: without the lock.
ModelsLoaded(s) ==
    /\ at[Handler(s)] = "load"
    /\ stt' \in BOOLEAN /\ Loads
    /\ IF loaded' THEN To(Handler(s), "warm") /\ warm' = [warm EXCEPT ![s] = models']
                   ELSE To(Handler(s), "read") /\ UNCHANGED warm
    /\ UNCHANGED <<config, peer, text, timers, hearing, user, jobs, owed>>

\* run_startup_latency_check is over; the speech synthesis is loaded.
Warmed(s) ==
    /\ at[Handler(s)] = "warm"
    /\ To(Handler(s), "read") /\ warm' = [warm EXCEPT ![s] = 0]
    /\ UNCHANGED <<config, peer, text, timers, hearing, user, jobs, models, loaded, stt, owed>>

-----------------------------------------------------------------------------
(* The messages of a session, one after another.                            *)

Arrives(s, message) ==
    /\ at[Handler(s)] = "read" /\ open[s]
    /\ message \in plan.sends[s] /\ sent[s] < plan.most[s]
    /\ sent' = [sent EXCEPT ![s] = @ + 1]
    /\ UNCHANGED <<config, open>>

\* _handle_audio_payload up to the first wait.  Vosk's recognizer is made on demand.
AudioArrives(s) ==
    /\ Arrives(s, "audio") /\ Cardinality(Begun(s)) < MaxTimers[s]
    /\ IF s \in suppressed THEN UNCHANGED <<at, timers, hearing>>
       ELSE IF ~stt THEN Resets(s, Handler(s), "") /\ UNCHANGED <<at, suppressed>>
       ELSE /\ To(Handler(s), "feed")
            /\ dropped' = dropped \ {s}
            /\ recognizer' = IF backend = "vosk" /\ recognizer[s] = "none"
                             THEN [recognizer EXCEPT ![s] = "silent"] ELSE recognizer
            /\ UNCHANGED <<cancelled, idle_task, last_final_text, suppressed>>
    /\ UNCHANGED <<text, user, jobs, server, owed>>

\* The rest of _handle_audio_payload: a final transcript is handled; partial words, or
\* a recognizer that is waiting for more, keep an idle finalizer running.
Heard(s) == \E said \in Texts \cup {""} : Final(Handler(s), said) /\ UNCHANGED cancelled
HeardPart(s) == Schedules(s) /\ UNCHANGED text
HeardNothing(s) == Returns(Handler(s)) /\ UNCHANGED <<text, cancelled, idle_task>>

Fed(s) ==
    /\ at[Handler(s)] = "feed"
    /\ UNCHANGED <<config, peer, dropped, last_final_text, suppressed, user, jobs, server, owed>>

\* A final ends what the recognizer had heard; one that was dropped while it was fed
\* is no longer the session's.
VoskFed(s) ==
    LET hears == s \notin dropped
        becomes(words) == recognizer' = IF hears THEN [recognizer EXCEPT ![s] = words] ELSE recognizer
    IN  /\ backend = "vosk" /\ Fed(s)
        /\ \/ Heard(s) /\ becomes("silent")
           \/ HeardPart(s) /\ (UNCHANGED recognizer \/ becomes("speech"))

\* Kroko, Sherpa and Tone hear with streams of their own.
StreamFed(s) ==
    /\ backend = "stream" /\ Fed(s) /\ UNCHANGED recognizer
    /\ Heard(s) \/ HeardPart(s) \/ HeardNothing(s)

\* Whisper is given whole utterances.
SegmentFed(s) ==
    /\ backend = "segments" /\ Fed(s) /\ UNCHANGED recognizer
    /\ Heard(s) \/ HeardNothing(s)

AudioFed(s) == VoskFed(s) \/ StreamFed(s) \/ SegmentFed(s)

BargeIn(s) ==
    /\ Arrives(s, "barge_in") /\ suppressed' = suppressed \ {s}
    /\ UNCHANGED <<at, text, timers, recognizer, dropped, last_final_text, user, jobs, server,
                   owed>>

SuppressionEnds(s) ==
    /\ s \in suppressed /\ suppressed' = suppressed \ {s}
    /\ UNCHANGED <<config, peer, at, text, timers, recognizer, dropped, last_final_text, user,
                   jobs, server, owed>>

\* The other messages begin with a wait: for the LLM, for the synthesis or a reload.
Begins(s, message, step, queue) ==
    /\ Arrives(s, message) /\ To(Handler(s), step) /\ jobs' = queue
    /\ UNCHANGED <<text, timers, hearing, user, models, loaded, warm>>

Requested(s) ==
    \/ /\ Begins(s, "llm_request", "request", Asked(Handler(s), jobs))
       /\ owed' = [owed EXCEPT ![s] = @ + 1] /\ UNCHANGED stt
    \/ /\ UNCHANGED <<owed, stt>>
       /\ \/ Begins(s, "tts_request", "say", jobs)
          \/ Begins(s, "llm_tool_request", "read", jobs)   \* decided without the LLM
          \/ loaded /\ Begins(s, "llm_tool_request", "tool", Asked(Handler(s), jobs))
          \/ Begins(s, "reload_llm", "lock", Asked(Handler(s), jobs))

\* reload_models: Kroko's process, if that is the recogniser, is stopped first.
ReloadAsked(s) ==
    /\ Begins(s, "reload_models", "load", jobs) /\ UNCHANGED owed
    /\ UNCHANGED stt \/ (backend = "stream" /\ stt' = FALSE)

ClientLeaves(s) ==
    /\ open[s] /\ open' = [open EXCEPT ![s] = FALSE]
    /\ UNCHANGED <<config, sent, at, text, timers, hearing, user, jobs, server, owed>>

\* The handler notices between two messages.
SessionEnds(s) ==
    /\ at[Handler(s)] = "read" /\ ~open[s]
    /\ To(Handler(s), "over") /\ Resets(s, Handler(s), "")
    /\ UNCHANGED <<config, peer, text, suppressed, user, jobs, server, owed>>

-----------------------------------------------------------------------------

Session(s) == AudioFed(s) \/ ModelsLoaded(s) \/ SessionEnds(s)
Task(c) ==
    \/ TimerStarts(c) \/ TimerCancelled(c) \/ TimerFires(c)
    \/ FinalSent(c) \/ TimesOut(c) \/ Spoken(c)
    \/ c[2] = 0 /\ Session(c[1])
Client(s) ==
    AudioArrives(s) \/ BargeIn(s) \/ Requested(s) \/ ReloadAsked(s) \/ ClientLeaves(s)
Lock == \E i \in DOMAIN jobs : JobBegins(i) \/ LlmReloaded(i)
Threads == (\E i \in DOMAIN jobs : ThreadEnds(i)) \/ (\E s \in Sessions : Warmed(s))

Next ==
    \/ \E c \in Tasks : Task(c)
    \/ \E s \in Sessions : Client(s) \/ SuppressionEnds(s)
    \/ Lock \/ Threads

\* Tasks that are ready run, timers expire, loads and syntheses end; an inference need not.
Fairness == (\A c \in Tasks : WF_vars(Task(c))) /\ WF_vars(Lock)

Spec == Init /\ [][Next]_vars /\ Fairness

-----------------------------------------------------------------------------
(* Properties.                                                              *)

Steps == {"none", "new", "sleep", "read", "feed", "emit", "llm", "retry", "request", "tool",
          "repair", "speak", "say", "lock", "load", "warm", "over"}

TypeOK ==
    /\ plan \in Plans /\ mode \in [Hearing -> Modes] /\ backend \in plan.backends
    /\ sent \in [Sessions -> Nat] /\ open \in [Sessions -> BOOLEAN]
    /\ at \in [Tasks -> Steps] /\ text \in [Tasks -> Texts \cup {""}]
    /\ \A s \in Sessions : idle_task[s] \in 0 .. MaxTimers[s]
    /\ cancelled \subseteq Tasks
    /\ recognizer \in [Sessions -> {"none", "silent", "speech"}]
    /\ dropped \cup suppressed \subseteq Sessions
    /\ last_final_text \in [Sessions -> Texts \cup {"", "unset"}]
    /\ user \in [Sessions -> Texts \cup {""}]
    /\ \A i \in DOMAIN jobs :
         /\ jobs[i].of \in Tasks \cup {Nobody} /\ jobs[i].lock \in {"waits", "holds"}
         /\ jobs[i].on \in 0 .. models
    /\ models \in Nat /\ loaded \in BOOLEAN /\ stt \in BOOLEAN
    /\ warm \in [Sessions -> 0 .. models]
    /\ owed \in [Sessions -> Nat]

\* Two jobs are never in the same model at once, not even when the turn of one has
\* given up (server.py, process_llm: the shielded task keeps the lock).
OneJob ==
    \A i, j \in DOMAIN jobs : i # j /\ jobs[i].on # 0 => jobs[j].on # jobs[i].on

\* "llama-cpp is NOT thread-safe and will segfault if multiple threads try to use
\* the model simultaneously" (server.py:2539): refuted, a full reload warms the
\* new model up without the lock.
OneInference ==
    /\ OneJob
    /\ \A s \in Sessions, i \in DOMAIN jobs : warm[s] # 0 => jobs[i].on # warm[s]

\* "promote a final transcript if no more audio arrives"
\* (docs/local-ai-server/PROTOCOL.md:186): refuted, a cancelled finalizer forgets the one
\* that replaced it, which nothing cancels.
IdleAfterSilence ==
    [][\A c \in Tasks : at[c] = "sleep" /\ at'[c] = "emit" =>
         c[2] = Cardinality(Begun(c[1]))]_vars

\* Every turn put to the LLM gets an answer, the model's or the fallback, however
\* long inferences take and whatever is reloaded (llm_infer_timeout_sec).
TurnsAnswered ==
    \A s \in Sessions : owed[s] > 0 ~> owed[s] = 0 \/ ~open[s]

\* If inferences end, a session always comes back to its next message: turns,
\* tool decisions and reloads do not wait for each other for ever.
HandlerFree ==
    WF_vars(Threads) =>
        \A s \in Sessions : at[Handler(s)] # "read" ~> at[Handler(s)] \in {"read", "over"}
=============================================================================
