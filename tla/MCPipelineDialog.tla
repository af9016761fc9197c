-------------------------- MODULE MCPipelineDialog --------------------------
(***************************************************************************)
(* What hears and answers the caller, for TLC: the dialog of the pipeline, *)
(* and the local AI server its adapters may call.  A behaviour picks one;  *)
(* the other stays as it began.                                            *)
(***************************************************************************)
EXTENDS MCLocalAiServer

CONSTANTS Streaming, Tools, Guarded, QueueCap, MinWords, MaxHeard, MaxTurns

VARIABLES
    part, streaming, runner, receiving, kinds, tq, worker, pending, flush, turns, lost, raced

PD == INSTANCE PipelineDialog WITH stt <- receiving, dropped <- lost

ASSUME DialogGiven == PD!DialogAssumption

dialog == <<streaming, runner, receiving, kinds, tq, worker, pending, flush, turns, lost, raced>>

MCInit ==
    /\ part \in {"dialog", "server"} /\ Init /\ PD!Init
    /\ part = "server" => streaming
    /\ part = "dialog" => plan = Listening /\ backend = "vosk" /\ mode["call"] = "full"

MCNext ==
    /\ UNCHANGED part
    /\ \/ part = "dialog" /\ PD!Next /\ UNCHANGED vars
       \/ part = "server" /\ Next /\ UNCHANGED dialog

\* The fairness of each, for the behaviours that picked it.
DialogFair ==
    /\ WF_dialog(part = "dialog" /\ PD!Worker) /\ WF_dialog(part = "dialog" /\ PD!FlushFires)
    /\ \A k \in 1 .. MaxTurns :
         WF_dialog(part = "dialog" /\ k \in DOMAIN turns /\ PD!TurnStep(k))

ServerFair ==
    /\ \A c \in Tasks : WF_vars(part = "server" /\ Task(c))
    /\ WF_vars(part = "server" /\ Lock)

MCSpec == MCInit /\ [][MCNext]_<<part, vars, dialog>> /\ DialogFair /\ ServerFair

AnsweredOnce == PD!AnsweredOnce
SpeechAnswered == PD!SpeechAnswered
=============================================================================
