-------------------------- MODULE MCLocalAiServer --------------------------
(***************************************************************************)
(* Instances of LocalAiServer for TLC: a call sends its audio, a client    *)
(* asks for what it shares with the call.                                  *)
(***************************************************************************)
EXTENDS LocalAiServer

Plan(backends, spoken, messages, requests) ==
    [backends |-> backends, most |-> [call |-> messages, client |-> requests],
     sends |-> [call |-> spoken,
                client |-> IF requests = 0 THEN {}
                           ELSE {"llm_request", "llm_tool_request", "reload_llm",
                                 "reload_models"}]]

Listening == Plan({"vosk", "stream"}, {"audio"}, 2, 0)
Echoing   == Plan({"segments"}, {"audio", "barge_in", "tts_request"}, 3, 0)
Sharing   == Plan({"stream"}, {"audio"}, 1, 2)
Pausing   == Plan({"vosk"}, {"audio"}, 3, 0)

AllPlans == {Listening, Echoing, Sharing}
OnlyPausing == {Pausing}
OnlySharing == {Sharing}

TimersOf == [call |-> 3, client |-> 0]
=============================================================================
