------------------------ MODULE MCStreamingPlayback ------------------------
(* Instances of StreamingPlayback for TLC. *)
EXTENDS StreamingPlayback

CONSTANT b1

\* Every mode, and every kind of speaker.
EachMode == {<<"continuous", "agent">>, <<"segment", "raw">>, <<"pipeline", "raw">>}
SegmentAgent == {<<"segment", "agent">>}
=============================================================================
