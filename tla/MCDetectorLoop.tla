---------------------------- MODULE MCDetectorLoop ----------------------------
(* Instances of DetectorLoop for TLC.                                        *)
EXTENDS DetectorLoop, FiniteSetsExt

\* Milliseconds, one of them of a clock that went back.
Durations == {-3, 2, 5}

\* An event with a latency and one without.
PlainTraffic ==
    [level : {"info"}, message : {Blank}, latency : {NoLatency, Min(Latencies)}]
=============================================================================
