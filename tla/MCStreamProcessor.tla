-------------------------- MODULE MCStreamProcessor --------------------------
(* Instances of StreamProcessor for TLC.                                     *)
EXTENDS StreamProcessor

\* Every kind of record, with one without a service that moves the watermark.
SmallTraffic ==
    [service : Services, stamp : Stamps \cup {Unparsed}]
        \cup {[service |-> Unknown, stamp |-> Max(Stamps)], Unreadable}
=============================================================================
