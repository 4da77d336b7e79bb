----------------------------- MODULE AlertPolicy -----------------------------
(***************************************************************************)
(* What the alert suppressor promises, whatever number of detector         *)
(* replicas runs it and however their Redis calls interleave.              *)
(*                                                                         *)
(*  - Every service has quiet periods.  A worker raises the service at     *)
(*    most once in one quiet period, the worker whose raise opens it       *)
(*    included, and a quiet period is never extended.  It is cut short     *)
(*    only where the store may forget it (MayForget).                      *)
(*  - A storm period has exactly one opener, the only worker that may      *)
(*    announce it, and no period opens while another one runs.             *)
(*                                                                         *)
(* AlertSuppressor implements this specification.                          *)
(***************************************************************************)
EXTENDS Integers

CONSTANTS Services, Workers, Cooldown, StormCooldown, MayForget

VARIABLES
    now,        \* the clock
    quietUntil, \* quietUntil[s]: end of the last quiet period of s, 0 if none
    raises,     \* raises[s][w]: times w raised s in its last quiet period
    stormUntil, \* end of the last storm period, 0 if none or cleared
    announcers  \* workers that opened a storm and have yet to announce it

policyVars == <<now, quietUntil, raises, stormUntil, announcers>>

PolicyInit ==
    /\ now = 1
    /\ quietUntil = [s \in Services |-> 0]
    /\ raises = [s \in Services |-> [w \in Workers |-> 0]]
    /\ stormUntil = 0
    /\ announcers = {}

Pass ==
    /\ now' = now + 1
    /\ UNCHANGED <<quietUntil, raises, stormUntil, announcers>>

\* The raise that opens a quiet period.
OpenQuiet(w, s) ==
    /\ now >= quietUntil[s]
    /\ quietUntil' = [quietUntil EXCEPT ![s] = now + Cooldown]
    /\ raises' = [raises EXCEPT ![s] = [v \in Workers |-> IF v = w THEN 1 ELSE 0]]
    /\ UNCHANGED <<now, stormUntil, announcers>>

\* A raise by a worker that had looked before the period opened, its first in
\* the period: each raise is counted, so that a second one would be a step, and
\* none that this specification has.
RaiseAgain(w, s) ==
    /\ now < quietUntil[s]
    /\ raises[s][w] = 0
    /\ raises' = [raises EXCEPT ![s][w] = @ + 1]
    /\ UNCHANGED <<now, quietUntil, stormUntil, announcers>>

OpenStorm(w) ==
    /\ now >= stormUntil
    /\ w \notin announcers
    /\ stormUntil' = now + StormCooldown
    /\ announcers' = announcers \cup {w}
    /\ UNCHANGED <<now, quietUntil, raises>>

\* The opener announces its incident, or fails before it does.
Announce(w) ==
    /\ w \in announcers
    /\ announcers' = announcers \ {w}
    /\ UNCHANGED <<now, quietUntil, raises, stormUntil>>

\* A quiet period is forgotten; who raised in it still counts until the next.
CutShort(s) ==
    /\ MayForget
    /\ quietUntil' = [quietUntil EXCEPT ![s] = 0]
    /\ UNCHANGED <<now, raises, stormUntil, announcers>>

\* An operator ends the storm period, or it is forgotten.
CloseStorm ==
    /\ stormUntil' = 0
    /\ UNCHANGED <<now, quietUntil, raises, announcers>>

PolicyNext ==
    \/ Pass
    \/ CloseStorm
    \/ \E s \in Services : CutShort(s)
    \/ \E w \in Workers :
          \/ \E s \in Services : OpenQuiet(w, s) \/ RaiseAgain(w, s)
          \/ OpenStorm(w)
          \/ Announce(w)

PolicySpec == PolicyInit /\ [][PolicyNext]_policyVars
=============================================================================
