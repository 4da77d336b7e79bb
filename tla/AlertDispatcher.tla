--------------------------- MODULE AlertDispatcher ---------------------------
(***************************************************************************)
(* AlertDispatcher with its router, rate limiter, digest buffer and        *)
(* notifiers (incident-reporter/alert_router).  dispatch() is called by    *)
(* one thread.  What it does under a lock is one step, the limiter's and   *)
(* the digest's apart, and every call to PagerDuty or Slack is a step of   *)
(* its own that may fail.  send_digest and send_all_digests run in a       *)
(* second thread, the scheduler the module's docstring speaks of, and the  *)
(* limiter's other operations in further ones, between any two steps of    *)
(* dispatch().                                                             *)
(*                                                                         *)
(* A report is a model value; what a call tells apart (its service,        *)
(* severity and targets) is set when it is dispatched.                     *)
(***************************************************************************)
EXTENDS RateLimiter, Sequences, SequencesExt

CONSTANTS
    Reports,
    NoReport,
    Severities,     \* severities reports come with, "other" for no rule's
    OncallChannels, \* Slack channels of the on-call registry, "" for none
    OncallAddresses,\* e-mail addresses of the on-call registry, "" for none
    Deployments,    \* the sets of notifiers the process may be configured with
    SlackMayFail,   \* chat_postMessage may raise
    DigestsSent,    \* somebody calls send_digest or send_all_digests
    MayRestart      \* the process may be restarted

ASSUME DispatcherConstants ==
    /\ NoReport \notin Reports \cup Services
    /\ "dispatch" \in Callers
    /\ Severities \subseteq {"P1", "P2", "P3", "other"}
    /\ OncallChannels \cap {"pagerduty", "email"} = {}
    /\ Deployments \subseteq SUBSET {"pagerduty", "slack"}
    /\ {SlackMayFail, DigestsSent, MayRestart} \subseteq BOOLEAN

VARIABLES
    notifiers,  \* the notifiers of this deployment
    info,       \* info[r]: the RoutingDecision of r, NoReport before dispatch
    pc,         \* what dispatch() does next
    current,    \* the report dispatch() is working on
    targets,    \* the Slack targets it has not tried yet
    digest,     \* digest[s]: DigestBuffer._buffer
    todo,       \* services send_digest is still to be called for
    held,       \* reports flushed and not yet posted
    lastDigest, \* how the last send_digest ended
    \* history, read by no action
    interrupted,\* reports a restart caught in dispatch()
    queued,     \* reports ever put in the digest
    surfaced,   \* reports of a digest that was posted
    lost,       \* reports of a digest that was flushed and not posted
    tried,      \* tried[r]: channels a notification of r was attempted on
    posted      \* posted[r]: channels that show r

dispatchVars == <<notifiers, info, pc, current, targets>>
digestVars   == <<digest, todo, held, lastDigest>>
history      == <<interrupted, queued, surfaced, lost, tried, posted>>
vars         == <<limiterVars, dispatchVars, digestVars, history>>

PagerDutyOn == "pagerduty" \in notifiers
SlackOn == "slack" \in notifiers

\* SEVERITY_RULES and get_rule
SlackChannel(severity) ==
    CASE severity = "P1" -> "#incidents"
      [] severity = "P2" -> "#alerts"
      [] OTHER -> "#monitoring"

\* The rule's channels; its send_pagerduty and send_email say the same.
RuleChannels(severity) ==
    CASE severity = "P1" -> {"pagerduty", "slack", "email"}
      [] severity = "P2" -> {"slack", "email"}
      [] OTHER -> {"slack"}

\* What get("slack_channel", "") and get("oncall", "") give without an entry.
Unset == ""

\* AlertRouter.route: the on-call channel joins the rule's if distinct, the
\* on-call address is mailed if the rule says so and there is one.
Route(service, severity, oncall, address) ==
    LET rule == SlackChannel(severity) IN
    [service |-> service,
     channels |-> RuleChannels(severity),
     targets |-> IF oncall \in {Unset, rule} THEN <<rule>> ELSE <<rule, oncall>>,
     recipients |-> IF "email" \in RuleChannels(severity) THEN {address} \ {Unset} ELSE {}]

Routes ==
    {Route(s, v, o, a) :
        s \in Services, v \in Severities, o \in OncallChannels, a \in OncallAddresses}

ASSUME NoReportIsNoRoute == NoReport \notin Routes

Init ==
    /\ LimiterInit
    /\ notifiers \in Deployments
    /\ info = [r \in Reports |-> NoReport]
    /\ pc = "idle"
    /\ current = NoReport
    /\ targets = <<>>
    /\ digest = [s \in Services |-> {}]
    /\ todo = {}
    /\ held = {}
    /\ lastDigest = "none"
    /\ interrupted = {}
    /\ queued = {}
    /\ surfaced = {}
    /\ lost = {}
    /\ tried = [r \in Reports |-> {}]
    /\ posted = [r \in Reports |-> {}]

-----------------------------------------------------------------------------
\* dispatch()

\* DigestBuffer.add
AddToDigest(service, r) == digest' = [digest EXCEPT ![service] = @ \cup {r}]

\* The routing decision, and check_and_record up to its lock.
Dispatch(r, service, severity, oncall, address) ==
    LET decision == Route(service, severity, oncall, address) IN
    /\ pc = "idle"
    /\ info[r] = NoReport
    /\ info' = [info EXCEPT ![r] = decision]
    /\ ReadClock("dispatch")
    /\ pc' = "check"
    /\ current' = r
    /\ targets' = decision.targets
    /\ UNCHANGED <<notifiers, digestVars, history>>

CheckRate ==
    /\ pc = "check"
    /\ \/ Grant("dispatch", info[current].service) /\ pc' = "page"
       \/ Refuse("dispatch", info[current].service) /\ pc' = "queue"
    /\ UNCHANGED <<notifiers, info, current, targets, digestVars, history>>

Try(channel) == tried' = [tried EXCEPT ![current] = @ \cup {channel}]
Show(channel) == posted' = [posted EXCEPT ![current] = @ \cup {channel}]

\* Mutation: the targets left are not forgotten.
FinishKeepingTargets == pc' = "idle" /\ current' = NoReport /\ UNCHANGED targets

Finish == pc' = "idle" /\ current' = NoReport /\ targets' = <<>>

\* What exceeds the limit goes to the digest, and nowhere else.
Queue ==
    /\ pc = "queue"
    /\ AddToDigest(info[current].service, current)
    /\ queued' = queued \cup {current}
    /\ Finish
    /\ UNCHANGED <<limiterVars, notifiers, info, todo, held, lastDigest, interrupted, surfaced,
                   lost, tried, posted>>

\* PagerDutyClient.notify: _send turns every exception into False, and an
\* exception after PagerDuty took the event looks like one before it.  notify
\* triggers: every event of the detector has a z-score above 1.5.
Page ==
    /\ pc = "page"
    /\ \/ /\ "pagerduty" \in info[current].channels /\ PagerDutyOn
          /\ Try("pagerduty")
          /\ Show("pagerduty") \/ UNCHANGED posted
       \/ /\ ~("pagerduty" \in info[current].channels /\ PagerDutyOn)
          /\ UNCHANGED <<tried, posted>>
    /\ \/ SlackOn /\ pc' = "post" /\ UNCHANGED <<current, targets>>
       \/ ~SlackOn /\ Finish
    /\ UNCHANGED <<limiterVars, notifiers, info, digestVars, interrupted, queued, surfaced, lost>>

\* The next target of the loop, or the end of it.
NextTarget ==
    \/ Len(targets) > 1 /\ pc' = "post" /\ targets' = Tail(targets) /\ UNCHANGED current
    \/ Len(targets) = 1 /\ Finish

\* Mutation: the first channel that fails ends the loop.
GiveUp == SlackMayFail /\ Finish

FailedPost == SlackMayFail /\ NextTarget

\* SlackNotifier.send_alert posts the message, then the report as a reply in its thread; a
\* failure of either ends it and dispatch() goes on with the next target.
Post ==
    /\ pc = "post"
    /\ Try(Head(targets))
    /\ \/ Show(Head(targets)) /\ pc' = "thread" /\ UNCHANGED <<current, targets>>
       \/ FailedPost /\ UNCHANGED posted
    /\ UNCHANGED <<limiterVars, notifiers, info, digestVars, interrupted, queued, surfaced, lost>>

Thread ==
    /\ pc = "thread"
    /\ NextTarget
    /\ UNCHANGED <<limiterVars, notifiers, info, digestVars, history>>

-----------------------------------------------------------------------------
\* send_digest and send_all_digests

Pending == {s \in Services : digest[s] # {}}

SchedulerIdle == DigestsSent /\ todo = {} /\ held = {}

\* Mutation: flush_all.
FlushedPending == /\ todo' = Pending
                  /\ digest' = [s \in Services |-> {}]

ListPending == todo' = Pending /\ UNCHANGED digest

\* services_with_pending is read once, send_digest called for each.
SendAllDigests ==
    /\ SchedulerIdle
    /\ Pending # {}
    /\ ListPending
    /\ UNCHANGED <<limiterVars, dispatchVars, held, lastDigest, history>>

SendDigest(s) ==
    /\ SchedulerIdle
    /\ todo' = {s}
    /\ UNCHANGED <<limiterVars, dispatchVars, digest, held, lastDigest, history>>

\* DigestBuffer.flush
Flush(s) == digest' = [digest EXCEPT ![s] = {}]

\* What send_digest does with what it flushed: its two early returns, or a post.
FlushDigest(s) ==
    /\ s \in todo
    /\ held = {}
    /\ todo' = todo \ {s}
    /\ Flush(s)
    /\ \/ digest[s] = {} /\ lastDigest' = "empty" /\ UNCHANGED <<held, lost>>
       \/ /\ digest[s] # {} /\ ~SlackOn
          /\ lastDigest' = "no_notifier"
          /\ lost' = lost \cup digest[s]
          /\ UNCHANGED held
       \/ digest[s] # {} /\ SlackOn /\ held' = digest[s] /\ UNCHANGED <<lastDigest, lost>>
    /\ UNCHANGED <<limiterVars, dispatchVars, interrupted, queued, surfaced, tried, posted>>

\* send_message: an exception becomes None, send_digest returns False.
PostDigest ==
    /\ held # {}
    /\ held' = {}
    /\ \/ surfaced' = surfaced \cup held /\ lastDigest' = "posted" /\ UNCHANGED lost
       \/ /\ SlackMayFail
          /\ lastDigest' = "failed"
          /\ lost' = lost \cup held
          /\ UNCHANGED surfaced
    /\ UNCHANGED <<limiterVars, dispatchVars, digest, todo, interrupted, queued, tried, posted>>

\* current_count and reset of the limiter, by other threads.
UseLimiter ==
    /\ \/ \E s \in Services : Reset(s)
       \/ \E c \in Callers \ {"dispatch"} :
             ReadClock(c) \/ \E s \in Services : CurrentCount(c, s)
    /\ UNCHANGED <<dispatchVars, digestVars, history>>

\* A restart: everything but the outside world was in memory.
Restart ==
    /\ MayRestart
    /\ NewLimiter
    /\ Finish
    /\ digest' = [s \in Services |-> {}]
    /\ todo' = {}
    /\ held' = {}
    /\ lastDigest' = "none"
    /\ interrupted' = interrupted \cup ({current} \cap Reports)
    /\ lost' = lost \cup held \cup UNION {digest[s] : s \in Services}
    /\ UNCHANGED <<notifiers, info, queued, surfaced, tried, posted>>

Clock == Tick /\ UNCHANGED <<dispatchVars, digestVars, history>>

DispatchSteps == CheckRate \/ Queue \/ Page \/ Post \/ Thread
DigestSteps ==
    \/ SendAllDigests
    \/ PostDigest
    \/ \E s \in Services : SendDigest(s) \/ FlushDigest(s)

NewReport ==
    \E r \in Reports, s \in Services, severity \in Severities, oncall \in OncallChannels,
       address \in OncallAddresses :
        Dispatch(r, s, severity, oncall, address)

Next == Clock \/ UseLimiter \/ NewReport \/ DispatchSteps \/ DigestSteps \/ Restart

Spec == Init /\ [][Next]_vars

-----------------------------------------------------------------------------
Channels == {"pagerduty", "email", "#incidents", "#alerts", "#monitoring"} \cup OncallChannels

\* Types; a call in progress has its report and the targets still to try.
TypeOK ==
    /\ LimiterTypeOK
    /\ notifiers \in Deployments
    /\ info \in [Reports -> Routes \cup {NoReport}]
    /\ pc \in {"idle", "check", "queue", "page", "post", "thread"}
    /\ current \in Reports \cup {NoReport}
    /\ targets \in Seq(Channels)
    /\ digest \in [Services -> SUBSET Reports]
    /\ todo \in SUBSET Services
    /\ held \in SUBSET Reports
    /\ lastDigest \in {"none", "empty", "no_notifier", "posted", "failed"}
    /\ interrupted \in SUBSET Reports
    /\ queued \in SUBSET Reports
    /\ surfaced \in SUBSET Reports
    /\ lost \in SUBSET Reports
    /\ tried \in [Reports -> SUBSET Channels]
    /\ posted \in [Reports -> SUBSET Channels]
    /\ pc = "idle" <=> current = NoReport
    /\ pc = "idle" <=> targets = <<>>

\* What the routing decision of r asks for,
Asked(r) ==
    (info[r].channels \cap {"pagerduty"}) \cup ToSet(info[r].targets)
        \cup (IF info[r].recipients # {} THEN {"email"} ELSE {})

\* and what of it nobody serves: what a notifier that is not configured would,
\* and always the e-mail, which no code of the reporter sends.
Unserved(r) ==
    {"email"} \cup (IF PagerDutyOn THEN {} ELSE {"pagerduty"})
        \cup (IF SlackOn THEN {} ELSE ToSet(info[r].targets))

Done(r) == info[r] # NoReport /\ current # r

\* One channel's failure takes no other channel with it: when dispatch() is
\* done with a report it did not queue, every channel its routing decision asks
\* for was tried and no other was, but for the channels without a notifier and
\* the e-mail of a P1 or P2, which is asked for, listed among the channels
\* dispatched (dispatcher.py:119), and never tried.  Only a restart can cut
\* that short.
EveryChannelTried ==
    \A r \in Reports :
        Done(r) /\ r \notin queued \cup interrupted => tried[r] = Asked(r) \ Unserved(r)

\* Between dispatch() adding and the scheduler flushing, no rate-limited
\* report falls through: it is buffered, about to be posted, was posted, or
\* went down with a post that failed, a missing notifier or a restart.
QueuedIsKept ==
    \A r \in queued \ (surfaced \cup held \cup lost) : \E s \in Services : r \in digest[s]

\* A report is left to the digest only if its service did use up its alerts
\* since Window seconds before the call read its clock: no entry that is older,
\* and none that another thread's reset took back, suppresses anything.
QueuedOnlyWhenFull ==
    [][pc = "check" /\ pc' = "queue" =>
          Cardinality(Recent(granted[info[current].service], clock["dispatch"])) >= MaxAlerts]_vars
=============================================================================
