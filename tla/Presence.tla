------------------------------ MODULE Presence ------------------------------
(* The thread that checks whether saved hosts are sharing                  *)
(* (echobind-desktop/src/presence.rs), the hosts it asks, and what the     *)
(* window reads. watch() is called by the window at every frame.           *)
(*                                                                         *)
(* Times are abstract: a reply is "heard" until ONLINE_FOR has passed and  *)
(* "stale" after; a host that has not answered is "waiting" until          *)
(* FIRST_REPLY_TIMEOUT and "silent" after.                                 *)
EXTENDS Integers, FiniteSets

CONSTANTS
  Address,
  Probed       \* bound: those whose host changes, and time passes for

ASSUME ProbedAssumption == Probed \subseteq Address

VARIABLES
  hosts,     \* what is at an address: "sharing", "closed" port or "gone"
  active,    \* State of presence.rs: whether to probe,
  targets,   \*   whom,
  statuses,  \*   and what is known of whom
  probing,   \* the thread: "top" of its loop, "idle" in wait(), "probe",
             \*   "publish" or "sleep"; or left "unscheduled"
  asked,     \* its copy of targets
  probes     \* its probes

presenceVars == <<hosts, active, targets, statuses, probing, asked, probes>>
stateVars == <<active, targets, statuses>>

NoProbes == [a \in {} |-> "waiting"]

\* Presence::start; the instance says whether the thread is scheduled.
PresenceInit ==
  /\ active = FALSE /\ targets = {} /\ statuses = [a \in {} |-> "checking"]
  /\ asked = {} /\ probes = NoProbes

\* status(): an address nothing is known of is being checked.
Status(a) == IF a \in DOMAIN statuses THEN statuses[a] ELSE "checking"

\* status_at.
StatusOf(probe) ==
  CASE probe \in {"closed", "no socket"} -> "offline"
    [] probe = "heard" -> "online"
    [] probe = "waiting" -> "checking"
    [] OTHER -> "offline"

\* watch(), if it changes anything: pausing forgets every status, and the
\* thread is woken.
Watch(toWatch, toProbe) ==
  /\ active # toProbe \/ targets # toWatch
  /\ active' = toProbe /\ targets' = toWatch
  /\ statuses' = IF toProbe THEN statuses ELSE [a \in {} |-> "checking"]
  /\ probing' = IF probing \in {"idle", "sleep"} THEN "top" ELSE probing

----------------------------------------------------------------------------
(* The thread. Between "probe" and "publish" it does not hold the lock.    *)

Top ==
  /\ probing = "top"
  /\ IF active /\ targets # {}
     THEN probing' = "probe" /\ asked' = targets /\ UNCHANGED probes
     ELSE probing' = "idle" /\ probes' = NoProbes /\ UNCHANGED asked
  /\ UNCHANGED <<hosts, stateVars>>

\* send() and receive() to the end of what has arrived: an answer, or the
\* error of a closed port, or nothing (a datagram may be lost, but for those
\* in heard).
Answers(a, probe) ==
  IF probe = "no socket" THEN {probe}
  ELSE {probe} \cup (CASE hosts[a] = "sharing" -> {"heard"}
                       [] hosts[a] = "closed" -> {"closed"}
                       [] OTHER -> {})

\* Mutant: every pass opens its probes anew.
KeptAnew(a) == "waiting"

\* or_insert_with: a probe that is there goes on.
Kept(a) == IF a \in DOMAIN probes THEN probes[a] ELSE "waiting"

Pass(heard) ==
  /\ probing = "probe" /\ probing' = "publish"
  /\ probes' \in [asked -> {"waiting", "silent", "heard", "stale", "closed", "no socket"}]
  /\ \A a \in asked :
       /\ \/ probes'[a] \in Answers(a, Kept(a))
          \/ a \notin DOMAIN probes /\ probes'[a] = "no socket"
       /\ a \in heard /\ hosts[a] = "sharing" => probes'[a] \in {"heard", "no socket"}
  /\ UNCHANGED <<hosts, stateVars, asked>>

\* The statuses are inserted under the lock, also those of a watch that has
\* changed meanwhile.
Publish ==
  /\ probing = "publish" /\ probing' = "sleep"
  /\ statuses' = [a \in DOMAIN statuses \cup asked |->
                    IF a \in asked THEN StatusOf(probes[a]) ELSE statuses[a]]
  /\ UNCHANGED <<hosts, active, targets, asked, probes>>

\* POLL_INTERVAL.
Wake ==
  /\ probing = "sleep" /\ probing' = "top"
  /\ UNCHANGED <<hosts, stateVars, asked, probes>>

\* FIRST_REPLY_TIMEOUT or ONLINE_FOR has passed for a probe; what is published
\* is as of the end of the pass.
Age(a) ==
  /\ probing # "publish" /\ a \in DOMAIN probes /\ probes[a] \in {"waiting", "heard"}
  /\ probes' = [probes EXCEPT ![a] = IF @ = "waiting" THEN "silent" ELSE "stale"]
  /\ UNCHANGED <<hosts, stateVars, probing, asked>>

\* A host starts or stops sharing, or its machine appears or goes. It counts
\* as sharing until the last of its answers has been read.
HostChanges ==
  /\ probing # "unscheduled"
  /\ \E a \in Probed, host \in {"sharing", "closed", "gone"} : hosts' = [hosts EXCEPT ![a] = host]
  /\ UNCHANGED <<stateVars, probing, asked, probes>>

Prober == Top \/ Pass({}) \/ Publish \/ Wake

PresenceNext == Prober \/ (\E a \in Probed : Age(a)) \/ HostChanges

============================================================================
