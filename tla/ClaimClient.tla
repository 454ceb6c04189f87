----------------------------- MODULE ClaimClient -----------------------------
(***************************************************************************)
(* An account host (phase_host.py) that looks for work, acquires a claim   *)
(* with bounded retries that a journal remembers over restarts             *)
(* (claim_retry_journal.py), and works while it can renew the lease        *)
(* (claim_client.py).                                                      *)
(*                                                                         *)
(* The service is what module ClaimProtocol says of it, reduced to the one *)
(* task that the host is after: who holds its claim and how long the lease *)
(* still runs.  A request is lost, handled although its answer is lost, or *)
(* handled late, after the host gave it up.  A uuid that nothing refers to *)
(* any more stands for a new one.  Of the journal the latest row counts.   *)
(*                                                                         *)
(* A unit of time is 15 s.  Retry delays are left open: a sleep takes any  *)
(* time.                                                                   *)
(***************************************************************************)
EXTENDS Naturals

CONSTANTS Uuid,                \* of acquisition requests
          Nobody, Others,      \* as the holder of the claim; Others are other workers
          Attempts,            \* CLAIM_RETRY_DELAYS, one delay per attempt
          LeaseTime,           \* of the service, 3600 s
          Margin, Cap,         \* of the host's own deadline: 30 s, 120 s
          Interval, Timeout,   \* of heartbeats: at most 30 s, 15 s
          Cooldown,            \* BLOCKER_REEVALUATE, 600 s
          MaxMoves

ASSUME HolderAssumption == Nobody # Others /\ Uuid \cap {Nobody, Others} = {}
ASSUME TimeAssumption == {Attempts, LeaseTime, Margin, Cap, Interval, Timeout, Cooldown}
                            \subseteq Nat \ {0}
\* "heartbeat interval must be at most 30 seconds"
ASSUME IntervalAssumption == Interval <= Margin
ASSUME BoundsAssumption == MaxMoves \in Nat

VARIABLES task, holder, lease, used,   \* the service: labels, claim, time left, rows
          host, journal, cooling,      \* the host; cooling since the last failure
          late,                        \* requests given up, not handled yet
          failures,                    \* of the latest request, that the host saw
          moves                        \* losses, crashes and other workers so far

service == <<task, holder, lease, used>>
vars == <<service, host, journal, cooling, late, failures, moves>>

Op == {"acquire", "start", "heartbeat", "advance"}
Least(a, b) == IF a <= b THEN a ELSE b

Idle == [at |-> "idle", request |-> Nobody, index |-> 0, deadline |-> 0, beat |-> 0,
         asking |-> FALSE, wait |-> 0]

Message == [op : Op, request : Uuid]
Hosts == [at : {"idle", "sleep", "acquire", "start", "work", "final", "advance"},
          request : Uuid \cup {Nobody}, index : 0..Attempts, deadline : 0..Cap,
          beat : 0..Interval, asking : BOOLEAN, wait : 0..Timeout]
Journals == [request : Uuid \cup {Nobody}, attempt : 0..Attempts,
             status : {"none", "attempting", "retryable", "exhausted", "stale", "acquired"}]

ServiceOK == /\ task \in {"todo", "running", "done"}
             /\ holder \in Uuid \cup {Nobody, Others}
             /\ lease \in 0..LeaseTime
             /\ used \subseteq Uuid

TypeOK == /\ ServiceOK
          /\ host \in Hosts /\ journal \in Journals /\ cooling \in 0..Cooldown
          /\ late \subseteq Message
          /\ failures \in Nat /\ moves \in Nat

Init == /\ task = "todo" /\ holder = Nobody /\ lease = 0 /\ used = {}
        /\ host = Idle
        /\ journal = [request |-> Nobody, attempt |-> 0, status |-> "none"] /\ cooling = 0
        /\ late = {}
        /\ failures = 0
        /\ moves = 0

-----------------------------------------------------------------------------
(* The service *)

Grants(m) ==
    CASE m.op = "acquire" -> IF m.request \in used THEN holder = m.request
                             ELSE holder = Nobody /\ task = "todo"
      [] m.op = "advance" -> holder = m.request /\ task = "running"
      [] OTHER -> holder = m.request

\* An acquisition asked for again is answered with the lease it has; only a heartbeat
\* extends it.
Handle(m) ==
    IF ~Grants(m) THEN UNCHANGED service
    ELSE /\ task' = CASE m.op = "start" -> "running"
                      [] m.op = "advance" -> "done"
                      [] OTHER -> task
         /\ holder' = CASE m.op = "acquire" -> m.request
                        [] m.op = "advance" -> Nobody
                        [] OTHER -> holder
         /\ lease' = CASE m.op = "heartbeat" \/ (m.op = "acquire" /\ m.request \notin used)
                            -> LeaseTime
                       [] m.op = "advance" -> 0
                       [] OTHER -> lease
         /\ used' = IF m.op = "acquire" THEN used \cup {m.request} ELSE used

Expire == /\ holder # Nobody /\ lease = 0
          /\ holder' = Nobody
          /\ UNCHANGED <<task, lease, used, host, journal, cooling, late, failures, moves>>

\* Labels left RUNNING by a claim that expired are READY again.
Recover == /\ task = "running" /\ holder = Nobody
           /\ task' = "todo"
           /\ UNCHANGED <<holder, lease, used, host, journal, cooling, late, failures, moves>>

HandleLate(m) == /\ m \in late
                 /\ late' = late \ {m}
                 /\ Handle(m)
                 /\ UNCHANGED <<host, journal, cooling, failures, moves>>

OtherTakes == /\ moves < MaxMoves /\ moves' = moves + 1
              /\ task = "todo" /\ holder = Nobody
              /\ holder' = Others /\ lease' = LeaseTime
              /\ task' \in {"todo", "running"}
              /\ UNCHANGED <<used, host, journal, cooling, late, failures>>

OtherFinishes == /\ holder = Others /\ task = "running"
                 /\ task' = "done" /\ holder' = Nobody /\ lease' = 0
                 /\ UNCHANGED <<used, host, journal, cooling, late, failures, moves>>

-----------------------------------------------------------------------------
(* The journal of acquisitions *)

Resumes == journal.status \in {"attempting", "retryable"}

\* (A bug.) A request is resumed at its first attempt.
FirstAttemptAgain == 1

\* An uncertain attempt is made again, a failed one is counted.
FirstAttempt == IF ~Resumes THEN 1
                ELSE IF journal.status = "retryable" THEN journal.attempt + 1
                ELSE journal.attempt

Referred == {holder, journal.request} \cup {m.request : m \in late}
NewRequest == CHOOSE r \in Uuid : r \notin Referred
\* (A bug.) A request that ended is asked for again.
RequestOnce == IF journal.request = Nobody THEN NewRequest ELSE journal.request

Request == IF Resumes THEN journal.request ELSE NewRequest

Record(status) ==
    /\ journal' = [request |-> host.request, attempt |-> host.index, status |-> status]
    /\ cooling' = IF status \in {"exhausted", "stale"} THEN Cooldown ELSE cooling

\* A fresh discovery sees the task; a request that failed for good is in its cooldown.
Begin == /\ host.at = "idle" /\ task = "todo"
         /\ journal.status \in {"exhausted", "stale"} => cooling = 0
         /\ Resumes \/ ~(Uuid \subseteq Referred)
         /\ host' = [Idle EXCEPT !.at = "sleep", !.request = Request, !.index = FirstAttempt]
         /\ failures' = IF Resumes THEN failures ELSE 0
         /\ used' = IF Resumes THEN used ELSE used \cap Referred
         /\ UNCHANGED <<task, holder, lease, journal, cooling, late, moves>>

Attempt == /\ host.at = "sleep"
           /\ Record("attempting")
           /\ host' = [host EXCEPT !.at = "acquire"]
           /\ UNCHANGED <<service, late, failures, moves>>

-----------------------------------------------------------------------------
(* The host and its lease *)

Asked == [op |-> IF host.at \in {"work", "final"} THEN "heartbeat" ELSE host.at,
          request |-> host.request]
Asking == host.at \in {"acquire", "start", "final", "advance"} \/ host.asking

Stop == host' = Idle

\* (A bug.) The deadline is the lease's own end.
DeadlineAtTheEnd(left) == Least(Cap, left)

\* The host's own deadline, for a lease that ends in left.
Deadline(left) == IF left > Margin THEN Least(Cap, left - Margin) ELSE 0

\* A request under ownership has until the deadline, and 15 s at most.
Asks(at, deadline) ==
    host' = [host EXCEPT !.at = at, !.deadline = deadline, !.wait = Least(Timeout, deadline),
                         !.beat = 0, !.asking = FALSE]
Works(deadline) ==
    host' = [host EXCEPT !.at = "work", !.deadline = deadline, !.wait = 0,
                         !.beat = Interval, !.asking = FALSE]

\* The answer of the service reaches the host.
Answered ==
    /\ Asking /\ Handle(Asked)
    /\ LET deadline == Deadline(lease')
       IN \/ /\ host.at = "acquire" /\ ~Grants(Asked)
             /\ Record("stale") /\ Stop
          \/ /\ host.at = "acquire" /\ Grants(Asked) /\ deadline > 0
             /\ Record("acquired") /\ Asks("start", deadline)
          \/ /\ host.at \in {"start", "work"} /\ Grants(Asked) /\ deadline > 0
             /\ Works(deadline) /\ UNCHANGED <<journal, cooling>>
          \/ /\ host.at = "final" /\ Grants(Asked) /\ deadline > 0
             /\ Asks("advance", deadline) /\ UNCHANGED <<journal, cooling>>
          \/ /\ \/ host.at = "advance"
                \/ host.at # "acquire" /\ ~Grants(Asked)
                \/ Grants(Asked) /\ deadline = 0
             /\ Stop /\ UNCHANGED <<journal, cooling>>
    /\ UNCHANGED <<late, failures, moves>>

\* A request that the host gives up: it is lost, was handled, or will be.
GivenUp == \/ UNCHANGED <<service, late>>
           \/ Handle(Asked) /\ UNCHANGED late
           \/ late' = late \cup {Asked} /\ UNCHANGED service

\* No answer, or 429 or 5xx.  An acquisition is tried again while it has attempts;
\* anything else ends the work.
Fail ==
    /\ Asking /\ GivenUp
    /\ moves < MaxMoves /\ moves' = moves + 1
    /\ IF host.at = "acquire"
       THEN /\ failures' = failures + 1
            /\ IF host.index = Attempts
               THEN Record("exhausted") /\ Stop
               ELSE /\ Record("retryable")
                    /\ host' = [host EXCEPT !.at = "sleep", !.index = @ + 1]
       ELSE Stop /\ UNCHANGED <<journal, cooling, failures>>

Beat == /\ host.at = "work" /\ ~host.asking /\ host.beat = 0
        /\ IF host.deadline = 0 THEN Stop
           ELSE host' = [host EXCEPT !.asking = TRUE, !.wait = Least(Timeout, host.deadline)]
        /\ UNCHANGED <<service, journal, cooling, late, failures, moves>>

\* The work is done: the monitor is cancelled, perhaps in the middle of a heartbeat, and
\* a heartbeat of the host's own precedes the advance.
Finish == /\ host.at = "work"
          /\ IF host.asking THEN GivenUp ELSE UNCHANGED <<service, late>>
          /\ IF host.deadline = 0 THEN Stop ELSE Asks("final", host.deadline)
          /\ UNCHANGED <<journal, cooling, failures, moves>>

\* The work fails, a publication is uncertain, or the host dies.
Crash == /\ host.at # "idle"
         /\ moves < MaxMoves /\ moves' = moves + 1
         /\ IF Asking THEN GivenUp ELSE UNCHANGED <<service, late>>
         /\ Stop
         /\ UNCHANGED <<journal, cooling, failures>>

-----------------------------------------------------------------------------
(* Time *)

Less(n) == IF n = 0 THEN 0 ELSE n - 1

\* What is due happens first: timeouts, heartbeats, the end of a lease.
Due == \/ Asking /\ host.at # "acquire" /\ host.wait = 0
       \/ host.at = "work" /\ ~host.asking /\ host.beat = 0
       \/ holder # Nobody /\ lease = 0

Tick == /\ ~Due
        /\ lease' = Less(lease) /\ cooling' = Less(cooling)
        /\ host' = [host EXCEPT !.deadline = Less(@), !.beat = Less(@), !.wait = Less(@)]
        /\ UNCHANGED <<task, holder, used, journal, late, failures, moves>>

Next == \/ Begin \/ Attempt \/ Answered \/ Fail \/ Beat \/ Finish \/ Crash
        \/ Expire \/ Recover \/ OtherTakes \/ OtherFinishes
        \/ (\E m \in late : HandleLate(m))
        \/ Tick

Spec == Init /\ [][Next]_vars
FairSpec == /\ Spec
            /\ WF_vars(Begin) /\ WF_vars(Attempt) /\ WF_vars(Answered)
            /\ WF_vars(Beat) /\ WF_vars(Finish)
            /\ WF_vars(Expire) /\ WF_vars(Recover) /\ WF_vars(Tick)

-----------------------------------------------------------------------------
(* Safety *)

\* While the host works, the claim it works for is in force, whatever was lost on the
\* way and however little of the lease was left when it joined: nobody else can hold it.
WorkFitsLease == host.at = "work" => holder = host.request /\ lease > 0 /\ task = "running"

\* "Restarts cannot reset exhausted attempts" (claim_client.py:98): of one request no
\* more attempts fail than the schedule has, over any number of hosts.
RetryBudget == failures <= Attempts

-----------------------------------------------------------------------------
(* Liveness *)

\* Once losses end, the work gets done: an attempt left open, a claim orphaned by a
\* crash and the cooldowns after failures do not keep the hosts from it.
WorkGetsDone == <>(task = "done")

=============================================================================
