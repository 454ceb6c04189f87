-------------------------- MODULE ClaimClientProofs --------------------------
(***************************************************************************)
(* Proofs about module ClaimClient, for any lease, margin and timeout, any *)
(* number of attempts, losses, crashes and other workers: types, the time  *)
(* that work has, and the retry budget.                                    *)
(***************************************************************************)
EXTENDS ClaimClient, TLAPS

Owning == {"start", "work", "final", "advance"}

\* A host and the journal refer to a request, where they need one.
Refers == /\ host.at # "idle" => host.request \in Uuid
          /\ Resumes => journal.request \in Uuid
          /\ host.asking => host.at = "work"

\* Failures are fewer than the attempts made, over restarts.
Budget == /\ failures <= Attempts
          /\ journal.status = "retryable" =>
                 failures <= journal.attempt /\ journal.attempt < Attempts
          /\ journal.status = "attempting" => failures < journal.attempt
          /\ host.at \in {"sleep", "acquire"} => failures < host.index

\* The claim that a host owns is its own; what the lease has left exceeds what the host
\* allows itself, by the margin while its deadline runs and until the next heartbeat.
Owned == host.at \in Owning =>
             /\ holder = host.request
             /\ host.at \in {"work", "final"} => task = "running"
             /\ IF Asking THEN host.wait <= host.deadline /\ host.deadline + Margin <= lease
                ELSE /\ host.beat < lease
                     /\ host.deadline > 0 => host.deadline + Margin <= lease

\* An advance that was given up is not for a request that somebody may still work for.
NoStrayAdvance ==
    /\ host.at \in Owning => journal.status = "acquired"
    /\ host.at # "idle" => [op |-> "advance", request |-> host.request] \notin late
    /\ Resumes => [op |-> "advance", request |-> journal.request] \notin late

IInv == TypeOK /\ Refers /\ Budget /\ Owned /\ NoStrayAdvance

-----------------------------------------------------------------------------
(* Types *)

LEMMA Times ==
    /\ Attempts \in Nat /\ Attempts > 0 /\ LeaseTime \in Nat /\ LeaseTime > 0
    /\ Margin \in Nat /\ Margin > 0 /\ Cap \in Nat /\ Cap > 0
    /\ Interval \in Nat /\ Interval > 0 /\ Timeout \in Nat /\ Timeout > 0
    /\ Cooldown \in Nat /\ Cooldown > 0 /\ Interval <= Margin
BY TimeAssumption, IntervalAssumption

LEMMA IdleType == Idle \in Hosts
BY Times DEF Idle, Hosts

LEMMA AskedType == TypeOK /\ Refers /\ Asking => Asked \in Message
BY DEF TypeOK, Refers, Asking, Asked, Message, Op

LEMMA HandleType ==
    ASSUME ServiceOK, NEW m \in Message, Handle(m) PROVE ServiceOK'
<1>1. m.request \in Uuid /\ m.op \in Op
  BY DEF Message
<1>2. CASE ~Grants(m)
  BY <1>2 DEF Handle, service, ServiceOK
<1>3. CASE Grants(m)
  <2>1. task' \in {"todo", "running", "done"} /\ used' \subseteq Uuid
    BY <1>1, <1>3 DEF Handle, ServiceOK
  <2>2. holder' \in Uuid \cup {Nobody, Others}
    BY <1>1, <1>3 DEF Handle, ServiceOK
  <2>3. lease' \in 0..LeaseTime
    BY <1>1, <1>3, Times DEF Handle, ServiceOK
  <2> QED BY <2>1, <2>2, <2>3 DEF ServiceOK
<1> QED BY <1>2, <1>3

LEMMA GivenUpType ==
    ASSUME TypeOK, Refers, Asking, GivenUp PROVE ServiceOK' /\ late' \subseteq Message
BY AskedType, HandleType DEF GivenUp, service, ServiceOK, TypeOK

\* What reaches the service or is put off by a host that may stop in the middle of it.
LEMMA MaybeGivenUpType ==
    ASSUME TypeOK, Refers, NEW asked \in BOOLEAN, asked => Asking,
           IF asked THEN GivenUp ELSE UNCHANGED <<service, late>>
    PROVE  ServiceOK' /\ late' \subseteq Message
BY GivenUpType DEF service, ServiceOK, TypeOK

LEMMA DeadlineType ==
    ASSUME NEW left \in 0..LeaseTime
    PROVE  /\ Deadline(left) \in 0..Cap
           /\ Deadline(left) > 0 => Deadline(left) + Margin <= left
BY Times DEF Deadline, Least

LEMMA HostType ==
    ASSUME NEW h \in Hosts, NEW d \in 0..Cap, NEW w \in 0..Timeout, NEW b \in 0..Interval,
           NEW a \in BOOLEAN,
           NEW at \in {"idle", "sleep", "acquire", "start", "work", "final", "advance"}
    PROVE  [h EXCEPT !.at = at, !.deadline = d, !.wait = w, !.beat = b, !.asking = a] \in Hosts
BY DEF Hosts

LEMMA AsksType ==
    ASSUME host \in Hosts, NEW d \in 0..Cap,
           NEW at \in {"start", "final", "advance"}, Asks(at, d)
    PROVE  /\ host' \in Hosts
           /\ host'.at = at /\ host'.request = host.request /\ host'.deadline = d
           /\ host'.wait <= d /\ host'.asking = FALSE
<1>1. Least(Timeout, d) \in 0..Timeout /\ Least(Timeout, d) <= d
  BY Times DEF Least
<1>2. 0 \in 0..Interval
  BY Times
<1>3. host' \in Hosts
  BY <1>1, <1>2, HostType DEF Asks
<1> QED BY <1>1, <1>3 DEF Asks, Hosts

LEMMA WorksType ==
    ASSUME host \in Hosts, NEW d \in 0..Cap, Works(d)
    PROVE  /\ host' \in Hosts
           /\ host'.at = "work" /\ host'.request = host.request /\ host'.deadline = d
           /\ host'.beat = Interval /\ host'.asking = FALSE
<1>1. 0 \in 0..Timeout /\ Interval \in 0..Interval
  BY Times
<1>2. host' \in Hosts
  BY <1>1, HostType DEF Works
<1> QED BY <1>2 DEF Works, Hosts

LEMMA RecordType ==
    ASSUME host \in Hosts, host.request \in Uuid, cooling \in 0..Cooldown,
           NEW status \in {"attempting", "retryable", "exhausted", "stale", "acquired"},
           Record(status)
    PROVE  /\ journal' \in Journals /\ cooling' \in 0..Cooldown
           /\ journal'.request = host.request /\ journal'.attempt = host.index
           /\ journal'.status = status
BY Times DEF Record, Hosts, Journals

\* A request is one that the journal resumes, or one that nothing refers to.
LEMMA RequestType ==
    ASSUME TypeOK, Refers, Budget, Resumes \/ ~(Uuid \subseteq Referred)
    PROVE  /\ Request \in Uuid /\ FirstAttempt \in 1..Attempts
           /\ Resumes => Request = journal.request
           /\ ~Resumes => Request \notin Referred
<1>1. CASE Resumes
  BY <1>1, Times DEF Journals, Refers, Budget, Request, FirstAttempt, Resumes, TypeOK
<1>2. CASE ~Resumes
  <2>1. NewRequest \in Uuid /\ NewRequest \notin Referred
    BY <1>2 DEF NewRequest
  <2> QED BY <1>2, <2>1, Times DEF Request, FirstAttempt
<1> QED BY <1>1, <1>2

LEMMA BeginType ==
    ASSUME TypeOK, Refers, Budget, Begin
    PROVE  /\ host' \in Hosts /\ host'.at = "sleep" /\ host'.request = Request
           /\ host'.index = FirstAttempt /\ host'.asking = FALSE
<1>1. Request \in Uuid /\ FirstAttempt \in 0..Attempts
  BY RequestType, Times DEF Begin
<1>2. ASSUME NEW h \in Hosts, NEW r \in Uuid, NEW n \in 0..Attempts
      PROVE  [h EXCEPT !.at = "sleep", !.request = r, !.index = n] \in Hosts
  BY DEF Hosts
<1>3. host' \in Hosts
  BY <1>1, <1>2, IdleType DEF Begin
<1> QED BY <1>3, IdleType DEF Begin, Idle

LEMMA NextType == TypeOK /\ Refers /\ Budget /\ [Next]_vars => TypeOK'
<1> SUFFICES ASSUME TypeOK, Refers, Budget, [Next]_vars PROVE TypeOK'
  OBVIOUS
<1>0. /\ ServiceOK /\ host \in Hosts /\ journal \in Journals /\ cooling \in 0..Cooldown
      /\ late \subseteq Message /\ failures \in Nat /\ moves \in Nat
  BY DEF TypeOK
<1> USE IdleType
<1>1. CASE Begin
  BY <1>0, <1>1, BeginType DEF Begin, ServiceOK, TypeOK
<1>2. CASE Attempt
  <2>1. host' \in Hosts /\ journal' \in Journals /\ cooling' \in 0..Cooldown
    BY <1>0, <1>2, RecordType DEF Attempt, Hosts, Refers
  <2> QED BY <1>0, <1>2, <2>1 DEF Attempt, service, ServiceOK, TypeOK
<1>3. CASE Answered
  <2>1. ServiceOK' /\ lease' \in 0..LeaseTime
    BY <1>0, <1>3, AskedType, HandleType DEF Answered, ServiceOK
  <2>2. Deadline(lease') \in 0..Cap
    BY <2>1, DeadlineType
  <2>3. host' \in Hosts
    BY <1>0, <1>3, <2>2, AsksType, WorksType DEF Answered, Stop
  <2>4. journal' \in Journals /\ cooling' \in 0..Cooldown
    BY <1>0, <1>3, RecordType DEF Answered, Refers
  <2> QED BY <1>0, <1>3, <2>1, <2>3, <2>4 DEF Answered, TypeOK
<1>4. CASE Fail
  <2>1. ServiceOK' /\ late' \subseteq Message
    BY <1>4, GivenUpType DEF Fail
  <2>2. journal' \in Journals /\ cooling' \in 0..Cooldown
    BY <1>0, <1>4, RecordType DEF Fail, Refers
  <2>3. host' \in Hosts
    <3>1. host.at = "acquire" /\ host.index # Attempts => host.index + 1 \in 0..Attempts
      BY <1>0, Times DEF Hosts
    <3>2. ASSUME NEW n \in 0..Attempts
          PROVE  [host EXCEPT !.at = "sleep", !.index = n] \in Hosts
      BY <1>0 DEF Hosts
    <3>3. \/ host' = Idle
          \/ /\ host.at = "acquire" /\ host.index # Attempts
             /\ host' = [host EXCEPT !.at = "sleep", !.index = host.index + 1]
      BY <1>4 DEF Fail, Stop
    <3> QED BY <3>1, <3>2, <3>3
  <2> QED BY <1>0, <1>4, <2>1, <2>2, <2>3 DEF Fail, TypeOK
<1>5. CASE Beat
  <2>1. host' \in Hosts
    <3>1. Least(Timeout, host.deadline) \in 0..Timeout
      BY <1>0, Times DEF Hosts, Least
    <3>2. ASSUME NEW w \in 0..Timeout
          PROVE  [host EXCEPT !.asking = TRUE, !.wait = w] \in Hosts
      BY <1>0 DEF Hosts
    <3>3. \/ host' = Idle
          \/ host' = [host EXCEPT !.asking = TRUE, !.wait = Least(Timeout, host.deadline)]
      BY <1>5 DEF Beat, Stop
    <3> QED BY <1>0, <3>1, <3>2, <3>3
  <2> QED BY <1>0, <1>5, <2>1 DEF Beat, service, ServiceOK, TypeOK
<1>6. CASE Finish
  <2>1. ServiceOK' /\ late' \subseteq Message
    BY <1>6, MaybeGivenUpType DEF Finish, Asking, TypeOK
  <2>2. host.deadline \in 0..Cap
    BY <1>0 DEF Hosts
  <2>3. host' \in Hosts
    BY <1>0, <1>6, <2>2, AsksType DEF Finish, Stop
  <2> QED BY <1>0, <1>6, <2>1, <2>3 DEF Finish, TypeOK
<1>7. CASE Crash
  <2>1. ServiceOK' /\ late' \subseteq Message
    BY <1>7, MaybeGivenUpType DEF Crash, Asking
  <2> QED BY <1>0, <1>7, <2>1 DEF Crash, Stop, TypeOK
<1>8. CASE Expire \/ Recover \/ OtherTakes \/ OtherFinishes
  <2>1. ServiceOK'
    BY <1>0, <1>8, Times DEF Expire, Recover, OtherTakes, OtherFinishes, ServiceOK
  <2> QED BY <1>0, <1>8, <2>1 DEF Expire, Recover, OtherTakes, OtherFinishes, TypeOK
<1>9. ASSUME NEW m \in late, HandleLate(m) PROVE TypeOK'
  BY <1>0, <1>9, HandleType DEF HandleLate, TypeOK
<1>10. CASE Tick
  <2>1. ASSUME NEW n \in Nat, NEW k \in 0..n PROVE Less(k) \in 0..n
    BY DEF Less
  <2>2. /\ Less(lease) \in 0..LeaseTime /\ Less(cooling) \in 0..Cooldown
        /\ Less(host.deadline) \in 0..Cap /\ Less(host.beat) \in 0..Interval
        /\ Less(host.wait) \in 0..Timeout
    BY <1>0, <2>1, Times DEF ServiceOK, Hosts
  <2>3. host' \in Hosts
    BY <1>0, <1>10, <2>2 DEF Tick, Hosts
  <2> QED BY <1>0, <1>10, <2>2, <2>3 DEF Tick, ServiceOK, TypeOK
<1>11. CASE UNCHANGED vars
  BY <1>11 DEF vars, service, TypeOK, ServiceOK
<1> QED BY <1>1, <1>2, <1>3, <1>4, <1>5, <1>6, <1>7, <1>8, <1>9, <1>10, <1>11 DEF Next

-----------------------------------------------------------------------------
(* References and the budget *)

LEMMA InitInv == Init => IInv
<1> SUFFICES ASSUME Init PROVE IInv
  OBVIOUS
<1>1. journal \in Journals
  BY Times DEF Init, Journals
<1>2. TypeOK
  BY <1>1, Times, IdleType, BoundsAssumption DEF Init, TypeOK, ServiceOK
<1>3. Refers /\ Budget /\ Owned /\ NoStrayAdvance
  BY Times DEF Init, Idle, Refers, Budget, Owned, Owning, NoStrayAdvance, Resumes
<1> QED BY <1>2, <1>3 DEF IInv

LEMMA NextRefers == TypeOK /\ Refers /\ Budget /\ [Next]_vars => Refers'
<1> SUFFICES ASSUME TypeOK, Refers, Budget, [Next]_vars PROVE Refers'
  OBVIOUS
<1>0. host \in Hosts /\ journal \in Journals /\ cooling \in 0..Cooldown
  BY DEF TypeOK
<1>i. Idle.at = "idle" /\ ~Idle.asking
  BY DEF Idle
<1>1. CASE Begin
  BY <1>1, BeginType, RequestType DEF Begin, Refers, Resumes
<1>2. CASE Attempt
  <2>1. journal'.request = host.request
    BY <1>0, <1>2, RecordType DEF Attempt, Refers
  <2>2. host'.at = "acquire" /\ host'.request = host.request /\ host'.asking = host.asking
    BY <1>0, <1>2 DEF Attempt, Hosts
  <2> QED BY <1>2, <2>1, <2>2 DEF Attempt, Refers
<1>3. CASE Answered
  <2>1. Resumes' => journal'.request \in Uuid
    BY <1>0, <1>3, RecordType DEF Answered, Refers, Resumes, Asking
  <2>2. Deadline(lease') \in 0..Cap
    BY <1>3, AskedType, HandleType, DeadlineType DEF Answered, TypeOK, ServiceOK
  <2>3. /\ host'.at # "idle" => host'.request = host.request /\ host.at # "idle"
        /\ ~host'.asking
    BY <1>0, <1>3, <1>i, <2>2, AsksType, WorksType DEF Answered, Asking, Refers, Stop
  <2> QED BY <2>1, <2>3 DEF Refers
<1>4. CASE Fail
  <2>1. Resumes' => journal'.request \in Uuid
    BY <1>0, <1>4, RecordType DEF Fail, Refers, Resumes
  <2>2. /\ host'.at # "idle" => host'.request = host.request /\ host.at = "acquire"
        /\ ~host'.asking
    BY <1>0, <1>4, <1>i DEF Fail, Stop, Refers, Hosts
  <2> QED BY <2>1, <2>2 DEF Refers
<1>5. CASE Beat
  BY <1>0, <1>5, <1>i DEF Beat, Stop, Refers, Resumes, Hosts
<1>6. CASE Finish
  <2>1. host.deadline \in 0..Cap
    BY <1>0 DEF Hosts
  <2>2. host'.at # "idle" => host'.request = host.request
    BY <1>0, <1>6, <1>i, <2>1, AsksType DEF Finish, Stop
  <2>3. ~host'.asking
    BY <1>0, <1>6, <1>i, <2>1, AsksType DEF Finish, Stop
  <2> QED BY <1>6, <2>2, <2>3 DEF Finish, Refers, Resumes
<1>7. CASE Crash
  BY <1>7, <1>i DEF Crash, Stop, Refers, Resumes
<1>8. CASE Tick
  BY <1>0, <1>8 DEF Tick, Refers, Resumes, Hosts
<1>9. CASE UNCHANGED <<host, journal>>
  BY <1>9 DEF Refers, Resumes
<1> QED BY <1>1, <1>2, <1>3, <1>4, <1>5, <1>6, <1>7, <1>8, <1>9
        DEF Next, Expire, Recover, OtherTakes, OtherFinishes, HandleLate, vars

LEMMA NextBudget == TypeOK /\ Refers /\ Budget /\ [Next]_vars => Budget'
<1> SUFFICES ASSUME TypeOK, Refers, Budget, [Next]_vars PROVE Budget'
  OBVIOUS
<1>0. /\ host \in Hosts /\ journal \in Journals /\ cooling \in 0..Cooldown
      /\ failures \in Nat /\ host.index \in 0..Attempts /\ journal.attempt \in 0..Attempts
  BY DEF TypeOK, Hosts, Journals
<1>i. Idle.at = "idle"
  BY DEF Idle
<1> USE Times
<1>1. CASE Begin
  <2>1. host'.at = "sleep" /\ host'.index = FirstAttempt /\ FirstAttempt \in 1..Attempts
    BY <1>1, BeginType, RequestType DEF Begin
  <2>2. failures' < FirstAttempt
    BY <1>0, <1>1, <2>1 DEF Begin, Budget, Resumes, FirstAttempt
  <2> QED BY <1>0, <1>1, <2>1, <2>2 DEF Begin, Budget, Resumes
<1>2. CASE Attempt
  <2>1. journal'.attempt = host.index /\ journal'.status = "attempting"
    BY <1>0, <1>2, RecordType DEF Attempt, Refers
  <2>2. host'.at = "acquire" /\ host'.index = host.index
    BY <1>0, <1>2 DEF Attempt, Hosts
  <2> QED BY <1>0, <1>2, <2>1, <2>2 DEF Attempt, Budget
<1>3. CASE Answered
  <2>1. Deadline(lease') \in 0..Cap
    BY <1>3, AskedType, HandleType, DeadlineType DEF Answered, TypeOK, ServiceOK
  <2>2. host'.at \notin {"sleep", "acquire"}
    BY <1>0, <1>3, <1>i, <2>1, AsksType, WorksType DEF Answered, Stop
  <2>3. UNCHANGED journal \/ journal'.status \in {"stale", "acquired"}
    BY <1>0, <1>3, RecordType DEF Answered, Refers
  <2> QED BY <1>3, <2>2, <2>3 DEF Answered, Budget
<1>4. CASE Fail
  <2>1. CASE host.at # "acquire"
    BY <1>4, <1>i, <2>1 DEF Fail, Stop, Budget
  <2>2. CASE host.at = "acquire" /\ host.index = Attempts
    <3>1. journal'.status = "exhausted"
      BY <1>0, <1>4, <2>2, RecordType DEF Fail, Refers
    <3> QED BY <1>0, <1>4, <1>i, <2>2, <3>1 DEF Fail, Stop, Budget
  <2>3. CASE host.at = "acquire" /\ host.index # Attempts
    <3>1. journal'.status = "retryable" /\ journal'.attempt = host.index
      BY <1>0, <1>4, <2>3, RecordType DEF Fail, Refers
    <3>2. host'.index = host.index + 1
      BY <1>0, <1>4, <2>3 DEF Fail, Hosts
    <3> QED BY <1>0, <1>4, <2>3, <3>1, <3>2 DEF Fail, Budget
  <2> QED BY <2>1, <2>2, <2>3
<1>5. CASE Beat
  BY <1>0, <1>5, <1>i DEF Beat, Stop, Budget, Hosts
<1>6. CASE Finish
  <2>1. host.deadline \in 0..Cap
    BY <1>0 DEF Hosts
  <2>2. host'.at \in {"idle", "final"}
    BY <1>0, <1>6, <1>i, <2>1, AsksType DEF Finish, Stop
  <2> QED BY <1>6, <2>2 DEF Finish, Budget
<1>7. CASE Crash
  BY <1>7, <1>i DEF Crash, Stop, Budget
<1>8. CASE Tick
  BY <1>0, <1>8 DEF Tick, Budget, Hosts
<1>9. CASE UNCHANGED <<host, journal, failures>>
  BY <1>9 DEF Budget
<1> QED BY <1>1, <1>2, <1>3, <1>4, <1>5, <1>6, <1>7, <1>8, <1>9
        DEF Next, Expire, Recover, OtherTakes, OtherFinishes, HandleLate, vars

-----------------------------------------------------------------------------
(* The lease of a host that works *)

\* Only the host that owns the claim asks for an advance.
LEMMA StrayIsOwn ==
    ASSUME TypeOK, Refers, Asking, GivenUp, NEW m \in late' \ late, m.op = "advance"
    PROVE  host.at = "advance" /\ m.request = host.request
BY DEF GivenUp, Asked, Asking, Refers

LEMMA NextNoStray == IInv /\ [Next]_vars => NoStrayAdvance'
<1> SUFFICES ASSUME IInv, [Next]_vars PROVE NoStrayAdvance'
  OBVIOUS
<1> DEFINE Advance(r) == [op |-> "advance", request |-> r]
<1>0. /\ TypeOK /\ Refers /\ Budget /\ NoStrayAdvance
      /\ host \in Hosts /\ journal \in Journals /\ cooling \in 0..Cooldown
      /\ host.deadline \in 0..Cap
  BY DEF IInv, TypeOK, Hosts
<1>i. Idle.at = "idle"
  BY DEF Idle
<1>1. CASE Begin
  <2>1. host'.at = "sleep" /\ host'.request = Request
    BY <1>0, <1>1, BeginType
  <2>2. Advance(Request) \notin late
    <3>1. CASE Resumes
      BY <1>0, <1>1, <3>1, RequestType DEF Begin, NoStrayAdvance
    <3>2. CASE ~Resumes
      BY <1>0, <1>1, <3>2, RequestType DEF Begin, Referred
    <3> QED BY <3>1, <3>2
  <2> QED BY <1>0, <1>1, <2>1, <2>2 DEF Begin, NoStrayAdvance, Owning, Resumes
<1>2. CASE Attempt
  <2>1. journal'.request = host.request /\ journal'.status = "attempting"
    BY <1>0, <1>2, RecordType DEF Attempt, Refers
  <2>2. host'.at = "acquire" /\ host'.request = host.request
    BY <1>0, <1>2 DEF Attempt, Hosts
  <2> QED BY <1>0, <1>2, <2>1, <2>2 DEF Attempt, NoStrayAdvance, Owning
<1>3. CASE Answered
  <2>1. Deadline(lease') \in 0..Cap
    BY <1>0, <1>3, AskedType, HandleType, DeadlineType DEF Answered, TypeOK, ServiceOK
  <2>2. /\ host'.at # "idle" => host'.request = host.request /\ host.at # "idle"
    BY <1>0, <1>3, <1>i, <2>1, AsksType, WorksType DEF Answered, Asking, Refers, Stop
  <2>3. \/ UNCHANGED journal /\ host.at # "acquire"
        \/ UNCHANGED journal /\ host'.at = "idle"
        \/ journal'.status = "stale" /\ host'.at = "idle"
        \/ journal'.status = "acquired"
    BY <1>0, <1>3, <1>i, RecordType DEF Answered, Refers, Stop
  <2>4. late' = late /\ host.at \in Owning \cup {"acquire"}
    BY <1>0, <1>3 DEF Answered, Asking, Refers, Owning
  <2> QED BY <1>0, <2>2, <2>3, <2>4 DEF NoStrayAdvance, Owning, Resumes
<1>4. CASE Fail
  <2>1. CASE host.at = "acquire"
    <3>1. Advance(host.request) \notin late' /\ Advance(journal.request) \notin late' \ late
      BY <1>0, <1>4, <2>1, StrayIsOwn DEF Fail, NoStrayAdvance
    <3>2. journal'.request = host.request /\ host'.at \notin Owning
          /\ (host'.at # "idle" => host'.request = host.request)
      BY <1>0, <1>4, <1>i, <2>1, RecordType DEF Fail, Stop, Refers, Owning, Hosts
    <3> QED BY <3>1, <3>2 DEF NoStrayAdvance
  <2>2. CASE host.at # "acquire"
    <3>1. host'.at = "idle" /\ journal' = journal
      BY <1>4, <1>i, <2>2 DEF Fail, Stop
    <3>2. host.at \in Owning /\ ~Resumes
      BY <1>0, <1>4, <2>2 DEF Fail, Asking, Refers, Owning, NoStrayAdvance, Resumes
    <3> QED BY <3>1, <3>2 DEF NoStrayAdvance, Owning, Resumes
  <2> QED BY <2>1, <2>2
<1>5. CASE Beat
  <2>1. host'.at # "idle" => host'.at = "work" /\ host'.request = host.request
    BY <1>0, <1>5, <1>i DEF Beat, Stop, Hosts
  <2> QED BY <1>0, <1>5, <2>1 DEF Beat, NoStrayAdvance, Owning, Resumes
<1>6. CASE Finish
  <2>1. host'.at # "idle" => host'.at = "final" /\ host'.request = host.request
    BY <1>0, <1>6, <1>i, AsksType DEF Finish, Stop
  <2>2. journal' = journal /\ host.at = "work" /\ journal.status = "acquired"
    BY <1>0, <1>6 DEF Finish, NoStrayAdvance, Owning
  <2>3. Advance(host.request) \notin late'
    BY <1>0, <1>6, StrayIsOwn DEF Finish, NoStrayAdvance, Asking
  <2> QED BY <2>1, <2>2, <2>3 DEF NoStrayAdvance, Resumes
<1>7. CASE Crash
  <2>1. host'.at = "idle" /\ journal' = journal
    BY <1>7, <1>i DEF Crash, Stop
  <2>2. Resumes => Advance(journal.request) \notin late'
    <3>1. CASE host.at \in Owning
      BY <1>0, <3>1 DEF NoStrayAdvance, Resumes
    <3>2. CASE host.at \notin Owning
      BY <1>0, <1>7, <3>2, StrayIsOwn DEF Crash, NoStrayAdvance, Owning
    <3> QED BY <3>1, <3>2
  <2> QED BY <2>1, <2>2 DEF NoStrayAdvance, Owning, Resumes
<1>8. CASE Tick
  BY <1>0, <1>8 DEF Tick, NoStrayAdvance, Resumes, Hosts
<1>9. CASE UNCHANGED <<host, journal>> /\ late' \subseteq late
  BY <1>0, <1>9 DEF NoStrayAdvance, Resumes
<1> QED BY <1>1, <1>2, <1>3, <1>4, <1>5, <1>6, <1>7, <1>8, <1>9
        DEF Next, Expire, Recover, OtherTakes, OtherFinishes, HandleLate, vars

\* What the service does for a request that is not an advance of the owner leaves the
\* owner its claim, and takes nothing from its lease.
LEMMA OwnerStays ==
    ASSUME TypeOK, host.at \in Owning, host.request \in Uuid, holder = host.request,
           NEW m \in Message, Handle(m),
           m.op = "advance" => m.request # host.request
    PROVE  /\ holder' = holder /\ lease' \in Nat /\ lease' >= lease
           /\ task = "running" => task' = "running"
           /\ Grants(m) /\ m.op = "heartbeat" => lease' = LeaseTime
<1>1. m.op \in Op /\ lease \in 0..LeaseTime /\ LeaseTime \in Nat /\ holder \notin {Nobody, Others}
  BY HolderAssumption, Times DEF Message, TypeOK, ServiceOK
<1>2. CASE ~Grants(m)
  BY <1>1, <1>2 DEF Handle, service
<1>3. CASE Grants(m)
  <2>1. m.op \in {"start", "heartbeat"} \/ (m.op = "acquire" /\ m.request \in used)
    <3>1. m.op # "advance"
      BY <1>3 DEF Grants
    <3>2. m.op = "acquire" => m.request \in used
      BY <1>1, <1>3 DEF Grants
    <3> QED BY <1>1, <3>1, <3>2 DEF Op
  <2>2. holder = m.request
    BY <1>3, <2>1 DEF Grants
  <2> QED BY <1>1, <1>3, <2>1, <2>2 DEF Handle
<1> QED BY <1>2, <1>3

LEMMA OwnerGivesUp ==
    ASSUME IInv, host.at \in Owning \ {"advance"},
           IF Asking THEN GivenUp ELSE UNCHANGED <<service, late>>
    PROVE  /\ holder' = holder /\ lease' \in Nat /\ lease' >= lease
           /\ task = "running" => task' = "running"
<1>1. /\ TypeOK /\ host.request \in Uuid /\ holder = host.request /\ lease \in Nat
  BY Times DEF IInv, Owned, Owning, Refers, TypeOK, ServiceOK
<1>2. CASE UNCHANGED service
  BY <1>1, <1>2 DEF service
<1>3. CASE Asking /\ Handle(Asked)
  <2>1. Asked \in Message /\ Asked.op # "advance"
    BY <1>3, AskedType DEF IInv, Asked, Owning
  <2> QED BY <1>1, <1>3, <2>1, OwnerStays
<1> QED BY <1>2, <1>3 DEF GivenUp

LEMMA NextOwned == IInv /\ [Next]_vars => Owned'
<1> SUFFICES ASSUME IInv, [Next]_vars, host'.at \in Owning PROVE Owned'
  BY DEF Owned
<1>0. /\ TypeOK /\ Refers /\ Budget /\ NoStrayAdvance /\ Owned
      /\ host \in Hosts /\ lease \in 0..LeaseTime
      /\ host.deadline \in Nat /\ host.wait \in Nat /\ host.beat \in Nat /\ lease \in Nat
      /\ host.deadline \in 0..Cap
  BY Times DEF IInv, TypeOK, ServiceOK, Hosts
<1>i. Idle.at = "idle" /\ "idle" \notin Owning
  BY DEF Idle, Owning
<1> USE Times
<1>1. CASE Begin \/ Attempt \/ Fail \/ Crash
  <2>1. host'.at \notin Owning
    BY <1>0, <1>1, <1>i, BeginType DEF Attempt, Fail, Crash, Stop, Owning, Hosts
  <2> QED BY <2>1
<1>2. CASE Answered
  <2> DEFINE d == Deadline(lease')
  <2>1. Asked \in Message /\ lease' \in 0..LeaseTime
    BY <1>0, <1>2, AskedType, HandleType DEF Answered, TypeOK, ServiceOK
  <2>2. d \in 0..Cap /\ (d > 0 => d + Margin <= lease')
    BY <2>1, DeadlineType
  <2>3. CASE host.at = "acquire" /\ Grants(Asked) /\ d > 0 /\ Asks("start", d)
    <3>1. holder' = host.request
      BY <1>0, <1>2, <2>3 DEF Answered, Handle, Asked, Refers
    <3>2. /\ host'.at = "start" /\ host'.request = host.request /\ host'.deadline = d
          /\ host'.wait <= d
      BY <1>0, <2>2, <2>3, AsksType
    <3> QED BY <2>2, <2>3, <3>1, <3>2 DEF Owned, Asking
  <2>4. CASE host.at \in {"start", "work"} /\ Grants(Asked) /\ d > 0 /\ Works(d)
    <3>1. holder = host.request /\ host.request \in Uuid
      BY <1>0, <2>4 DEF Owned, Owning, Refers
    <3>2. holder' = holder
      BY <1>0, <1>2, <2>1, <2>4, <3>1, OwnerStays DEF Answered, Asked, Owning
    <3>3. task' = "running"
      BY <1>0, <1>2, <2>4 DEF Answered, Handle, Asked, Owned, Owning
    <3>4. /\ host'.at = "work" /\ host'.request = host.request /\ host'.deadline = d
          /\ host'.beat = Interval /\ ~host'.asking
      BY <1>0, <2>2, <2>4, WorksType
    <3>5. Interval < lease' /\ ~Asking'
      BY <2>1, <2>2, <2>4, <3>4 DEF Asking
    <3> QED BY <2>2, <3>1, <3>2, <3>3, <3>4, <3>5 DEF Owned
  <2>5. CASE host.at = "final" /\ Grants(Asked) /\ d > 0 /\ Asks("advance", d)
    <3>1. holder = host.request /\ host.request \in Uuid
      BY <1>0, <2>5 DEF Owned, Owning, Refers
    <3>2. holder' = holder
      BY <1>0, <1>2, <2>1, <2>5, <3>1, OwnerStays DEF Answered, Asked, Owning
    <3>3. /\ host'.at = "advance" /\ host'.request = host.request /\ host'.deadline = d
          /\ host'.wait <= d
      BY <1>0, <2>2, <2>5, AsksType
    <3> QED BY <2>2, <2>5, <3>1, <3>2, <3>3 DEF Owned, Asking
  <2>6. ~Stop
    BY <1>i DEF Stop
  <2> QED BY <1>2, <2>3, <2>4, <2>5, <2>6 DEF Answered
<1>3. CASE Beat
  <2>1. host' = [host EXCEPT !.asking = TRUE, !.wait = Least(Timeout, host.deadline)]
        /\ host.at = "work" /\ host.deadline > 0 /\ ~Asking
    BY <1>0, <1>3, <1>i DEF Beat, Stop, Asking
  <2>2. /\ host'.at = "work" /\ host'.request = host.request /\ host'.deadline = host.deadline
        /\ host'.wait <= host.deadline /\ Asking'
    BY <1>0, <2>1 DEF Hosts, Least, Asking
  <2> QED BY <1>0, <1>3, <2>1, <2>2 DEF Beat, service, Owned, Owning
<1>4. CASE Finish
  <2>1. /\ host'.at = "final" /\ host'.request = host.request
        /\ host'.deadline = host.deadline /\ host'.wait <= host.deadline /\ host.deadline > 0
    <3>1. host.deadline # 0 /\ Asks("final", host.deadline)
      BY <1>4, <1>i DEF Finish, Stop
    <3>2. /\ host'.at = "final" /\ host'.request = host.request
          /\ host'.deadline = host.deadline /\ host'.wait <= host.deadline
      BY <1>0, <3>1, AsksType
    <3> QED BY <1>0, <3>1, <3>2
  <2>2. /\ holder = host.request /\ task = "running" /\ host.deadline + Margin <= lease
    BY <1>0, <1>4, <2>1 DEF Finish, Owned, Owning
  <2>3. host.at = "work" /\ (host.asking <=> Asking)
    BY <1>4 DEF Finish, Asking
  <2>4. holder' = holder /\ lease' \in Nat /\ lease' >= lease /\ task' = "running"
    BY <1>4, <2>2, <2>3, OwnerGivesUp DEF Finish, Owning
  <2> QED BY <1>0, <2>1, <2>2, <2>4 DEF Owned, Asking
<1>5. ASSUME NEW m \in late, HandleLate(m) PROVE Owned'
  <2>1. host' = host /\ host.at \in Owning /\ m \in Message /\ (Asking' <=> Asking)
    BY <1>0, <1>5 DEF HandleLate, TypeOK, Asking
  <2>2. host.request \in Uuid /\ holder = host.request
    BY <1>0, <2>1 DEF Owned, Refers, Owning
  <2>3. m.op = "advance" => m.request # host.request
    <3>1. m = [op |-> m.op, request |-> m.request]
      BY <2>1 DEF Message
    <3> QED BY <1>0, <2>1, <3>1 DEF NoStrayAdvance, Owning
  <2>4. /\ holder' = holder /\ lease' \in Nat /\ lease' >= lease
        /\ task = "running" => task' = "running"
    BY <1>0, <1>5, <2>1, <2>2, <2>3, OwnerStays DEF HandleLate
  <2> QED BY <1>0, <2>1, <2>4 DEF Owned
<1>6. CASE Expire \/ Recover \/ OtherTakes \/ OtherFinishes
  <2>1. host' = host /\ host.at \in Owning
    BY <1>6 DEF Expire, Recover, OtherTakes, OtherFinishes
  <2>2. holder \notin {Nobody, Others} /\ lease > 0
    BY <1>0, <2>1, HolderAssumption DEF Owned, Owning, Refers
  <2> QED BY <1>6, <2>2 DEF Expire, Recover, OtherTakes, OtherFinishes
<1>7. CASE Tick
  <2>1. /\ host'.at = host.at /\ host'.request = host.request /\ host'.asking = host.asking
        /\ host'.deadline = Less(host.deadline) /\ host'.beat = Less(host.beat)
        /\ host'.wait = Less(host.wait) /\ lease' = Less(lease)
        /\ UNCHANGED <<holder, task>> /\ (Asking' <=> Asking)
    BY <1>0, <1>7 DEF Tick, Hosts, Asking
  <2>2. CASE Asking
    <3>1. host.wait > 0
      BY <1>0, <1>7, <2>1, <2>2 DEF Tick, Due, Owning
    <3> QED BY <1>0, <2>1, <2>2, <3>1 DEF Owned, Less
  <2>3. CASE ~Asking
    <3>1. host.at = "work" /\ host.beat > 0
      BY <1>0, <1>7, <2>1, <2>3 DEF Tick, Due, Owning, Asking
    <3> QED BY <1>0, <2>1, <2>3, <3>1 DEF Owned, Less
  <2> QED BY <2>2, <2>3
<1>8. CASE UNCHANGED vars
  BY <1>0, <1>8 DEF vars, service, Owned, Asking
<1> QED BY <1>1, <1>2, <1>3, <1>4, <1>5, <1>6, <1>7, <1>8 DEF Next

LEMMA NextInv == IInv /\ [Next]_vars => IInv'
BY NextType, NextRefers, NextBudget, NextNoStray, NextOwned DEF IInv

\* The service, hosts, journal and requests keep their types; an attempt is one of those
\* that the schedule has.
THEOREM TypeCorrect == Spec => []TypeOK
<1>1. IInv => TypeOK
  BY DEF IInv
<1> QED BY <1>1, InitInv, NextInv, PTL DEF Spec

\* A host that works holds the claim, with time left, for every lease, margin, timeout
\* and interval, as long as a heartbeat comes within the margin.
THEOREM WorkWithinLease == Spec => []WorkFitsLease
<1>1. IInv => WorkFitsLease
  BY Times DEF IInv, Owned, Owning, WorkFitsLease, TypeOK, ServiceOK, Hosts
<1> QED BY <1>1, InitInv, NextInv, PTL DEF Spec

\* Crashes and restarts of hosts do not give a request more attempts.
THEOREM AttemptsBounded == Spec => []RetryBudget
<1>1. IInv => RetryBudget
  BY DEF IInv, Budget, RetryBudget
<1> QED BY <1>1, InitInv, NextInv, PTL DEF Spec

=============================================================================
