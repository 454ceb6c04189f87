------------------------ MODULE ClaimProtocolProofs ------------------------
(***************************************************************************)
(* Proofs about the claim service, in three parts.                         *)
(*                                                                         *)
(* 1. Rows and bindings: the variables keep their types, the service uses  *)
(*    its store only as the abstract lock Ownership allows, and a claim    *)
(*    moves only to a commit that was declared for it.                     *)
(* 2. The route: what the service does to the pull request.                *)
(* 3. RUNNING: it does not get stuck.                                      *)
(*                                                                         *)
(* Nothing is assumed of the environment in the first part: the constants  *)
(* Timely, Attended, OwnerPushes, EarlyRelease and QuietPublication may    *)
(* have any value.  The other two name the environment they hold in.       *)
(***************************************************************************)
EXTENDS ClaimProtocol, TLAPS

-----------------------------------------------------------------------------
(***************************************************************************)
(* 1. Rows and bindings.                                                   *)
(***************************************************************************)

\* What a handler writes is a route.
Writes(m) == m.at \in {"verify", "put", "done"} => m.to \in Route
Typed == TypeOK /\ \A c \in Claim, kind \in Kind : Writes(call[c][kind])

Known(l) == l \in inForce \cup ended \cup {NoLease}
Prepared(p) == p.status = "prepared"
Declared(p) == \/ p = NoPub
               \/ /\ p.status \in {"prepared", "applied"}
                  /\ p.from \in made /\ p.to \in made /\ p.from # p.to
                  /\ phase \in CodePhases

\* A row is bound to a commit that exists; a publication is prepared only while its
\* worker has nothing else to do than to push and to confirm it.
RowOK(c) ==
    /\ client[c] = "new" \/ At(c, "main", "claim") => row[c] = NoRow
    /\ At(c, "main", "claim") => client[c] # "new"
    /\ row[c] = NoRow \/ row[c].sha \in made
    /\ Known(row[c].lease) /\ Known(held[c])
    /\ Declared(row[c].cp.pub)
    /\ Prepared(row[c].cp.pub) => /\ client[c] \in {"declared", "pushed", "gone"}
                                  /\ call[c]["main"].op \in {"none", "confirm"}

\* What a handler carries was there once; the copy of a prepared publication that a
\* request of the worker has is to be confirmed by it.
CallOK(c, kind) ==
    LET m == call[c][kind] IN
    /\ m.at = "idle" => m = NoCall
    /\ m.at # "idle" => m.sha \in made
    /\ Known(m.lease) /\ Declared(m.cp.pub)
    /\ m.at \in {"commit", "move"} => phase \in ReportPhases
    /\ m.at = "move" => m.new \in made
    /\ kind = "main" =>
           /\ Prepared(m.cp.pub) => m.op = "confirm"
           /\ m.op = "confirm" /\ m.cp.pub.status = "applied" => ~Prepared(row[c].cp.pub)

\* A heartbeat or a confirmation that is about to follow HEAD carries the publication of
\* the row, or will find that the claim has moved on, never to come back.
CopyOK(c, kind) ==
    LET p == call[c][kind].cp.pub IN
    At(c, kind, "refresh") /\ HoldsLease(c, call[c][kind].lease) /\ Prepared(p) =>
        IF row[c].sha = p.from THEN row[c].cp.pub = p
        ELSE Prepared(row[c].cp.pub) => row[c].cp.pub.to # p.from

\* A recovery has a lease of its own, and while it holds the claim nobody else saves.
RecoveryOK(c) ==
    LET m == call[c]["recovery"] IN
    m.at # "idle" =>
        /\ m.lease \notin {NoLease, held[c], call[c]["main"].lease, call[c]["beat"].lease}
        /\ HoldsLease(c, m.lease) => m.cp.pub = row[c].cp.pub

ClaimOK(c) == /\ RowOK(c) /\ RecoveryOK(c)
              /\ \A kind \in Kind : CallOK(c, kind)
              /\ \A kind \in {"main", "beat"} : CopyOK(c, kind)

IInv == Typed /\ \A c \in Claim : ClaimOK(c)

-----------------------------------------------------------------------------
(* Records *)

LEMMA Nulls == /\ NoPub \in Pubs /\ NoCp \in Checkpoints /\ NoRow \in Rows /\ NoCall \in Calls
               /\ NoCp.pub = NoPub /\ NoRow.cp = NoCp /\ NoCall.cp = NoCp
BY DEF NoPub, NoCp, NoRow, NoCall, Request, Pubs, Checkpoints, Rows, Calls

\* The checkpoints that a start makes of another one, and what they say of publications.
LEMMA NextCheckpoints ==
    ASSUME NEW cp \in Checkpoints
    PROVE  /\ cp.pub \in Pubs
           /\ \A l \in Lease \cup {NoLease} :
                  LET n == [cp EXCEPT !.start = "planned", !.starter = l]
                  IN n \in Checkpoints /\ n.pub = cp.pub
           /\ [cp EXCEPT !.start = "applied"] \in Checkpoints
           /\ [cp EXCEPT !.start = "applied"].pub = cp.pub
BY DEF Checkpoints

LEMMA FollowedType ==
    ASSUME NEW cp \in Checkpoints
    PROVE  /\ Followed(cp) \in Checkpoints
           /\ Followed(cp).pub = [cp.pub EXCEPT !.status = "applied"]
           /\ Followed(cp).pub.status = "applied"
           /\ Followed(cp).pub.from = cp.pub.from
           /\ Followed(cp).pub.to = cp.pub.to
BY DEF Followed, Checkpoints, Pubs

\* The handler of one claim has the record n next, every other one is as it was.
Handles(c, kind, n) ==
    /\ call' \in [Claim -> [Kind -> Calls]]
    /\ call'[c][kind] = n
    /\ \A k \in Kind \ {kind} : call'[c][k] = call[c][k]
    /\ \A d \in Claim \ {c} : call'[d] = call[d]

LEMMA Handled ==
    ASSUME TypeOK, NEW c \in Claim, NEW kind \in Kind, NEW n \in Calls,
           call' = [call EXCEPT ![c][kind] = n]
    PROVE  Handles(c, kind, n)
BY DEF Handles, TypeOK

LEMMA Went ==
    ASSUME TypeOK, NEW c \in Claim, NEW kind \in Kind,
           NEW step \in {"board", "recheck", "refresh", "check", "put", "done", "move"},
           Goes(c, kind, step)
    PROVE  LET n == [call[c][kind] EXCEPT !.at = step]
           IN Handles(c, kind, n) /\ n \in Calls
<1>a. call[c][kind] \in Calls
  BY DEF TypeOK
<1>1. [call[c][kind] EXCEPT !.at = step] \in Calls
  BY <1>a DEF Calls
<1>2. call' = [call EXCEPT ![c][kind] = [call[c][kind] EXCEPT !.at = step]]
  BY DEF Goes, TypeOK
<1> QED BY <1>1, <1>2, Handled

LEMMA Ended ==
    ASSUME TypeOK, NEW c \in Claim, NEW kind \in Kind, Ends(c, kind)
    PROVE  Handles(c, kind, NoCall)
BY Handled, Nulls DEF Ends

LEMMA Began ==
    ASSUME TypeOK, NEW c \in Claim, NEW kind \in Kind,
           NEW op \in {"start", "heartbeat", "confirm", "advance", "recovery"},
           NEW step \in {"plan", "refresh", "check", "claim"},
           NEW l \in Lease \cup {NoLease},
           Begins(c, kind, op, step, l),
           NEW n, n = Request(op, step, l, row[c].sha, row[c].cp)
    PROVE  /\ Handles(c, kind, n) /\ n \in Calls
           /\ n.op = op /\ n.at = step /\ n.lease = l /\ n.sha = row[c].sha
           /\ n.cp = row[c].cp
<1>1. row[c].sha \in Sha \cup {NoSha} /\ row[c].cp \in Checkpoints
  BY DEF TypeOK, Rows
<1>2. /\ n \in Calls
      /\ n.op = op /\ n.at = step /\ n.lease = l /\ n.sha = row[c].sha
      /\ n.cp = row[c].cp
  BY <1>1 DEF Request, Calls
<1>3. call' = [call EXCEPT ![c][kind] = n]
  BY DEF Begins
<1>4. Handles(c, kind, n)
  BY <1>2, <1>3, Handled
<1> QED BY <1>2, <1>4

-----------------------------------------------------------------------------
(* Rows *)

\* The row of one claim is r next.
Records(c, r) == /\ row' \in [Claim -> Rows] /\ row'[c] = r
                 /\ \A d \in Claim \ {c} : row'[d] = row[d]

LEMMA Saved ==
    ASSUME TypeOK, NEW c \in Claim, NEW l, NEW cp \in Checkpoints, Saves(c, l, cp)
    PROVE  LET r == [row[c] EXCEPT !.cp = cp]
           IN /\ Records(c, r) /\ r.status = row[c].status /\ r.lease = row[c].lease
              /\ r.sha = row[c].sha /\ r.cp = cp
<1>1. LET r == [row[c] EXCEPT !.cp = cp]
      IN /\ r \in Rows /\ r.status = row[c].status /\ r.lease = row[c].lease
         /\ r.sha = row[c].sha /\ r.cp = cp
  BY DEF TypeOK, Rows
<1>2. row' = [row EXCEPT ![c] = [row[c] EXCEPT !.cp = cp]]
  BY DEF Saves, TypeOK
<1> QED BY <1>1, <1>2 DEF Records, TypeOK

LEMMA Moved ==
    ASSUME TypeOK, NEW c \in Claim, NEW sha \in Sha, NEW cp \in Checkpoints,
           row' = [row EXCEPT ![c].sha = sha, ![c].cp = cp]
    PROVE  LET r == [row[c] EXCEPT !.sha = sha, !.cp = cp]
           IN /\ Records(c, r) /\ r.status = row[c].status /\ r.lease = row[c].lease
              /\ r.sha = sha /\ r.cp = cp
<1>1. LET r == [row[c] EXCEPT !.sha = sha, !.cp = cp]
      IN /\ r \in Rows /\ r.status = row[c].status /\ r.lease = row[c].lease
         /\ r.sha = sha /\ r.cp = cp
  BY DEF TypeOK, Rows
<1>2. row' = [row EXCEPT ![c] = [row[c] EXCEPT !.sha = sha, !.cp = cp]]
  BY DEF TypeOK
<1> QED BY <1>1, <1>2 DEF Records, TypeOK

\* What finish() leaves of a row: its status and lease may change, never to running.
LEMMA Finished ==
    ASSUME TypeOK, NEW c \in Claim, NEW l, NEW status \in {"done", "superseded"},
           Finishes(c, l, status)
    PROVE  /\ row' \in [Claim -> Rows]
           /\ \A d \in Claim \ {c} : row'[d] = row[d]
           /\ row'[c].sha = row[c].sha /\ row'[c].cp = row[c].cp
           /\ row'[c].lease \in {row[c].lease, NoLease}
           /\ \/ row'[c] = row[c]
              \/ row[c].status = "running" /\ row'[c].status # "running"
<1>1. CASE UNCHANGED row
  BY <1>1 DEF TypeOK
<1>2. CASE /\ HoldsLease(c, l)
           /\ row' = [row EXCEPT ![c].status = status, ![c].lease = NoLease]
  <2> DEFINE r == [row[c] EXCEPT !.status = status, !.lease = NoLease]
  <2>1. /\ r \in Rows /\ r.sha = row[c].sha /\ r.cp = row[c].cp /\ r.lease = NoLease
        /\ r.status = status
    BY DEF TypeOK, Rows
  <2>2. row' = [row EXCEPT ![c] = r]
    BY <1>2 DEF TypeOK
  <2> QED BY <1>2, <2>1, <2>2 DEF TypeOK, HoldsLease
<1> QED BY <1>1, <1>2 DEF Finishes

-----------------------------------------------------------------------------
(* What a step does to a claim *)

\* Leases come into force anew, and nothing that was there is forgotten.
LeasesGrow == /\ owner' \in [Sha \cup {Projection} -> Lease \cup {NoLease}]
              /\ inForce' \subseteq Lease /\ ended' \subseteq Lease
              /\ inForce \cup ended \subseteq inForce' \cup ended'
              /\ \A l \in inForce' : l \in inForce \/ ~Known(l)
Grows == LeasesGrow /\ made \subseteq made' /\ phase' = phase

\* A claim that a step does not touch.
Untouched(c) == /\ row'[c] = row[c] /\ call'[c] = call[c]
                /\ client'[c] = client[c] /\ held'[c] = held[c]

LEMMA Frame ==
    ASSUME NEW c \in Claim, ClaimOK(c), Grows, Untouched(c)
    PROVE  ClaimOK(c)'
<1> USE DEF Grows, LeasesGrow, Untouched
<1>1. RowOK(c)'
  BY DEF ClaimOK, RowOK, Known, Declared, Prepared, At
<1>2. RecoveryOK(c)'
  BY DEF ClaimOK, RowOK, RecoveryOK, HoldsLease, Known
<1>3. ASSUME NEW kind \in Kind PROVE CallOK(c, kind)'
  BY <1>3 DEF ClaimOK, CallOK, Known, Declared, Prepared
<1>4. ASSUME NEW kind \in {"main", "beat"} PROVE CopyOK(c, kind)'
  BY <1>4 DEF ClaimOK, RowOK, CopyOK, HoldsLease, Known, At, Prepared
<1> QED BY <1>1, <1>2, <1>3, <1>4 DEF ClaimOK

\* A handler that goes on with what it had, or with what the row has when it finds that
\* the claim has followed HEAD already.
Continues(c, kind, m, n) ==
    \/ n \in {m, NoCall}
    \/ /\ m.at # "idle"
       /\ \/ n.at \in {"verify", "put", "done", "check", "recheck"}
          \/ kind = "recovery" /\ n.at \in {"board", "refresh"}
       /\ n.lease = m.lease /\ n.sha = m.sha /\ n.cp.pub = m.cp.pub /\ n.op = m.op
    \/ /\ m.at = "refresh" /\ n.at = "check" /\ kind # "recovery"
       /\ n.lease = m.lease /\ n.sha = row[c].sha /\ n.cp.pub = row[c].cp.pub /\ n.op = m.op
       /\ row[c] # NoRow /\ ~Prepared(row[c].cp.pub)

\* A row that stays where it is, perhaps with the checkpoint of a handler.
Settles(c) ==
    /\ row'[c].sha = row[c].sha
    /\ \/ row'[c].status = row[c].status /\ row'[c].lease = row[c].lease
       \/ row'[c].status # "running" /\ row'[c].lease \in {row[c].lease, NoLease}
    /\ row[c] = NoRow => row'[c] = row[c]
    /\ \/ row'[c].cp.pub = row[c].cp.pub
       \/ /\ ~Prepared(row[c].cp.pub) /\ ~Prepared(row'[c].cp.pub)
          /\ \E kind \in Kind : row'[c].cp.pub = call[c][kind].cp.pub
          /\ call[c]["recovery"].at # "idle" => ~HoldsLease(c, call[c]["recovery"].lease)
    /\ \/ client'[c] \in {client[c], "pushed", "gone"}
       \/ ~Prepared(row[c].cp.pub) /\ client'[c] # "new"
    /\ held'[c] \in {held[c], call[c]["main"].lease}

LEMMA Settled ==
    ASSUME NEW c \in Claim, NEW kind \in Kind, NEW n, ClaimOK(c), Grows,
           Handles(c, kind, n), Continues(c, kind, call[c][kind], n), Settles(c)
    PROVE  ClaimOK(c)'
<1> USE DEF Grows, LeasesGrow
<1> DEFINE m == call[c][kind]
<1>n. /\ NoCall.at = "idle" /\ NoCall.op = "none" /\ NoCall.lease = NoLease
      /\ NoCall.cp.pub = NoPub /\ NoPub.status = "none"
  BY DEF NoCall, Request, NoCp, NoPub
<1>c. \A k \in Kind : CallOK(c, k) /\ (k # kind => call'[c][k] = call[c][k])
  BY DEF ClaimOK, Handles
<1>k. "main" \in Kind /\ "beat" \in Kind /\ "recovery" \in Kind
  BY DEF Kind
<1>p. Declared(row'[c].cp.pub)
  BY <1>c DEF ClaimOK, RowOK, CallOK, Settles
<1>h. \A l : Known(l) /\ HoldsLease(c, l)' => HoldsLease(c, l)
  BY DEF HoldsLease, Settles
<1>l. \A k \in Kind : Known(call[c][k].lease)
  BY <1>c DEF CallOK
<1>1. RowOK(c)'
  <2>1. At(c, "main", "claim")' => At(c, "main", "claim")
    BY <1>c, <1>k, <1>n DEF At, Continues, Handles
  <2>2. call'[c]["main"].op \in {call[c]["main"].op, "none"}
    BY <1>c, <1>k, <1>n DEF Continues, Handles
  <2>3. Known(row[c].lease) /\ Known(held[c]) /\ Known(call[c]["main"].lease)
    BY <1>l, <1>k DEF ClaimOK, RowOK
  <2>4. Known(row[c].lease)' /\ Known(held[c])'
    BY <2>3 DEF Known, Settles
  <2>5. Declared(row[c].cp.pub)'
    BY <1>p DEF Declared
  <2>6. /\ (client[c] = "new" \/ At(c, "main", "claim"))' => row'[c] = NoRow
        /\ At(c, "main", "claim")' => client'[c] # "new"
    BY <2>1 DEF ClaimOK, RowOK, Settles
  <2>7. row'[c] = NoRow \/ row'[c].sha \in made'
    BY DEF ClaimOK, RowOK, Settles
  <2>8. Prepared(row'[c].cp.pub) => /\ client'[c] \in {"declared", "pushed", "gone"}
                                   /\ call'[c]["main"].op \in {"none", "confirm"}
    BY <2>2 DEF ClaimOK, RowOK, Settles
  <2> QED BY <2>4, <2>5, <2>6, <2>7, <2>8 DEF RowOK, Prepared
<1>2. RecoveryOK(c)'
  <2> DEFINE r == call[c]["recovery"]
  <2>1. SUFFICES ASSUME r.at' # "idle"
                 PROVE  /\ r.lease' \notin {NoLease, held'[c], call'[c]["main"].lease,
                                           call'[c]["beat"].lease}
                        /\ HoldsLease(c, r.lease)' => r.cp.pub' = row'[c].cp.pub
    BY DEF RecoveryOK
  <2>2. r.at # "idle" /\ r.lease' = r.lease /\ r.cp.pub' = r.cp.pub
    BY <2>1, <1>c, <1>k, <1>n DEF Continues, Handles
  <2>3. \A k \in {"main", "beat"} : call'[c][k].lease \in {call[c][k].lease, NoLease}
    BY <1>c, <1>k, <1>n DEF Continues, Handles
  <2>4. r.lease' \notin {NoLease, held'[c], call'[c]["main"].lease, call'[c]["beat"].lease}
    BY <2>2, <2>3 DEF ClaimOK, RecoveryOK, Settles
  <2>5. HoldsLease(c, r.lease)' => HoldsLease(c, r.lease)
    BY <2>2, <1>h, <1>l, <1>k DEF HoldsLease
  <2>6. HoldsLease(c, r.lease)' => r.cp.pub' = row'[c].cp.pub
    BY <2>2, <2>5 DEF ClaimOK, RecoveryOK, Settles
  <2> QED BY <2>4, <2>6
<1>3. ASSUME NEW k \in Kind PROVE CallOK(c, k)'
  <2>0. /\ CallOK(c, k)
        /\ Prepared(row'[c].cp.pub) => Prepared(row[c].cp.pub)
    BY <1>c DEF Settles
  <2>1. CASE k # kind
    <3>1. call'[c][k] = call[c][k]
      BY <1>c, <2>1
    <3> QED BY <2>0, <3>1 DEF CallOK, Known, Declared, Prepared
  <2>2. CASE k = kind /\ n # NoCall /\ n.sha = m.sha /\ n.cp.pub = m.cp.pub
    <3>1. call'[c][k] = n
      BY <2>2 DEF Handles
    <3>2. \/ n = m
          \/ /\ m.at # "idle" /\ n.lease = m.lease /\ n.op = m.op
             /\ n.at \notin {"idle", "commit", "move"}
      BY <2>2 DEF Continues
    <3>3. CASE n = m
      <4>1. call'[c][k] = call[c][k]
        BY <2>2, <3>1, <3>3
      <4> QED BY <2>0, <4>1 DEF CallOK, Known, Declared, Prepared
    <3>4. CASE /\ m.at # "idle" /\ n.lease = m.lease /\ n.op = m.op
               /\ n.at \notin {"idle", "commit", "move"}
      <4>1. /\ call'[c][k].sha = call[c][k].sha
            /\ call'[c][k].cp.pub = call[c][k].cp.pub
            /\ call'[c][k].lease = call[c][k].lease
            /\ call'[c][k].op = call[c][k].op
            /\ call[c][k].at # "idle"
            /\ call'[c][k].at \notin {"idle", "commit", "move"}
        BY <2>2, <3>1, <3>4
      <4> QED BY <2>0, <4>1 DEF CallOK, Known, Declared, Prepared
    <3> QED BY <3>2, <3>3, <3>4
  <2>3. CASE k = kind /\ n = NoCall
    BY <2>3, <1>c, <1>k, <1>n DEF CallOK, Handles, Settles, Known, Declared, Prepared
  <2>4. CASE /\ k = kind /\ n.sha = row[c].sha /\ n.cp.pub = row[c].cp.pub
             /\ row[c] # NoRow /\ ~Prepared(row[c].cp.pub)
             /\ n.at = "check" /\ n.op = m.op /\ n.lease = m.lease
    <3>1. row[c].sha \in made /\ Declared(row[c].cp.pub)
      BY <2>4 DEF ClaimOK, RowOK
    <3>2. ~Prepared(row'[c].cp.pub)
      BY <2>4 DEF Settles
    <3> QED BY <2>4, <3>1, <3>2, <1>c, <1>n DEF CallOK, Handles, Known, Declared, Prepared
  <2> QED BY <2>1, <2>2, <2>3, <2>4 DEF Continues
<1>4. ASSUME NEW k \in {"main", "beat"} PROVE CopyOK(c, k)'
  <2>1. \/ call'[c][k] = call[c][k]
        \/ call'[c][k].at # "refresh"
    BY <1>c, <1>k, <1>n DEF Continues, Handles
  <2>2. CASE call'[c][k].at # "refresh"
    BY <2>2 DEF CopyOK, At
  <2>3. CASE call'[c][k] = call[c][k]
    <3>1. CopyOK(c, k) /\ Known(call[c][k].lease)
      BY <1>k, <1>l DEF ClaimOK
    <3>2. HoldsLease(c, call[c][k].lease)' => HoldsLease(c, call[c][k].lease)
      BY <2>3, <3>1, <1>h DEF HoldsLease
    <3>3. /\ row'[c].sha = row[c].sha
          /\ \/ row'[c].cp.pub = row[c].cp.pub
             \/ ~Prepared(row[c].cp.pub) /\ ~Prepared(row'[c].cp.pub)
      BY DEF Settles
    <3> QED BY <2>3, <3>1, <3>2, <3>3 DEF CopyOK, At, Prepared
  <2> QED BY <2>1, <2>2, <2>3
<1> QED BY <1>1, <1>2, <1>3, <1>4 DEF ClaimOK

\* A request of the worker begins with what the row has.
Starts(c, kind, n) ==
    /\ Idle(c, kind)
    /\ HoldsLease(c, held[c])
    /\ n.at \in {"plan", "refresh", "check", "commit", "verify"}
    /\ n.at = "commit" => phase \in ReportPhases
    /\ n.lease = held[c] /\ n.sha = row[c].sha /\ n.cp.pub = row[c].cp.pub
    /\ kind = "main" /\ Prepared(row[c].cp.pub) => n.op = "confirm"
    /\ row'[c].sha = row[c].sha /\ row'[c].status = row[c].status
    /\ row'[c].lease = row[c].lease /\ row'[c].cp.pub = row[c].cp.pub
    /\ client'[c] = client[c] \/ (~Prepared(row[c].cp.pub) /\ client'[c] # "new")
    /\ held'[c] = held[c]

LEMMA Started ==
    ASSUME NEW c \in Claim, NEW kind \in {"main", "beat"}, NEW n, ClaimOK(c), Grows,
           Handles(c, kind, n), Starts(c, kind, n)
    PROVE  ClaimOK(c)'
<1> USE DEF Grows, LeasesGrow
<1>k. "main" \in Kind /\ "beat" \in Kind /\ "recovery" \in Kind /\ kind \in Kind
  BY DEF Kind
<1>c. \A k \in Kind : CallOK(c, k) /\ (k # kind => call'[c][k] = call[c][k])
  BY DEF ClaimOK, Handles
<1>n. call'[c][kind] = n
  BY DEF Handles
<1>r. row[c] # NoRow /\ row[c].sha \in made
  BY DEF ClaimOK, RowOK, Starts, HoldsLease, NoRow
<1>h. \A l : Known(l) /\ HoldsLease(c, l)' => HoldsLease(c, l)
  BY DEF HoldsLease, Starts
<1>l. Known(held[c]) /\ \A k \in Kind : Known(call[c][k].lease)
  BY <1>c DEF ClaimOK, RowOK, CallOK
<1>1. RowOK(c)'
  <2>1. ~(client'[c] = "new") /\ ~At(c, "main", "claim")'
    <3>1. client[c] # "new" /\ ~At(c, "main", "claim")
      BY <1>r DEF ClaimOK, RowOK
    <3> QED BY <3>1, <1>c, <1>k, <1>n DEF Starts, At
  <2>2. Known(row[c].lease)' /\ Known(held[c])'
    BY DEF ClaimOK, RowOK, Known, Starts
  <2>3. Declared(row[c].cp.pub)'
    BY DEF ClaimOK, RowOK, Declared, Starts
  <2>4. Prepared(row'[c].cp.pub) => /\ client'[c] \in {"declared", "pushed", "gone"}
                                   /\ call'[c]["main"].op \in {"none", "confirm"}
    BY <1>c, <1>k, <1>n DEF ClaimOK, RowOK, Starts
  <2> QED BY <1>r, <2>1, <2>2, <2>3, <2>4 DEF RowOK, Prepared, Starts
<1>2. RecoveryOK(c)'
  <2> DEFINE r == call[c]["recovery"]
  <2>1. SUFFICES ASSUME r.at' # "idle"
                 PROVE  /\ r.lease' \notin {NoLease, held'[c], call'[c]["main"].lease,
                                           call'[c]["beat"].lease}
                        /\ HoldsLease(c, r.lease)' => r.cp.pub' = row'[c].cp.pub
    BY DEF RecoveryOK
  <2>2. call'[c]["recovery"] = call[c]["recovery"]
    BY <1>c, <1>k
  <2>3. r.lease \notin {NoLease, held[c], call[c]["main"].lease, call[c]["beat"].lease}
    BY <2>1, <2>2 DEF ClaimOK, RecoveryOK
  <2>4. r.lease' \notin {NoLease, held'[c], call'[c]["main"].lease, call'[c]["beat"].lease}
    BY <2>2, <2>3, <1>c, <1>k, <1>n DEF Starts
  <2>5. HoldsLease(c, r.lease)' => HoldsLease(c, r.lease)
    BY <2>2, <1>h, <1>l, <1>k DEF HoldsLease
  <2>6. HoldsLease(c, r.lease)' => r.cp.pub' = row'[c].cp.pub
    BY <2>1, <2>2, <2>5 DEF ClaimOK, RecoveryOK, Starts
  <2> QED BY <2>4, <2>6
<1>3. ASSUME NEW k \in Kind PROVE CallOK(c, k)'
  <2>1. CASE k = kind
    BY <2>1, <1>n, <1>r, <1>l DEF ClaimOK, RowOK, CallOK, Starts, Known, Declared, Prepared
  <2>2. CASE k # kind
    <3>1. CallOK(c, k) /\ call'[c][k] = call[c][k] /\ row'[c].cp.pub = row[c].cp.pub
      BY <2>2, <1>c DEF Starts
    <3> QED BY <3>1 DEF CallOK, Known, Declared, Prepared
  <2> QED BY <2>1, <2>2
<1>4. ASSUME NEW k \in {"main", "beat"} PROVE CopyOK(c, k)'
  <2>1. CASE k = kind
    <3>1. Declared(row[c].cp.pub) /\ row[c].sha \in made
      BY <1>r DEF ClaimOK, RowOK
    <3>2. /\ call'[c][k].cp.pub = row'[c].cp.pub /\ row'[c].cp.pub = row[c].cp.pub
          /\ call'[c][k].sha = row'[c].sha
      BY <2>1, <1>n DEF Starts
    <3> QED BY <3>1, <3>2 DEF CopyOK, Declared, At, Prepared, NoPub
  <2>2. CASE k # kind
    <3>1. CopyOK(c, k) /\ Known(call[c][k].lease) /\ call'[c][k] = call[c][k]
      BY <2>2, <1>c, <1>k, <1>l DEF ClaimOK
    <3>2. HoldsLease(c, call[c][k].lease)' => HoldsLease(c, call[c][k].lease)
      BY <3>1, <1>h DEF HoldsLease
    <3>3. row'[c].sha = row[c].sha /\ row'[c].cp.pub = row[c].cp.pub
      BY DEF Starts
    <3> QED BY <3>1, <3>2, <3>3 DEF CopyOK, At, Prepared
  <2> QED BY <2>1, <2>2
<1> QED BY <1>1, <1>2, <1>3, <1>4 DEF ClaimOK

\* A claim that follows its worker to the declared commit: what was prepared is the
\* publication of the row, and every other copy of one that is prepared is left behind.
LEMMA FollowedOn ==
    ASSUME NEW c \in Claim, NEW kind \in Kind, NEW n, ClaimOK(c), Grows,
           Handles(c, kind, n), At(c, kind, "refresh"),
           NEW p, p = call[c][kind].cp.pub, Prepared(p), row[c].sha = p.from,
           HoldsLease(c, call[c][kind].lease),
           row'[c].status = row[c].status, row'[c].lease = row[c].lease, row'[c].sha = p.to,
           row'[c].cp.pub.status = "applied",
           row'[c].cp.pub.from = p.from, row'[c].cp.pub.to = p.to,
           n.at = "check", n.lease = call[c][kind].lease, n.op = call[c][kind].op,
           n.sha = p.to, n.cp.pub = row'[c].cp.pub,
           client'[c] = client[c], held'[c] = held[c]
    PROVE  ClaimOK(c)' /\ row[c].cp.pub = p
<1> USE DEF Grows, LeasesGrow
<1>k. "main" \in Kind /\ "beat" \in Kind /\ "recovery" \in Kind
  BY DEF Kind
<1>c. \A k \in Kind : CallOK(c, k) /\ (k # kind => call'[c][k] = call[c][k])
  BY DEF ClaimOK, Handles
<1>n. call'[c][kind] = n
  BY DEF Handles
<1>p. row[c].cp.pub = p
  <2>1. CASE kind = "recovery"
    BY <2>1 DEF ClaimOK, RecoveryOK, At
  <2>2. CASE kind \in {"main", "beat"}
    BY <2>2 DEF ClaimOK, CopyOK, At
  <2> QED BY <2>1, <2>2 DEF Kind
<1>d. /\ p.from \in made /\ p.to \in made /\ p.from # p.to /\ phase \in CodePhases
  <2>1. Declared(p)
    BY <1>c DEF CallOK
  <2> QED BY <2>1 DEF Declared, Prepared, NoPub
<1>r. row[c] # NoRow
  BY DEF HoldsLease, NoRow
<1>h. \A l : Known(l) /\ HoldsLease(c, l)' => HoldsLease(c, l)
  BY DEF HoldsLease
<1>l. \A k \in Kind : Known(call[c][k].lease)
  BY <1>c DEF CallOK
<1>1. RowOK(c)'
  BY <1>r, <1>d, <1>c, <1>k, <1>n DEF ClaimOK, RowOK, Known, Declared, Prepared, At
<1>2. RecoveryOK(c)'
  <2> DEFINE r == call[c]["recovery"]
  <2>1. SUFFICES ASSUME r.at' # "idle"
                 PROVE  /\ r.lease' \notin {NoLease, held'[c], call'[c]["main"].lease,
                                           call'[c]["beat"].lease}
                        /\ HoldsLease(c, r.lease)' => r.cp.pub' = row'[c].cp.pub
    BY DEF RecoveryOK
  <2>2. r.lease' = r.lease /\ r.at # "idle"
    BY <2>1, <1>c, <1>k, <1>n DEF At
  <2>3. r.lease \notin {NoLease, held[c], call[c]["main"].lease, call[c]["beat"].lease}
    BY <2>2 DEF ClaimOK, RecoveryOK
  <2>4. r.lease' \notin {NoLease, held'[c], call'[c]["main"].lease, call'[c]["beat"].lease}
    BY <2>2, <2>3, <1>c, <1>k, <1>n
  <2>5. CASE kind = "recovery"
    BY <2>4, <2>5, <1>n
  <2>6. CASE kind # "recovery"
    BY <2>6, <2>2, <2>3, <2>4 DEF HoldsLease, Kind
  <2> QED BY <2>5, <2>6
<1>3. ASSUME NEW k \in Kind PROVE CallOK(c, k)'
  <2>0. CallOK(c, k) /\ ~Prepared(row'[c].cp.pub)
    BY <1>c DEF Prepared
  <2>1. CASE k = kind
    <3>1. call'[c][k] = n /\ p.to \in made' /\ p.from \in made' /\ phase' \in CodePhases
      BY <2>1, <1>n, <1>d
    <3>2. Known(n.lease)' /\ Declared(n.cp.pub)'
      <4>1. Known(n.lease)
        BY <2>0, <2>1 DEF CallOK
      <4>2. /\ n.cp.pub.status = "applied" /\ n.cp.pub.from = p.from /\ n.cp.pub.to = p.to
        OBVIOUS
      <4> QED BY <1>d, <3>1, <4>1, <4>2 DEF Known, Declared
    <3> QED BY <2>0, <3>1, <3>2 DEF CallOK, Known, Declared, Prepared
  <2>2. CASE k # kind
    <3>1. call'[c][k] = call[c][k]
      BY <1>c, <2>2
    <3> QED BY <2>0, <3>1 DEF CallOK, Known, Declared, Prepared
  <2> QED BY <2>1, <2>2
<1>4. ASSUME NEW k \in {"main", "beat"} PROVE CopyOK(c, k)'
  <2>1. CASE k = kind
    BY <2>1, <1>n DEF CopyOK, At
  <2>2. CASE k # kind
    <3>1. call'[c][k] = call[c][k] /\ CopyOK(c, k)
      BY <2>2, <1>c, <1>k DEF ClaimOK
    <3>2. HoldsLease(c, call[c][k].lease)' => HoldsLease(c, call[c][k].lease)
      BY <3>1, <1>h, <1>l, <1>k DEF HoldsLease
    <3> QED BY <3>1, <3>2, <1>p, <1>d DEF CopyOK, At, Prepared
  <2> QED BY <2>1, <2>2
<1> QED BY <1>1, <1>2, <1>3, <1>4, <1>p DEF ClaimOK

-----------------------------------------------------------------------------
(* The store, as it is used *)

LEMMA ObtainsOwn ==
    ASSUME Typed, NEW k \in Sha \cup {Projection}, NEW l, Obtains(k, l)
    PROVE  [Own!Next]_own
BY DEF Typed, TypeOK, Obtains, Own!Next, Own!Take, own

LEMMA FinishesOwn ==
    ASSUME Typed, NEW c \in Claim, NEW l, NEW status, Finishes(c, l, status)
    PROVE  [Own!Next]_own
<1>1. CASE UNCHANGED own
  BY <1>1
<1>2. CASE Own!End({l})
  BY <1>2 DEF Typed, TypeOK, Own!Next, Own!End
<1> QED BY <1>1, <1>2 DEF Finishes, own

LEMMA MovesHeadOwn ==
    ASSUME Typed, NEW c \in Claim, NEW l, NEW from, NEW to \in Sha, NEW cp,
           MovesHead(c, l, from, to, cp)
    PROVE  [Own!Next]_own
BY ObtainsOwn DEF MovesHead, own

LEMMA OwnWork ==
    ASSUME Typed, NEW c \in Claim, ClaimOK(c), Work(c)
    PROVE  [Own!Next]_own
<1>1. ASSUME StartBegin(c) \/ AdvanceBegin(c) \/ \E to \in Route : Decide(c, to)
      PROVE  [Own!Next]_own
  BY <1>1, ObtainsOwn DEF StartBegin, AdvanceBegin, Decide
<1>2. CASE Release(c)
  BY <1>2, FinishesOwn DEF Release
<1>3. CASE \/ AcquireRead(c) \/ HeartbeatBegin(c) \/ (\E to \in Sha : PrepareHead(c, to))
           \/ Push(c) \/ ConfirmBegin(c) \/ ReportsBegin(c)
           \/ (\E r \in {"passed", "failed"} : PostResult(c, r)) \/ WorkerStops(c)
  BY <1>3 DEF AcquireRead, HeartbeatBegin, PrepareHead, Push, ConfirmBegin, ReportsBegin,
              PostResult, WorkerStops, own
<1> QED BY <1>1, <1>2, <1>3 DEF Work

LEMMA OwnHandler ==
    ASSUME Typed, NEW c \in Claim, NEW kind \in Kind, ClaimOK(c), Step(c, kind) \/ Abort(c, kind)
    PROVE  [Own!Next]_own
<1>k. "main" \in Kind /\ "beat" \in Kind /\ "recovery" \in Kind
  BY DEF Kind
<1>c. \A k \in Kind : CallOK(c, k)
  BY DEF ClaimOK
<1>s. made \subseteq Sha
  BY DEF Typed, TypeOK
<1>1. CASE RefreshHead(c, kind)
  <2>1. Declared(call[c][kind].cp.pub)
    BY <1>c DEF CallOK
  <2>2. CASE UNCHANGED own
    BY <2>2
  <2>3. CASE /\ call[c][kind].cp.pub.status = "prepared"
             /\ MovesHead(c, call[c][kind].lease, call[c][kind].cp.pub.from,
                          call[c][kind].cp.pub.to, Followed(call[c][kind].cp))
    <3>1. call[c][kind].cp.pub.to \in Sha
      BY <2>1, <2>3, <1>s DEF Declared, NoPub
    <3> QED BY <3>1, <2>3, MovesHeadOwn
  <2> QED BY <1>1, <2>2, <2>3 DEF RefreshHead, own
<1>2. ASSUME NEW l \in Lease, AcquireClaim(c, l) PROVE [Own!Next]_own
  BY <1>2 DEF AcquireClaim, Own!Next
<1>3. CASE AcquireRecheck(c)
  BY <1>3, FinishesOwn DEF AcquireRecheck, own
<1>4. CASE ReportsMove(c)
  <2>1. call[c]["main"].new \in Sha
    BY <1>4, <1>c, <1>k, <1>s DEF CallOK, ReportsMove, At
  <2> QED BY <1>4, <2>1, MovesHeadOwn DEF ReportsMove, own
<1>5. CASE AdvanceDone(c) \/ DecisionDone(c)
  BY <1>5, FinishesOwn DEF AdvanceDone, DecisionDone
<1>6. CASE HeartbeatCheck(c)
  BY <1>6, FinishesOwn DEF HeartbeatCheck, own
<1>7. CASE RecoverClaim(c)
  <2>1. call[c]["recovery"].sha \in Sha
    BY <1>7, <1>c, <1>k, <1>s DEF CallOK, RecoverClaim, At
  <2> QED BY <1>7, <2>1, FinishesOwn, ObtainsOwn DEF RecoverClaim
<1>8. CASE RecoverBoard(c)
  BY <1>8, ObtainsOwn DEF RecoverBoard, own
<1>9. CASE RecoverMismatch(c) \/ RecoverForeign(c) \/ RecoverDone(c)
  BY <1>9, FinishesOwn DEF RecoverMismatch, RecoverForeign, RecoverDone
<1>10. CASE \/ WriteVerify(c, kind) \/ Put(c, kind) \/ StartPlan(c) \/ StartDone(c)
            \/ ConfirmDone(c) \/ (\E to \in Sha : ReportsCommit(c, to)) \/ AdvancePlan(c)
            \/ RecoverPlan(c) \/ Abort(c, kind)
  BY <1>10 DEF WriteVerify, Put, StartPlan, StartDone, ConfirmDone, ReportsCommit,
               AdvancePlan, RecoverPlan, Abort, own
<1> QED BY <1>1, <1>2, <1>3, <1>4, <1>5, <1>6, <1>7, <1>8, <1>9, <1>10 DEF Step

\* Every step of the service, of workers and of the clock uses the store as the lock
\* that it promises to be.
LEMMA OwnStep == IInv /\ [Next]_vars => [Own!Next]_own
<1> SUFFICES ASSUME IInv, [Next]_vars PROVE [Own!Next]_own
  OBVIOUS
<1> USE DEF IInv
<1>1. ASSUME NEW c \in Claim, Work(c) PROVE [Own!Next]_own
  BY <1>1, OwnWork
<1>2. ASSUME NEW c \in Claim, NEW kind \in Kind, Step(c, kind) \/ Abort(c, kind)
      PROVE  [Own!Next]_own
  BY <1>2, OwnHandler
<1>3. ASSUME NEW c \in Claim, NEW l \in Lease, Reclaim(c, l) PROVE [Own!Next]_own
  BY <1>3 DEF Reclaim, Own!Next
<1>4. ASSUME NEW l \in Lease, Expire(l) PROVE [Own!Next]_own
  BY <1>4 DEF Expire, Own!Next
<1>5. CASE CIPasses \/ (\E to \in Sha : OwnerPush(to)) \/ UNCHANGED vars
  BY <1>5 DEF CIPasses, OwnerPush, vars, own
<1> QED BY <1>1, <1>2, <1>3, <1>4, <1>5 DEF Next

LEMMA LeasesStep == Typed /\ [Own!Next]_own => LeasesGrow
<1> SUFFICES ASSUME Typed, [Own!Next]_own PROVE LeasesGrow
  OBVIOUS
<1> USE NullAssumption DEF Typed, TypeOK, LeasesGrow, Known
<1>1. ASSUME NEW l \in Lease, Own!Issue(l) PROVE LeasesGrow
  BY <1>1 DEF Own!Issue
<1>2. ASSUME NEW k \in Sha \cup {Projection}, NEW l \in Lease, Own!Take(k, l) PROVE LeasesGrow
  BY <1>2 DEF Own!Take
<1>3. ASSUME NEW L \in SUBSET Lease, Own!End(L) PROVE LeasesGrow
  BY <1>3 DEF Own!End
<1>4. CASE UNCHANGED own
  BY <1>4 DEF own
<1> QED BY <1>1, <1>2, <1>3, <1>4 DEF Own!Next

-----------------------------------------------------------------------------
(* Steps of the worker *)

\* A claim's SHA changes only to a commit that was declared, or made by the service.
Declares(c) == row[c].sha \notin {NoSha, row'[c].sha} =>
                   row'[c].sha \in {row[c].cp.pub.to, call[c]["main"].new}

\* What a step of one claim leaves.
Outcome(c) == /\ Typed' /\ made \subseteq made' /\ phase' = phase
              /\ ClaimOK(c)' /\ Declares(c)
              /\ \A d \in Claim \ {c} : Untouched(d)

LEMMA Kinds == "main" \in Kind /\ "beat" \in Kind /\ "recovery" \in Kind
BY DEF Kind

LEMMA Types ==
    ASSUME Typed, LeasesGrow, NEW c \in Claim, NEW kind \in Kind, NEW n \in Calls,
           Handles(c, kind, n), n.at \in {"verify", "put", "done"} => n.to \in Route,
           head' \in made', made' \subseteq Sha, route' \in Route, phase' = phase,
           ci' \subseteq made', result' \in [Sha -> Result],
           row' \in [Claim -> Rows],
           client' \in [Claim -> {"new", "asking", "acquired", "starting", "finished", "gone"}
                                     \cup Executing],
           held' \in [Claim -> Lease \cup {NoLease}]
    PROVE  Typed'
BY DEF Typed, TypeOK, LeasesGrow, Handles, Writes

\* A step that touches nothing of a claim but its client.
LEMMA Relabelled ==
    ASSUME Typed, NEW c \in Claim,
           NEW s \in {"new", "asking", "acquired", "starting", "finished", "gone"} \cup Executing,
           Becomes(c, s)
    PROVE  /\ client' \in [Claim -> {"new", "asking", "acquired", "starting", "finished", "gone"}
                                     \cup Executing]
           /\ client'[c] = s
           /\ \A d \in Claim \ {c} : client'[d] = client[d]
BY DEF Typed, TypeOK, Becomes

LEMMA AcquireReadOutcome ==
    ASSUME Typed, LeasesGrow, NEW c \in Claim, ClaimOK(c), AcquireRead(c)
    PROVE  Outcome(c)
<1> DEFINE n == Request("acquire", "claim", NoLease, head, NoCp)
<1>a. head \in Sha /\ head \in made
  BY DEF Typed, TypeOK
<1>b. /\ n \in Calls /\ n.op = "acquire" /\ n.at = "claim" /\ n.lease = NoLease
      /\ n.sha = head /\ n.cp = NoCp
  BY <1>a, Nulls DEF Request, Calls
<1>c. Handles(c, "main", n)
  BY <1>b, Kinds, Handled DEF AcquireRead, Typed
<1>d. client' \in [Claim -> {"new", "asking", "acquired", "starting", "finished", "gone"}
                                \cup Executing]
      /\ client'[c] = "asking" /\ \A d \in Claim \ {c} : client'[d] = client[d]
  BY Relabelled DEF AcquireRead
<1> HIDE DEF n
<1>e. UNCHANGED <<own, pull, evidence, row, held>>
  BY DEF AcquireRead
<1>1. Typed'
  BY <1>b, <1>c, <1>d, <1>e, Kinds, Types DEF pull, evidence, Typed, TypeOK
<1>r. row[c] = NoRow /\ row'[c] = NoRow /\ NoRow.status = "absent"
  BY <1>e DEF ClaimOK, RowOK, AcquireRead, NoRow
<1>f. /\ call'[c]["main"] = n /\ \A k \in Kind : k # "main" => call'[c][k] = call[c][k]
  BY <1>c DEF Handles
<1>2. RowOK(c)'
  BY <1>b, <1>d, <1>e, <1>f, <1>r, Nulls
     DEF ClaimOK, RowOK, own, pull, evidence, Known, Declared, Prepared, NoPub
<1>3. RecoveryOK(c)'
  BY <1>b, <1>e, <1>f, <1>r, Kinds DEF ClaimOK, RecoveryOK, HoldsLease
<1>4. ASSUME NEW k \in Kind PROVE CallOK(c, k)'
  <2>1. CASE k = "main"
    BY <2>1, <1>a, <1>b, <1>e, <1>f, Nulls
       DEF CallOK, own, pull, evidence, Known, Declared, Prepared, NoPub
  <2>2. CASE k # "main"
    BY <2>2, <1>e, <1>f DEF ClaimOK, CallOK, own, pull, evidence, Known, Declared, Prepared
  <2> QED BY <2>1, <2>2
<1>5. ASSUME NEW k \in {"main", "beat"} PROVE CopyOK(c, k)'
  BY <1>r DEF CopyOK, HoldsLease
<1>6. ClaimOK(c)'
  BY <1>2, <1>3, <1>4, <1>5 DEF ClaimOK
<1> QED
  BY <1>1, <1>6, <1>c, <1>d, <1>e DEF Outcome, Declares, Untouched, Handles, pull, evidence

States == {"new", "asking", "acquired", "starting", "finished", "gone"} \cup Executing

\* What a step of one claim does to the rest, when it leaves the records well typed.
Tidy(c) ==
    /\ head' \in made' /\ made \subseteq made' /\ made' \subseteq Sha /\ route' \in Route
    /\ phase' = phase /\ ci' \subseteq made' /\ result' \in [Sha -> Result]
    /\ row' \in [Claim -> Rows] /\ client' \in [Claim -> States]
    /\ held' \in [Claim -> Lease \cup {NoLease}]
    /\ \A d \in Claim \ {c} : row'[d] = row[d] /\ client'[d] = client[d] /\ held'[d] = held[d]

LEMMA Leaves ==
    ASSUME Typed, LeasesGrow, NEW c \in Claim, NEW kind \in Kind, NEW n \in Calls,
           Handles(c, kind, n), n.at \in {"verify", "put", "done"} => n.to \in Route,
           Tidy(c), ClaimOK(c)', Declares(c)
    PROVE  Outcome(c)
<1>1. Typed'
  BY Types DEF Tidy, States
<1> QED BY <1>1 DEF Outcome, Tidy, Untouched, Handles

LEMMA SettledOutcome ==
    ASSUME Typed, LeasesGrow, NEW c \in Claim, ClaimOK(c), NEW kind \in Kind, NEW n \in Calls,
           Handles(c, kind, n), n.at \in {"verify", "put", "done"} => n.to \in Route,
           Continues(c, kind, call[c][kind], n), Settles(c), Tidy(c)
    PROVE  Outcome(c)
<1>1. Grows
  BY DEF Grows, Tidy
<1>2. ClaimOK(c)'
  BY <1>1, Settled
<1>3. Declares(c)
  BY DEF Declares, Settles
<1> QED BY <1>2, <1>3, Leaves

LEMMA StartedOutcome ==
    ASSUME Typed, LeasesGrow, NEW c \in Claim, ClaimOK(c), NEW kind \in {"main", "beat"},
           NEW n \in Calls, Handles(c, kind, n), n.at = "verify" => n.to \in Route,
           Starts(c, kind, n), Tidy(c)
    PROVE  Outcome(c)
<1>1. Grows
  BY DEF Grows, Tidy
<1>2. ClaimOK(c)'
  BY <1>1, Started
<1>3. Declares(c)
  BY DEF Declares, Starts
<1>4. n.at \in {"verify", "put", "done"} => n.to \in Route
  BY DEF Starts
<1> QED BY <1>2, <1>3, <1>4, Leaves DEF Kind

LEMMA Calm ==
    ASSUME Typed, NEW c \in Claim, UNCHANGED <<pull, evidence, row, worker>>
    PROVE  Tidy(c)
BY DEF Typed, TypeOK, Tidy, States, pull, evidence, worker

LEMMA CallTypes ==
    ASSUME Typed, NEW c \in Claim, NEW kind \in Kind
    PROVE  LET m == call[c][kind]
           IN m \in Calls /\ m.cp \in Checkpoints /\ m.lease \in Lease \cup {NoLease} /\ Writes(m)
BY DEF Typed, TypeOK, Calls

LEMMA NoCallIdle == NoCall \in Calls /\ NoCall.at = "idle"
BY Nulls DEF NoCall, Request

\* A claim whose row and worker stay as they are settles.
LEMMA RowKept ==
    ASSUME NEW c \in Claim, UNCHANGED <<row, worker>>
    PROVE  Settles(c)
BY DEF Settles, worker

LEMMA WriteVerifyOutcome ==
    ASSUME Typed, LeasesGrow, NEW c \in Claim, ClaimOK(c), NEW kind \in Kind,
           WriteVerify(c, kind)
    PROVE  Outcome(c)
<1> DEFINE m == call[c][kind]
           step == IF m.seen = m.to THEN "done" ELSE "put"
           n == [m EXCEPT !.at = step]
<1>1. Handles(c, kind, n) /\ n \in Calls
  BY Went DEF WriteVerify, Typed
<1>2. m \in Calls /\ Writes(m)
  BY CallTypes
<1>3. n.at = step /\ n.to = m.to /\ n.lease = m.lease /\ n.sha = m.sha /\ n.cp = m.cp /\ n.op = m.op
  BY <1>2 DEF Calls
<1>4. m.at = "verify"
  BY DEF WriteVerify
<1>5. n.to \in Route
  BY <1>2, <1>3, <1>4 DEF Writes
<1>6. Continues(c, kind, m, n)
  BY <1>3, <1>4 DEF Continues
<1>7. Settles(c) /\ Tidy(c)
  BY RowKept, Calm DEF WriteVerify, pull, evidence
<1> HIDE DEF n
<1> QED BY <1>1, <1>5, <1>6, <1>7, SettledOutcome

LEMMA PutOutcome ==
    ASSUME Typed, LeasesGrow, NEW c \in Claim, ClaimOK(c), NEW kind \in Kind, Put(c, kind)
    PROVE  Outcome(c)
<1> DEFINE m == call[c][kind]
           n == [m EXCEPT !.at = "done"]
<1>1. Handles(c, kind, n) /\ n \in Calls
  BY Went DEF Put, Typed
<1>2. m \in Calls /\ Writes(m)
  BY CallTypes
<1>3. /\ n.at = "done" /\ n.to = m.to /\ n.lease = m.lease /\ n.sha = m.sha /\ n.cp = m.cp
      /\ n.op = m.op
  BY <1>2 DEF Calls
<1>4. m.at = "put"
  BY DEF Put, At
<1>5. n.to \in Route
  BY <1>2, <1>3, <1>4 DEF Writes
<1>6. Continues(c, kind, m, n)
  BY <1>3, <1>4 DEF Continues
<1>7. Settles(c)
  BY RowKept DEF Put
<1>8. Tidy(c)
  BY <1>3, <1>5 DEF Put, Typed, TypeOK, Tidy, States, evidence, worker
<1> HIDE DEF n
<1> QED BY <1>1, <1>5, <1>6, <1>7, <1>8, SettledOutcome


LEMMA EndedOutcome ==
    ASSUME Typed, LeasesGrow, NEW c \in Claim, ClaimOK(c), NEW kind \in Kind,
           Ends(c, kind), Settles(c), Tidy(c)
    PROVE  Outcome(c)
<1>1. Handles(c, kind, NoCall)
  BY Ended DEF Typed
<1>2. Continues(c, kind, call[c][kind], NoCall)
  BY DEF Continues
<1> QED BY <1>1, <1>2, NoCallIdle, SettledOutcome

LEMMA KeptOutcome ==
    ASSUME Typed, LeasesGrow, NEW c \in Claim, ClaimOK(c),
           UNCHANGED call, Settles(c), Tidy(c)
    PROVE  Outcome(c)
<1> DEFINE n == call[c]["main"]
<1>1. n \in Calls /\ Writes(n)
  BY CallTypes, Kinds
<1>2. Handles(c, "main", n)
  BY Kinds DEF Handles, Typed, TypeOK
<1>3. Continues(c, "main", call[c]["main"], n)
  BY DEF Continues
<1>4. n.at \in {"verify", "put", "done"} => n.to \in Route
  BY <1>1 DEF Writes
<1> HIDE DEF n
<1> QED BY <1>1, <1>2, <1>3, <1>4, Kinds, SettledOutcome

\* The client goes on, with nothing of the claim prepared.
LEMMA ClientTidy ==
    ASSUME Typed, NEW c \in Claim, NEW s \in States, Becomes(c, s),
           UNCHANGED <<pull, evidence, held>>, row' \in [Claim -> Rows],
           \A d \in Claim \ {c} : row'[d] = row[d]
    PROVE  Tidy(c) /\ client'[c] = s /\ held'[c] = held[c]
BY Relabelled DEF Typed, TypeOK, Tidy, States, pull, evidence

LEMMA SameClient ==
    ASSUME Typed, NEW c \in Claim, UNCHANGED client
    PROVE  Becomes(c, client[c]) /\ client[c] \in States
BY DEF Typed, TypeOK, Becomes, States

LEMMA FinishedSettles ==
    ASSUME Typed, NEW c \in Claim, NEW l, NEW status \in {"done", "superseded"},
           Finishes(c, l, status), UNCHANGED <<pull, evidence, held>>,
           NEW s \in States, Becomes(c, s),
           s \in {client[c], "gone"} \/ (~Prepared(row[c].cp.pub) /\ s # "new")
    PROVE  Settles(c) /\ Tidy(c)
<1>1. /\ row' \in [Claim -> Rows]
      /\ \A d \in Claim \ {c} : row'[d] = row[d]
      /\ row'[c].sha = row[c].sha /\ row'[c].cp = row[c].cp
      /\ row'[c].lease \in {row[c].lease, NoLease}
      /\ \/ row'[c] = row[c]
         \/ row[c].status = "running" /\ row'[c].status # "running"
  BY Finished DEF Typed
<1>2. Tidy(c) /\ client'[c] = s /\ held'[c] = held[c]
  BY <1>1, ClientTidy
<1>3. NoRow.status = "absent"
  BY DEF NoRow
<1> QED BY <1>1, <1>2, <1>3 DEF Settles

LEMMA AbortOutcome ==
    ASSUME Typed, LeasesGrow, NEW c \in Claim, ClaimOK(c), NEW kind \in Kind, Abort(c, kind)
    PROVE  Outcome(c)
<1>1. Settles(c) /\ Tidy(c)
  BY RowKept, Calm DEF Abort
<1> QED BY <1>1, EndedOutcome DEF Abort

LEMMA AcquireRecheckOutcome ==
    ASSUME Typed, LeasesGrow, NEW c \in Claim, ClaimOK(c), AcquireRecheck(c)
    PROVE  Outcome(c)
<1> DEFINE m == call[c]["main"]
<1>1. CASE Sees(m.sha, {"todo"})
  <2>1. /\ held' = [held EXCEPT ![c] = m.lease]
        /\ client' = [client EXCEPT ![c] = IF @ = "asking" THEN "acquired" ELSE @]
        /\ UNCHANGED <<own, row, pull, evidence>>
    BY <1>1 DEF AcquireRecheck
  <2>2. m.lease \in Lease \cup {NoLease}
    BY CallTypes, Kinds
  <2>3. /\ held' \in [Claim -> Lease \cup {NoLease}] /\ held'[c] = m.lease
        /\ \A d \in Claim \ {c} : held'[d] = held[d]
    BY <2>1, <2>2 DEF Typed, TypeOK
  <2> DEFINE s == IF client[c] = "asking" THEN "acquired" ELSE client[c]
  <2>4. s \in States /\ Becomes(c, s)
    BY <2>1 DEF Typed, TypeOK, Becomes, States
  <2>5. /\ client' \in [Claim -> States] /\ client'[c] = s
        /\ \A d \in Claim \ {c} : client'[d] = client[d]
    BY <2>4, Relabelled DEF States
  <2>6. Tidy(c)
    BY <2>1, <2>3, <2>5 DEF Typed, TypeOK, Tidy, pull, evidence
  <2>7. Settles(c)
    BY <2>1, <2>3, <2>5 DEF Settles, ClaimOK, RowOK
  <2> QED BY <2>6, <2>7, Kinds, EndedOutcome DEF AcquireRecheck
<1>2. CASE ~Sees(m.sha, {"todo"})
  <2>1. Finishes(c, m.lease, "superseded") /\ UNCHANGED <<worker, pull, evidence>>
    BY <1>2 DEF AcquireRecheck
  <2>2. Becomes(c, client[c]) /\ client[c] \in States
    BY <2>1, SameClient DEF worker
  <2>3. Settles(c) /\ Tidy(c)
    BY <2>1, <2>2, FinishedSettles DEF worker
  <2> QED BY <2>3, Kinds, EndedOutcome DEF AcquireRecheck
<1> QED BY <1>1, <1>2

LEMMA DoneOutcome ==
    ASSUME Typed, LeasesGrow, NEW c \in Claim, ClaimOK(c), AdvanceDone(c) \/ DecisionDone(c)
    PROVE  Outcome(c)
<1> DEFINE m == call[c]["main"]
           s == IF client[c] = "working" THEN "finished" ELSE client[c]
<1>1. /\ Finishes(c, m.lease, "done") /\ UNCHANGED <<pull, evidence, held>>
      /\ client' = [client EXCEPT ![c] = IF @ = "working" THEN "finished" ELSE @]
      /\ Ends(c, "main")
  BY DEF AdvanceDone, DecisionDone
<1>2. s \in States /\ Becomes(c, s)
  BY <1>1 DEF Typed, TypeOK, Becomes, States
<1>3. s \in {client[c], "gone"} \/ (~Prepared(row[c].cp.pub) /\ s # "new")
  BY DEF ClaimOK, RowOK
<1> HIDE DEF s
<1>4. Settles(c) /\ Tidy(c)
  BY <1>1, <1>2, <1>3, FinishedSettles
<1> QED BY <1>1, <1>4, Kinds, EndedOutcome

LEMMA HeartbeatCheckOutcome ==
    ASSUME Typed, LeasesGrow, NEW c \in Claim, ClaimOK(c), HeartbeatCheck(c)
    PROVE  Outcome(c)
<1> DEFINE m == call[c]["beat"]
           s == IF client[c] \in Executing THEN "gone" ELSE client[c]
<1>0. UNCHANGED <<pull, evidence, held>> /\ Ends(c, "beat")
  BY DEF HeartbeatCheck
<1>1. CASE UNCHANGED <<own, row, client>>
  <2>1. Settles(c) /\ Tidy(c)
    BY <1>0, <1>1, RowKept, Calm DEF worker
  <2> QED BY <1>0, <2>1, Kinds, EndedOutcome
<1>2. CASE /\ Finishes(c, m.lease, "superseded")
           /\ client' = [client EXCEPT ![c] = IF @ \in Executing THEN "gone" ELSE @]
  <2>1. s \in States /\ Becomes(c, s)
    BY <1>2 DEF Typed, TypeOK, Becomes, States
  <2>2. s \in {client[c], "gone"}
    OBVIOUS
  <2> HIDE DEF s
  <2>3. Settles(c) /\ Tidy(c)
    BY <1>0, <1>2, <2>1, <2>2, FinishedSettles
  <2> QED BY <1>0, <2>3, Kinds, EndedOutcome
<1> QED BY <1>1, <1>2 DEF HeartbeatCheck

\* A recovery that ends its claim.
LEMMA GivesUpOutcome ==
    ASSUME Typed, LeasesGrow, NEW c \in Claim, ClaimOK(c),
           NEW status \in {"done", "superseded"},
           Finishes(c, call[c]["recovery"].lease, status), Ends(c, "recovery"),
           UNCHANGED <<pull, evidence, worker>>
    PROVE  Outcome(c)
<1>1. Becomes(c, client[c]) /\ client[c] \in States
  BY SameClient DEF worker
<1>2. Settles(c) /\ Tidy(c)
  BY <1>1, FinishedSettles DEF worker
<1> QED BY <1>2, Kinds, EndedOutcome


\* A step of the worker alone.
LEMMA WorkerOutcome ==
    ASSUME Typed, LeasesGrow, NEW c \in Claim, ClaimOK(c),
           NEW s \in States, Becomes(c, s), UNCHANGED <<row, held, call>>,
           s \in {"pushed", "gone"} \/ (~Prepared(row[c].cp.pub) /\ s # "new"),
           head' \in made, made' = made, UNCHANGED <<route, evidence>>
    PROVE  Outcome(c)
<1>1. /\ client' \in [Claim -> States] /\ client'[c] = s
      /\ \A d \in Claim \ {c} : client'[d] = client[d]
  BY Relabelled DEF States
<1>2. Settles(c)
  BY <1>1 DEF Settles
<1>3. Tidy(c)
  BY <1>1 DEF Typed, TypeOK, Tidy, evidence
<1> QED BY <1>2, <1>3, KeptOutcome

LEMMA PushOutcome ==
    ASSUME Typed, LeasesGrow, NEW c \in Claim, ClaimOK(c), Push(c)
    PROVE  Outcome(c)
<1>1. "pushed" \in States
  BY DEF States, Executing
<1>2. head' \in made
  <2>1. Declared(row[c].cp.pub) /\ head' = row[c].cp.pub.to
    BY DEF ClaimOK, RowOK, Push
  <2>2. row[c].cp.pub.from # NoSha
    BY NullAssumption DEF Push, Typed, TypeOK
  <2>3. NoPub.from = NoSha
    BY DEF NoPub
  <2> QED BY <2>1, <2>2, <2>3 DEF Declared
<1> QED BY <1>1, <1>2, WorkerOutcome DEF Push

LEMMA WorkerStopsOutcome ==
    ASSUME Typed, LeasesGrow, NEW c \in Claim, ClaimOK(c), WorkerStops(c)
    PROVE  Outcome(c)
<1>1. "gone" \in States
  BY DEF States
<1> QED BY <1>1, WorkerOutcome DEF WorkerStops, pull, Typed, TypeOK

LEMMA PostResultOutcome ==
    ASSUME Typed, LeasesGrow, NEW c \in Claim, ClaimOK(c),
           NEW r \in {"passed", "failed"}, PostResult(c, r)
    PROVE  Outcome(c)
<1>1. Settles(c)
  BY RowKept DEF PostResult
<1>2. Tidy(c)
  BY DEF PostResult, Typed, TypeOK, Tidy, States, pull, worker, Result
<1> QED BY <1>1, <1>2, KeptOutcome DEF PostResult

LEMMA ReleaseOutcome ==
    ASSUME Typed, LeasesGrow, NEW c \in Claim, ClaimOK(c), Release(c)
    PROVE  Outcome(c)
<1>1. client[c] \in {"acquired", "working"}
  BY DEF Release
<1>2. ~Prepared(row[c].cp.pub)
  BY <1>1 DEF ClaimOK, RowOK
<1>3. "finished" \in States
  BY DEF States
<1>4. Settles(c) /\ Tidy(c)
  BY <1>2, <1>3, FinishedSettles DEF Release
<1> QED BY <1>4, KeptOutcome DEF Release

LEMMA ConfirmDoneOutcome ==
    ASSUME Typed, LeasesGrow, NEW c \in Claim, ClaimOK(c), ConfirmDone(c)
    PROVE  Outcome(c)
<1> DEFINE s == IF client[c] = "pushed" THEN "working" ELSE client[c]
<1>1. ~Prepared(row[c].cp.pub)
  BY Kinds DEF ClaimOK, CallOK, ConfirmDone
<1>2. s \in States /\ Becomes(c, s)
  BY DEF ConfirmDone, Typed, TypeOK, Becomes, States, Executing
<1>3. UNCHANGED <<pull, evidence, row, held>>
  BY DEF ConfirmDone
<1>4. s = client[c] \/ s = "working"
  OBVIOUS
<1> HIDE DEF s
<1>5. /\ row' \in [Claim -> Rows] /\ \A d \in Claim \ {c} : row'[d] = row[d]
  BY <1>3 DEF Typed, TypeOK
<1>6. Tidy(c) /\ client'[c] = s /\ held'[c] = held[c]
  BY <1>2, <1>3, <1>5, ClientTidy
<1>7. Settles(c)
  BY <1>1, <1>3, <1>4, <1>6 DEF Settles
<1> QED BY <1>6, <1>7, Kinds, EndedOutcome DEF ConfirmDone

\* A handler that has recorded its plan and is about to write the route.
Plan(m, cp, seen, to) == [m EXCEPT !.at = "verify", !.cp = cp, !.seen = seen, !.to = to]

LEMMA Planned ==
    ASSUME NEW m \in Calls, NEW cp \in Checkpoints, NEW seen \in Route, NEW to \in Route
    PROVE  /\ Plan(m, cp, seen, to) \in Calls
           /\ Plan(m, cp, seen, to).at = "verify" /\ Plan(m, cp, seen, to).to = to
           /\ Plan(m, cp, seen, to).cp = cp /\ Plan(m, cp, seen, to).lease = m.lease
           /\ Plan(m, cp, seen, to).sha = m.sha /\ Plan(m, cp, seen, to).op = m.op
BY DEF Plan, Calls

\* The worker's request saves the checkpoint it carries, with something added to it.
LEMMA MainSaves ==
    ASSUME Typed, NEW c \in Claim, ClaimOK(c), NEW cp \in Checkpoints,
           call[c]["main"].op \in {"start", "advance", "reports"},
           Saves(c, call[c]["main"].lease, cp), cp.pub = call[c]["main"].cp.pub,
           UNCHANGED <<pull, evidence, held>>,
           NEW s \in States, Becomes(c, s),
           s \in {client[c], "gone", "working"}
    PROVE  Settles(c) /\ Tidy(c)
<1> DEFINE r == [row[c] EXCEPT !.cp = cp]
           m == call[c]["main"]
<1>1. /\ Records(c, r) /\ r.status = row[c].status /\ r.lease = row[c].lease
      /\ r.sha = row[c].sha /\ r.cp = cp
  BY Saved DEF Typed
<1> HIDE DEF r
<1>2. Tidy(c) /\ client'[c] = s /\ held'[c] = held[c]
  BY <1>1, ClientTidy DEF Records
<1>3. HoldsLease(c, m.lease) /\ row[c] # NoRow
  BY DEF Saves, HoldsLease, NoRow
<1>4. ~Prepared(row[c].cp.pub) /\ ~Prepared(cp.pub)
  BY Kinds DEF ClaimOK, RowOK, CallOK
<1>5. call[c]["recovery"].at # "idle" => ~HoldsLease(c, call[c]["recovery"].lease)
  BY <1>3 DEF ClaimOK, RecoveryOK, HoldsLease
<1>6. \E kind \in Kind : cp.pub = call[c][kind].cp.pub
  BY Kinds
<1> QED BY <1>1, <1>2, <1>3, <1>4, <1>5, <1>6 DEF Settles, Records

LEMMA StartPlanOutcome ==
    ASSUME Typed, LeasesGrow, NEW c \in Claim, ClaimOK(c), StartPlan(c)
    PROVE  Outcome(c)
<1> DEFINE m == call[c]["main"]
<1>1. m \in Calls /\ m.cp \in Checkpoints /\ m.lease \in Lease \cup {NoLease}
  BY CallTypes, Kinds
<1>2. PICK cp \in Checkpoints :
          /\ cp.pub = m.cp.pub /\ Saves(c, m.lease, cp)
          /\ call' = [call EXCEPT ![c]["main"] = [m EXCEPT !.at = "verify", !.cp = cp,
                                                          !.seen = route, !.to = "running"]]
  BY <1>1, NextCheckpoints DEF StartPlan
<1> DEFINE n == Plan(m, cp, route, "running")
<1>b. route \in Route /\ "running" \in Route
  BY DEF Typed, TypeOK, Route
<1>3. /\ n \in Calls /\ n.at = "verify" /\ n.to = "running" /\ n.cp = cp /\ n.lease = m.lease
      /\ n.sha = m.sha /\ n.op = m.op
  BY <1>1, <1>b, Planned
<1>a. call' = [call EXCEPT ![c]["main"] = n]
  BY <1>2 DEF Plan
<1>4. Handles(c, "main", n)
  BY <1>a, <1>3, Kinds, Handled DEF Typed
<1>5. m.op = "start" /\ m.at = "plan" /\ UNCHANGED <<own, pull, evidence, worker>>
  BY DEF StartPlan
<1>6. Becomes(c, client[c]) /\ client[c] \in States
  BY <1>5, SameClient DEF worker
<1>7. Settles(c) /\ Tidy(c)
  BY <1>2, <1>5, <1>6, MainSaves DEF worker
<1>8. Continues(c, "main", m, n)
  BY <1>2, <1>3, <1>5 DEF Continues
<1> HIDE DEF n
<1>9. n.to \in Route
  BY <1>3 DEF Route
<1> QED BY <1>3, <1>4, <1>7, <1>8, <1>9, Kinds, SettledOutcome

LEMMA StartDoneOutcome ==
    ASSUME Typed, LeasesGrow, NEW c \in Claim, ClaimOK(c), StartDone(c)
    PROVE  Outcome(c)
<1> DEFINE m == call[c]["main"]
           cp == [m.cp EXCEPT !.start = "applied"]
           s == IF client[c] = "starting" THEN "working" ELSE client[c]
<1>1. m.cp \in Checkpoints
  BY CallTypes, Kinds
<1>2. cp \in Checkpoints /\ cp.pub = m.cp.pub
  BY <1>1, NextCheckpoints
<1>3. s \in States /\ Becomes(c, s) /\ s \in {client[c], "gone", "working"}
  BY DEF StartDone, Typed, TypeOK, Becomes, States, Executing
<1>4. m.op = "start" /\ Saves(c, m.lease, cp) /\ UNCHANGED <<pull, evidence, held>>
  BY DEF StartDone
<1> HIDE DEF s, cp
<1>5. Settles(c) /\ Tidy(c)
  BY <1>2, <1>3, <1>4, MainSaves
<1> QED BY <1>5, Kinds, EndedOutcome DEF StartDone

LEMMA AdvancePlanOutcome ==
    ASSUME Typed, LeasesGrow, NEW c \in Claim, ClaimOK(c), AdvancePlan(c)
    PROVE  Outcome(c)
<1> DEFINE m == call[c]["main"]
<1>1. m \in Calls /\ m.cp \in Checkpoints /\ m.lease \in Lease \cup {NoLease}
  BY CallTypes, Kinds
<1>2. PICK to \in Advances(m.sha, m.cp) :
          LET cp == [m.cp EXCEPT !.adv = to, !.advBy = m.lease] IN
          /\ Saves(c, m.lease, cp)
          /\ call' = [call EXCEPT ![c]["main"] = [m EXCEPT !.at = "verify", !.cp = cp,
                                                          !.seen = route, !.to = to]]
  BY DEF AdvancePlan
<1> DEFINE cp == [m.cp EXCEPT !.adv = to, !.advBy = m.lease]
           n == Plan(m, cp, route, to)
<1>0. to \in Route
  BY DEF Advances, Route
<1>3. cp \in Checkpoints /\ cp.pub = m.cp.pub
  BY <1>0, <1>1 DEF Checkpoints
<1>4. Saves(c, m.lease, cp) /\ call' = [call EXCEPT ![c]["main"] = n]
  BY <1>2 DEF Plan
<1> HIDE DEF cp
<1>5. /\ n \in Calls /\ n.at = "verify" /\ n.to = to /\ n.cp = cp /\ n.lease = m.lease
      /\ n.sha = m.sha /\ n.op = m.op
  BY <1>0, <1>1, <1>3, Planned DEF Typed, TypeOK
<1>6. Handles(c, "main", n)
  BY <1>4, <1>5, Kinds, Handled DEF Typed
<1>7. m.op = "advance" /\ m.at = "plan" /\ UNCHANGED <<own, pull, evidence, worker>>
  BY DEF AdvancePlan
<1>8. Becomes(c, client[c]) /\ client[c] \in States
  BY <1>7, SameClient DEF worker
<1>9. Settles(c) /\ Tidy(c)
  BY <1>3, <1>4, <1>7, <1>8, MainSaves DEF worker
<1>10. Continues(c, "main", m, n)
  BY <1>3, <1>5, <1>7 DEF Continues
<1> HIDE DEF n
<1> QED BY <1>0, <1>5, <1>6, <1>9, <1>10, Kinds, SettledOutcome


-----------------------------------------------------------------------------
(* Following HEAD *)

\* The record of a handler that has followed HEAD.
Follow(m, sha, cp) == [m EXCEPT !.at = "check", !.sha = sha, !.cp = cp]

LEMMA Following ==
    ASSUME NEW m \in Calls, NEW sha \in Sha, NEW cp \in Checkpoints
    PROVE  LET n == Follow(m, sha, cp)
           IN /\ n \in Calls /\ n.at = "check" /\ n.sha = sha /\ n.cp = cp
              /\ n.lease = m.lease /\ n.op = m.op
BY DEF Follow, Calls

LEMMA FollowsOutcome ==
    ASSUME Typed, LeasesGrow, NEW c \in Claim, ClaimOK(c), NEW kind \in Kind,
           At(c, kind, "refresh"), Prepared(call[c][kind].cp.pub),
           call[c][kind].cp.pub.from = call[c][kind].sha,
           MovesHead(c, call[c][kind].lease, call[c][kind].cp.pub.from,
                     call[c][kind].cp.pub.to, Followed(call[c][kind].cp)),
           call' = [call EXCEPT ![c][kind] = Follow(call[c][kind], call[c][kind].cp.pub.to,
                                                    row'[c].cp)],
           UNCHANGED <<pull, evidence, worker>>
    PROVE  Outcome(c)
<1> DEFINE m == call[c][kind]
           n == Follow(m, m.cp.pub.to, row'[c].cp)
<1>1. PICK p : p = m.cp.pub
  OBVIOUS
<1>2. /\ m \in Calls /\ m.cp \in Checkpoints /\ CallOK(c, kind)
  BY CallTypes DEF ClaimOK
<1>3. p.from \in made /\ p.to \in made /\ p.from # p.to /\ p.to \in Sha
  BY <1>1, <1>2 DEF CallOK, Declared, Prepared, NoPub, Typed, TypeOK
<1>4. /\ Followed(m.cp) \in Checkpoints /\ Followed(m.cp).pub.status = "applied"
      /\ Followed(m.cp).pub.from = p.from /\ Followed(m.cp).pub.to = p.to
  BY <1>1, <1>2, FollowedType
<1>5. HoldsLease(c, m.lease) /\ row[c] # NoRow
  BY DEF MovesHead, HoldsLease, NoRow
<1>6. client'[c] = client[c] /\ held'[c] = held[c]
  BY DEF worker
<1>7. CASE row[c].sha = p.from /\ row' = [row EXCEPT ![c].sha = p.to, ![c].cp = Followed(m.cp)]
  <2> DEFINE r == [row[c] EXCEPT !.sha = p.to, !.cp = Followed(m.cp)]
  <2>1. /\ Records(c, r) /\ r.status = row[c].status /\ r.lease = row[c].lease
        /\ r.sha = p.to /\ r.cp = Followed(m.cp)
    BY <1>3, <1>4, <1>7, Moved DEF Typed
  <2> HIDE DEF r
  <2>2. row'[c].cp \in Checkpoints /\ row'[c].cp = Followed(m.cp) /\ row'[c].sha = p.to
    BY <1>4, <2>1 DEF Records
  <2>3. /\ n \in Calls /\ n.at = "check" /\ n.sha = p.to /\ n.cp = row'[c].cp
        /\ n.lease = m.lease /\ n.op = m.op
    BY <1>1, <1>2, <1>3, <2>2, Following, ZenonT(40)
  <2>4. Handles(c, kind, n)
    BY <2>3, Handled DEF Typed
  <2>5. Tidy(c)
    BY <2>1 DEF Records, Typed, TypeOK, Tidy, States, pull, evidence, worker
  <2>6. Grows
    BY <2>5 DEF Grows, Tidy
  <2> HIDE DEF n
  <2>7. ClaimOK(c)' /\ row[c].cp.pub = p
    <3>1. /\ row'[c].status = row[c].status /\ row'[c].lease = row[c].lease
          /\ n.cp.pub = row'[c].cp.pub
      BY <2>1, <2>3 DEF Records
    <3>2. /\ row'[c].cp.pub.status = "applied"
          /\ row'[c].cp.pub.from = p.from /\ row'[c].cp.pub.to = p.to
      BY <1>4, <2>2
    <3>3. p = call[c][kind].cp.pub /\ Prepared(p) /\ row[c].sha = p.from
      BY <1>1, <1>7
    <3>4. HoldsLease(c, call[c][kind].lease)
      BY <1>5
    <3>5. /\ n.at = "check" /\ n.lease = call[c][kind].lease /\ n.op = call[c][kind].op
          /\ n.sha = p.to
      BY <2>3
    <3> QED BY <1>6, <2>2, <2>4, <2>6, <3>1, <3>2, <3>3, <3>4, <3>5, FollowedOn,
              ZenonT(40)
  <2>8. Declares(c)
    BY <2>2, <2>7 DEF Declares
  <2> QED BY <2>3, <2>4, <2>5, <2>7, <2>8, Leaves
<1>8. CASE /\ row[c].sha = p.to
           /\ row[c].cp.pub = [status |-> "applied", from |-> p.from, to |-> p.to]
           /\ UNCHANGED row
  <2>1. row[c].cp \in Checkpoints /\ ~Prepared(row[c].cp.pub)
    BY <1>8 DEF Typed, TypeOK, Rows, Prepared
  <2>2. kind # "recovery"
    BY <1>1, <1>5, <2>1 DEF ClaimOK, RecoveryOK, At
  <2>3. /\ n \in Calls /\ n.at = "check" /\ n.sha = p.to /\ n.cp = row[c].cp
        /\ n.lease = m.lease /\ n.op = m.op
    <3>1. n = Follow(m, p.to, row[c].cp)
      BY <1>1, <1>8
    <3>2. m \in Calls /\ p.to \in Sha
      BY <1>2, <1>3
    <3> HIDE DEF n
    <3> QED BY <2>1, <3>1, <3>2, Following
  <2>4. Handles(c, kind, n)
    BY <2>3, Handled DEF Typed
  <2>5. Tidy(c) /\ Settles(c)
    BY <1>8, RowKept, Calm
  <2> HIDE DEF n
  <2>6. Continues(c, kind, m, n)
    BY <1>5, <1>8, <2>1, <2>2, <2>3 DEF Continues, At
  <2> QED BY <2>3, <2>4, <2>5, <2>6, SettledOutcome
<1> QED BY <1>1, <1>7, <1>8 DEF MovesHead

LEMMA RefreshHeadOutcome ==
    ASSUME Typed, LeasesGrow, NEW c \in Claim, ClaimOK(c), NEW kind \in Kind,
           RefreshHead(c, kind)
    PROVE  Outcome(c)
<1> DEFINE m == call[c][kind]
<1>0. m.at = "refresh" /\ UNCHANGED <<pull, evidence, worker>>
  BY DEF RefreshHead
<1>1. CASE Goes(c, kind, "check") /\ UNCHANGED <<own, row>>
  <2> DEFINE n == [m EXCEPT !.at = "check"]
  <2>1. Handles(c, kind, n) /\ n \in Calls
    BY <1>1, Went DEF Typed
  <2>2. n.at = "check" /\ n.lease = m.lease /\ n.sha = m.sha /\ n.cp = m.cp /\ n.op = m.op
    BY CallTypes DEF Calls
  <2> HIDE DEF n
  <2>3. Continues(c, kind, m, n)
    BY <1>0, <2>2 DEF Continues
  <2>4. Settles(c) /\ Tidy(c)
    BY <1>0, <1>1, RowKept, Calm
  <2> QED BY <2>1, <2>2, <2>3, <2>4, SettledOutcome
<1>2. CASE /\ m.cp.pub.status = "prepared" /\ m.cp.pub.from = m.sha
           /\ MovesHead(c, m.lease, m.cp.pub.from, m.cp.pub.to, Followed(m.cp))
           /\ call' = [call EXCEPT ![c][kind] = Follow(m, m.cp.pub.to, row'[c].cp)]
  BY <1>0, <1>2, FollowsOutcome DEF Prepared, At
<1> QED BY <1>1, <1>2 DEF RefreshHead, Follow

-----------------------------------------------------------------------------
(* Recovery *)

LEMMA RecoverClaimOutcome ==
    ASSUME Typed, LeasesGrow, NEW c \in Claim, ClaimOK(c), RecoverClaim(c) \/ RecoverBoard(c)
    PROVE  Outcome(c)
<1> DEFINE m == call[c]["recovery"]
<1>0. m.at # "idle" /\ UNCHANGED <<pull, evidence, worker>>
  BY DEF RecoverClaim, RecoverBoard, At
<1>1. CASE Finishes(c, m.lease, "superseded") /\ Ends(c, "recovery")
  BY <1>0, <1>1, GivesUpOutcome
<1>2. CASE Ends(c, "recovery") /\ UNCHANGED row
  BY <1>0, <1>2, RowKept, Calm, EndedOutcome, Kinds
<1>3. ASSUME NEW step \in {"board", "refresh"}, Goes(c, "recovery", step), UNCHANGED row
      PROVE  Outcome(c)
  <2> DEFINE n == [m EXCEPT !.at = step]
  <2>1. Handles(c, "recovery", n) /\ n \in Calls
    BY <1>3, Kinds, Went DEF Typed
  <2>2. n.at = step /\ n.lease = m.lease /\ n.sha = m.sha /\ n.cp = m.cp /\ n.op = m.op
    BY <1>3, Kinds, CallTypes DEF Calls
  <2> HIDE DEF n
  <2>3. Continues(c, "recovery", m, n)
    BY <1>0, <1>3, <2>2 DEF Continues
  <2>4. Settles(c) /\ Tidy(c)
    BY <1>0, <1>3, RowKept, Calm
  <2> QED BY <1>3, <2>1, <2>2, <2>3, <2>4, Kinds, SettledOutcome
<1> QED BY <1>1, <1>2, <1>3 DEF RecoverClaim, RecoverBoard

LEMMA RecoverPlanOutcome ==
    ASSUME Typed, LeasesGrow, NEW c \in Claim, ClaimOK(c), RecoverPlan(c)
    PROVE  Outcome(c)
<1> DEFINE m == call[c]["recovery"]
<1>1. m \in Calls /\ m.cp \in Checkpoints
  BY CallTypes, Kinds
<1>2. PICK to \in Recovers(m.sha) :
          LET cp == [m.cp EXCEPT !.rec = to] IN
          /\ Saves(c, m.lease, cp)
          /\ call' = [call EXCEPT ![c]["recovery"] =
                         [m EXCEPT !.at = "verify", !.cp = cp, !.seen = route, !.to = to]]
  BY DEF RecoverPlan
<1> DEFINE cp == [m.cp EXCEPT !.rec = to]
           n == Plan(m, cp, route, to)
           r == [row[c] EXCEPT !.cp = cp]
<1>3. to \in Route /\ route \in Route
  BY DEF Recovers, Route, Typed, TypeOK
<1>4. cp \in Checkpoints /\ cp.pub = m.cp.pub
  BY <1>1, <1>3 DEF Checkpoints
<1>5. Saves(c, m.lease, cp) /\ call' = [call EXCEPT ![c]["recovery"] = n]
  BY <1>2 DEF Plan
<1> HIDE DEF cp
<1>6. /\ n \in Calls /\ n.at = "verify" /\ n.to = to /\ n.cp = cp /\ n.lease = m.lease
      /\ n.sha = m.sha /\ n.op = m.op
  BY <1>1, <1>3, <1>4, Planned
<1>7. Handles(c, "recovery", n)
  BY <1>5, <1>6, Kinds, Handled DEF Typed
<1>8. m.at = "check" /\ UNCHANGED <<own, pull, evidence, worker>>
  BY DEF RecoverPlan, At
<1>9. /\ Records(c, r) /\ r.status = row[c].status /\ r.lease = row[c].lease
      /\ r.sha = row[c].sha /\ r.cp = cp
  BY <1>4, <1>5, Saved DEF Typed
<1> HIDE DEF r, n
<1>10. HoldsLease(c, m.lease) /\ row[c] # NoRow
  BY <1>5 DEF Saves, HoldsLease, NoRow
<1>11. cp.pub = row[c].cp.pub
  BY <1>4, <1>8, <1>10 DEF ClaimOK, RecoveryOK
<1>12. Settles(c)
  BY <1>8, <1>9, <1>10, <1>11 DEF Settles, Records, worker
<1>13. Tidy(c)
  BY <1>8, <1>9 DEF Records, Typed, TypeOK, Tidy, States, pull, evidence, worker
<1>14. Continues(c, "recovery", m, n)
  BY <1>4, <1>6, <1>8 DEF Continues
<1> QED BY <1>3, <1>6, <1>7, <1>12, <1>13, <1>14, Kinds, SettledOutcome


-----------------------------------------------------------------------------
(* Requests *)

LEMMA Begun ==
    ASSUME Typed, LeasesGrow, NEW c \in Claim, ClaimOK(c), NEW kind \in {"main", "beat"},
           NEW op \in {"start", "heartbeat", "confirm", "advance"},
           NEW step \in {"plan", "refresh", "check"},
           Owned(c, held[c]), Begins(c, kind, op, step, held[c]),
           kind = "main" /\ Prepared(row[c].cp.pub) => op = "confirm",
           UNCHANGED <<pull, evidence, row, held>>,
           NEW s \in States, Becomes(c, s),
           s = client[c] \/ (~Prepared(row[c].cp.pub) /\ s # "new")
    PROVE  Outcome(c)
<1>n. PICK n : n = Request(op, step, held[c], row[c].sha, row[c].cp)
  OBVIOUS
<1>1. /\ TypeOK /\ held[c] \in Lease \cup {NoLease} /\ kind \in Kind
      /\ op \in {"start", "heartbeat", "confirm", "advance", "recovery"}
      /\ step \in {"plan", "refresh", "check", "claim"}
  BY DEF Typed, TypeOK, Kind
<1>2. /\ Handles(c, kind, n) /\ n \in Calls
      /\ n.op = op /\ n.at = step /\ n.lease = held[c] /\ n.sha = row[c].sha /\ n.cp = row[c].cp
  BY <1>n, <1>1, Began
<1>3. /\ row' \in [Claim -> Rows] /\ \A d \in Claim \ {c} : row'[d] = row[d]
  BY DEF Typed, TypeOK
<1>4. Tidy(c) /\ client'[c] = s /\ held'[c] = held[c]
  BY <1>3, ClientTidy
<1>5. Idle(c, kind) /\ HoldsLease(c, held[c])
  BY DEF Begins, Owned
<1>6. Starts(c, kind, n)
  BY <1>2, <1>4, <1>5 DEF Starts
<1>7. n.at # "verify"
  BY <1>2
<1> QED BY <1>2, <1>4, <1>6, <1>7, StartedOutcome

LEMMA StartBeginOutcome ==
    ASSUME Typed, LeasesGrow, NEW c \in Claim, ClaimOK(c), StartBegin(c)
    PROVE  Outcome(c)
<1>1. ~Prepared(row[c].cp.pub)
  BY DEF ClaimOK, RowOK, StartBegin
<1>2. "starting" \in States
  BY DEF States
<1> QED BY <1>1, <1>2, Begun DEF StartBegin

LEMMA OtherBeginsOutcome ==
    ASSUME Typed, LeasesGrow, NEW c \in Claim, ClaimOK(c),
           HeartbeatBegin(c) \/ ConfirmBegin(c) \/ AdvanceBegin(c)
    PROVE  Outcome(c)
<1>1. UNCHANGED <<pull, evidence, row, worker>> /\ Owned(c, held[c])
  BY DEF HeartbeatBegin, ConfirmBegin, AdvanceBegin
<1>2. Becomes(c, client[c]) /\ client[c] \in States
  BY <1>1, SameClient DEF worker
<1>3. CASE HeartbeatBegin(c)
  <2>1. PICK step \in {"refresh", "check"} : Begins(c, "beat", "heartbeat", step, held[c])
    BY <1>3 DEF HeartbeatBegin
  <2> QED BY <1>1, <1>2, <2>1, Begun DEF worker
<1>4. CASE ConfirmBegin(c)
  BY <1>1, <1>2, <1>4, Begun DEF ConfirmBegin, worker
<1>5. CASE AdvanceBegin(c)
  <2>1. ~Prepared(row[c].cp.pub)
    BY <1>5 DEF ClaimOK, RowOK, AdvanceBegin
  <2> QED BY <1>1, <1>2, <1>5, <2>1, Begun DEF AdvanceBegin, worker
<1> QED BY <1>3, <1>4, <1>5

\* A request that saves the row's own checkpoint, with something added to it.
LEMMA RowSaves ==
    ASSUME Typed, LeasesGrow, NEW c \in Claim, ClaimOK(c), client[c] = "working",
           Idle(c, "main"), NEW cp \in Checkpoints, cp.pub = row[c].cp.pub,
           Saves(c, held[c], cp), UNCHANGED <<pull, evidence, worker>>,
           NEW n \in Calls, Handles(c, "main", n), n.at \in {"commit", "verify"},
           n.at = "commit" => phase \in ReportPhases, n.at = "verify" => n.to \in Route,
           n.lease = held[c], n.sha = row[c].sha, n.cp = cp
    PROVE  Outcome(c)
<1> DEFINE r == [row[c] EXCEPT !.cp = cp]
<1>1. /\ Records(c, r) /\ r.status = row[c].status /\ r.lease = row[c].lease
      /\ r.sha = row[c].sha /\ r.cp = cp
  BY Saved DEF Typed
<1> HIDE DEF r
<1>2. Tidy(c)
  BY <1>1 DEF Records, Typed, TypeOK, Tidy, States, pull, evidence, worker
<1>3. ~Prepared(row[c].cp.pub) /\ HoldsLease(c, held[c])
  BY DEF ClaimOK, RowOK, Saves
<1>4. Starts(c, "main", n)
  BY <1>1, <1>3 DEF Starts, Records, worker
<1> QED BY <1>2, <1>4, StartedOutcome

LEMMA ReportsBeginOutcome ==
    ASSUME Typed, LeasesGrow, NEW c \in Claim, ClaimOK(c), ReportsBegin(c)
    PROVE  Outcome(c)
<1> DEFINE cp == [row[c].cp EXCEPT !.rep = "prepared"]
           n == Request("reports", "commit", held[c], row[c].sha, cp)
<1>1. /\ row[c].cp \in Checkpoints /\ row[c].sha \in Sha \cup {NoSha}
      /\ held[c] \in Lease \cup {NoLease}
  BY DEF Typed, TypeOK, Rows
<1>2. cp \in Checkpoints /\ cp.pub = row[c].cp.pub
  BY <1>1 DEF Checkpoints
<1>3. /\ client[c] = "working" /\ Idle(c, "main") /\ phase \in ReportPhases
      /\ Saves(c, held[c], cp) /\ UNCHANGED <<pull, evidence, worker>>
      /\ call' = [call EXCEPT ![c]["main"] =
                   Request("reports", "commit", held[c], row[c].sha, row'[c].cp)]
  BY DEF ReportsBegin, MayPublish
<1> HIDE DEF cp
<1>4. row'[c].cp = cp
  BY <1>3 DEF Saves, Typed, TypeOK, Rows
<1>5. /\ n \in Calls /\ n.at = "commit" /\ n.lease = held[c] /\ n.sha = row[c].sha /\ n.cp = cp
  BY <1>1, <1>2 DEF Request, Calls
<1>6. Handles(c, "main", n)
  BY <1>3, <1>4, <1>5, Kinds, Handled DEF Typed
<1> HIDE DEF n
<1> QED BY <1>2, <1>3, <1>5, <1>6, RowSaves

LEMMA DecideOutcome ==
    ASSUME Typed, LeasesGrow, NEW c \in Claim, ClaimOK(c), NEW to \in Route, Decide(c, to)
    PROVE  Outcome(c)
<1> DEFINE cp == [row[c].cp EXCEPT !.dec = TRUE]
           q == Request("decision", "verify", held[c], row[c].sha, cp)
           n == [q EXCEPT !.seen = "running", !.to = to]
<1>1. /\ row[c].cp \in Checkpoints /\ row[c].sha \in Sha \cup {NoSha}
      /\ held[c] \in Lease \cup {NoLease}
  BY DEF Typed, TypeOK, Rows
<1>2. cp \in Checkpoints /\ cp.pub = row[c].cp.pub
  BY <1>1 DEF Checkpoints
<1>3. /\ client[c] = "working" /\ Idle(c, "main")
      /\ Saves(c, held[c], cp) /\ UNCHANGED <<pull, evidence, worker>>
      /\ call' = [call EXCEPT ![c]["main"] =
                   [Request("decision", "verify", held[c], row[c].sha, row'[c].cp)
                        EXCEPT !.seen = "running", !.to = to]]
  BY DEF Decide
<1> HIDE DEF cp
<1>4. row'[c].cp = cp
  BY <1>3 DEF Saves, Typed, TypeOK, Rows
<1>5. /\ q \in Calls /\ q.at = "verify" /\ q.lease = held[c] /\ q.sha = row[c].sha /\ q.cp = cp
  BY <1>1, <1>2 DEF Request, Calls
<1>6. call' = [call EXCEPT ![c]["main"] = n]
  BY <1>3, <1>4
<1> HIDE DEF q
<1>7. /\ n \in Calls /\ n.at = "verify" /\ n.to = to
      /\ n.lease = held[c] /\ n.sha = row[c].sha /\ n.cp = cp
  <2>1. "running" \in Route
    BY DEF Route
  <2> QED BY <1>5, <2>1 DEF Calls
<1>8. Handles(c, "main", n)
  BY <1>6, <1>7, Kinds, Handled DEF Typed
<1> HIDE DEF n
<1> QED BY <1>2, <1>3, <1>7, <1>8, RowSaves


-----------------------------------------------------------------------------
(* Publications *)

LEMMA PrepareHeadOutcome ==
    ASSUME Typed, LeasesGrow, NEW c \in Claim, ClaimOK(c), NEW to \in Sha, PrepareHead(c, to)
    PROVE  Outcome(c)
<1> DEFINE p == [status |-> "prepared", from |-> row[c].sha, to |-> to]
           cp == [row[c].cp EXCEPT !.pub = p]
           r == [row[c] EXCEPT !.cp = cp]
<1>1. /\ client[c] = "working" /\ Idle(c, "main") /\ phase \in CodePhases
      /\ HoldsLease(c, held[c]) /\ row[c].cp.pub.status # "prepared" /\ to \notin made
      /\ made' = made \cup {to} /\ Saves(c, held[c], cp) /\ Becomes(c, "declared")
      /\ UNCHANGED <<own, head, route, evidence, held, call>>
  BY DEF PrepareHead, MayPublish, Owned
<1>2. row[c].cp \in Checkpoints /\ row[c].sha \in made /\ made \subseteq Sha /\ row[c] # NoRow
  <2>1. row[c].cp \in Checkpoints /\ made \subseteq Sha
    BY DEF Typed, TypeOK, Rows
  <2>2. row[c] # NoRow
    BY <1>1 DEF HoldsLease, NoRow
  <2> QED BY <2>1, <2>2 DEF ClaimOK, RowOK
<1>3. p \in Pubs /\ p.status = "prepared" /\ p.from = row[c].sha /\ p.to = to
  <2>1. row[c].sha \in Sha
    BY <1>2
  <2> QED BY <2>1 DEF Pubs
<1> HIDE DEF p
<1>4. cp \in Checkpoints /\ cp.pub = p
  BY <1>2, <1>3 DEF Checkpoints
<1> HIDE DEF cp
<1>5. /\ Records(c, r) /\ r.status = row[c].status /\ r.lease = row[c].lease
      /\ r.sha = row[c].sha /\ r.cp = cp
  BY <1>1, <1>4, Saved DEF Typed
<1> HIDE DEF r
<1>6. /\ client' \in [Claim -> States] /\ client'[c] = "declared"
      /\ \A d \in Claim \ {c} : client'[d] = client[d]
  BY <1>1, Relabelled DEF States, Executing
<1>7. Tidy(c)
  BY <1>1, <1>5, <1>6 DEF Records, Typed, TypeOK, Tidy, evidence
<1>8. Grows
  BY <1>7 DEF Grows, Tidy
<1>9. call[c]["main"] = NoCall /\ NoCall.op = "none" /\ NoCall.at = "idle"
  BY <1>1, Kinds, NoCallIdle DEF ClaimOK, CallOK, Idle, At, NoCall, Request
<1>10. row'[c].sha = row[c].sha /\ row'[c].cp.pub = p /\ row'[c].lease = row[c].lease
       /\ row'[c].status = row[c].status /\ held'[c] = held[c] /\ call'[c] = call[c]
  BY <1>1, <1>4, <1>5 DEF Records
<1>m. made' = made \cup {to} /\ phase' = phase
  BY <1>1 DEF evidence
<1>11. /\ p.from \in made' /\ p.to \in made' /\ p.from # p.to /\ phase' \in CodePhases
       /\ p.status \in {"prepared", "applied"}
  BY <1>1, <1>2, <1>3, <1>m
<1>12. Declared(row[c].cp.pub)'
  BY <1>10, <1>11 DEF Declared
<1>a. RowOK(c)'
  <2>1. Known(row[c].lease)' /\ Known(held[c])'
    BY <1>8, <1>10 DEF ClaimOK, RowOK, Known, Grows, LeasesGrow
  <2>2. row'[c].sha \in made' /\ client'[c] # "new" /\ ~At(c, "main", "claim")'
    BY <1>2, <1>6, <1>9, <1>10, <1>m DEF At
  <2>3. client'[c] = "declared" /\ call'[c]["main"].op = "none"
    BY <1>6, <1>9, <1>10
  <2> QED BY <1>12, <2>1, <2>2, <2>3 DEF RowOK
<1>b. RecoveryOK(c)'
  <2>1. call[c]["recovery"].at # "idle" => /\ ~HoldsLease(c, call[c]["recovery"].lease)
                                          /\ call[c]["recovery"].lease # row[c].lease
    BY <1>1 DEF ClaimOK, RecoveryOK, HoldsLease
  <2> QED BY <1>10, <2>1 DEF ClaimOK, RecoveryOK, HoldsLease
<1>c. ASSUME NEW k \in Kind PROVE CallOK(c, k)'
  <2>1. CASE k = "main"
    <3>1. CallOK(c, "main")
      BY Kinds DEF ClaimOK
    <3> QED BY <1>8, <1>9, <1>10, <2>1, <3>1, Nulls
           DEF CallOK, Known, Declared, Prepared, Grows, LeasesGrow, NoPub
  <2>2. CASE k # "main"
    BY <1>8, <1>10, <1>c, <2>2
       DEF ClaimOK, CallOK, Known, Declared, Prepared, Grows, LeasesGrow
  <2> QED BY <2>1, <2>2
<1>d. ASSUME NEW k \in {"main", "beat"} PROVE CopyOK(c, k)'
  <2>1. CallOK(c, k) /\ CopyOK(c, k)
    BY DEF ClaimOK, Kind
  <2>2. HoldsLease(c, call[c][k].lease)' => HoldsLease(c, call[c][k].lease)
    BY <1>8, <1>10, <2>1 DEF HoldsLease, CallOK, Known, Grows, LeasesGrow, ClaimOK, RowOK
  <2>3. Prepared(call[c][k].cp.pub) => call[c][k].cp.pub.from \in made
    BY <2>1 DEF CallOK, Declared, Prepared, NoPub
  <2> QED BY <1>1, <1>3, <1>10, <2>1, <2>2, <2>3 DEF CopyOK, At, Prepared
<1>e. ClaimOK(c)' /\ Declares(c)
  BY <1>10, <1>a, <1>b, <1>c, <1>d DEF ClaimOK, Declares
<1>f. Handles(c, "main", NoCall)
  BY <1>1, <1>9, Kinds DEF Handles, Typed, TypeOK
<1> QED BY <1>7, <1>e, <1>f, NoCallIdle, Kinds, Leaves

\* In a phase that publishes reports no commit is ever declared.
LEMMA NothingDeclared ==
    ASSUME NEW p, Declared(p), phase \in ReportPhases
    PROVE  p = NoPub /\ ~Prepared(p) /\ p.status = "none"
BY DEF Declared, ReportPhases, CodePhases, NoPub, Prepared

LEMMA Reported ==
    ASSUME Typed, LeasesGrow, NEW c \in Claim, ClaimOK(c), phase \in ReportPhases, Grows,
           row[c] # NoRow \/ row'[c] = row[c],
           row'[c].status = row[c].status, row'[c].lease = row[c].lease,
           row[c] # NoRow => row'[c].sha \in made', row'[c].cp.pub = NoPub,
           client'[c] = client[c], held'[c] = held[c],
           NEW n, Handles(c, "main", n),
           \/ n = NoCall
           \/ /\ n.at = "move" /\ n.new \in made' /\ n.lease = call[c]["main"].lease
              /\ n.sha = call[c]["main"].sha /\ n.cp = call[c]["main"].cp
              /\ call[c]["main"].at # "idle" /\ n.op = call[c]["main"].op
    PROVE  ClaimOK(c)'
<1> USE DEF Grows, LeasesGrow
<1>1. /\ NoCall.at = "idle" /\ NoCall.op = "none" /\ NoCall.lease = NoLease
      /\ NoCall.cp.pub = NoPub /\ NoPub.status = "none"
  BY DEF NoCall, Request, NoCp, NoPub
<1>2. \A k \in Kind : CallOK(c, k) /\ (k # "main" => call'[c][k] = call[c][k])
  BY DEF ClaimOK, Handles
<1>3. call'[c]["main"] = n /\ ~At(c, "main", "claim")'
  BY <1>1 DEF Handles, At
<1>4. \A k \in Kind : call[c][k].cp.pub = NoPub
  BY <1>2, NothingDeclared DEF CallOK
<1>5. \A k \in Kind : call'[c][k].cp.pub = NoPub
  BY <1>1, <1>2, <1>3, <1>4
<1>6. RowOK(c)'
  BY <1>1, <1>3 DEF ClaimOK, RowOK, Known, Declared, Prepared
<1>7. RecoveryOK(c)'
  BY <1>1, <1>2, <1>3, <1>5, Kinds DEF ClaimOK, RecoveryOK
<1>8. ASSUME NEW k \in Kind PROVE CallOK(c, k)'
  <2>0. /\ CallOK(c, k) /\ CallOK(c, "main") /\ call'[c][k].cp.pub = NoPub
        /\ Declared(NoPub) /\ ~Prepared(NoPub)
    BY <1>1, <1>2, <1>5, Kinds DEF Declared, Prepared
  <2>1. CASE k = "main" /\ n = NoCall
    BY <1>1, <1>3, <2>0, <2>1 DEF CallOK, Known, Declared, Prepared
  <2>2. CASE k = "main" /\ n # NoCall
    BY <1>3, <2>0, <2>2 DEF CallOK, Known, Declared, Prepared
  <2>3. CASE k # "main"
    <3>1. call'[c][k] = call[c][k]
      BY <1>2, <2>3
    <3> QED BY <1>1, <2>0, <2>3, <3>1 DEF CallOK, Known, Declared, Prepared
  <2> QED BY <2>1, <2>2, <2>3
<1>9. ASSUME NEW k \in {"main", "beat"} PROVE CopyOK(c, k)'
  BY <1>1, <1>5 DEF CopyOK, Prepared, Kind
<1> QED BY <1>6, <1>7, <1>8, <1>9 DEF ClaimOK

LEMMA ReportsCommitOutcome ==
    ASSUME Typed, LeasesGrow, NEW c \in Claim, ClaimOK(c), NEW to \in Sha, ReportsCommit(c, to)
    PROVE  Outcome(c)
<1> DEFINE m == call[c]["main"]
           n == [m EXCEPT !.at = "move", !.new = to]
<1>1. m \in Calls /\ m.at = "commit" /\ CallOK(c, "main")
  BY CallTypes, Kinds DEF ClaimOK, ReportsCommit, At
<1>2. phase \in ReportPhases
  BY <1>1 DEF CallOK
<1>3. /\ n \in Calls /\ n.at = "move" /\ n.new = to /\ n.lease = m.lease /\ n.sha = m.sha
      /\ n.cp = m.cp /\ n.op = m.op
  BY <1>1 DEF Calls
<1>4. Handles(c, "main", n)
  BY <1>3, Kinds, Handled DEF ReportsCommit, Typed
<1> HIDE DEF n
<1>5. /\ head' = to /\ made' = made \cup {to}
      /\ UNCHANGED <<own, route, evidence, row, worker>>
  BY DEF ReportsCommit
<1>6. Tidy(c)
  BY <1>5 DEF Typed, TypeOK, Tidy, States, evidence, worker
<1>7. Grows
  BY <1>6 DEF Grows, Tidy
<1>8. row[c].cp.pub = NoPub
  BY <1>2, NothingDeclared DEF ClaimOK, RowOK
<1>9. row[c] # NoRow => row'[c].sha \in made'
  BY <1>5 DEF ClaimOK, RowOK
<1>10. ClaimOK(c)'
  BY <1>1, <1>2, <1>3, <1>4, <1>5, <1>7, <1>8, <1>9, Reported DEF worker
<1>11. Declares(c)
  BY <1>5 DEF Declares
<1> QED BY <1>3, <1>4, <1>6, <1>10, <1>11, Kinds, Leaves


LEMMA ReportsMoveOutcome ==
    ASSUME Typed, LeasesGrow, NEW c \in Claim, ClaimOK(c), ReportsMove(c)
    PROVE  Outcome(c)
<1> DEFINE m == call[c]["main"]
           Rebound == /\ row' \in [Claim -> Rows] /\ \A d \in Claim \ {c} : row'[d] = row[d]
                      /\ row'[c].status = row[c].status /\ row'[c].lease = row[c].lease
                      /\ row'[c].sha \in {row[c].sha, m.new} /\ row'[c].cp.pub = NoPub
<1>1. m.at = "move" /\ m.cp \in Checkpoints /\ CallOK(c, "main") /\ made \subseteq Sha
  BY CallTypes, Kinds DEF ClaimOK, ReportsMove, At, Typed, TypeOK
<1>2. phase \in ReportPhases /\ m.new \in made /\ m.new \in Sha
  BY <1>1 DEF CallOK
<1>3. Ends(c, "main") /\ UNCHANGED <<pull, evidence, worker>> /\ HoldsLease(c, m.lease)
  BY DEF ReportsMove, Owned
<1>4. row[c] # NoRow
  BY <1>3 DEF HoldsLease, NoRow
<1>5. row[c].cp.pub = NoPub /\ m.cp.pub = NoPub
  BY <1>1, <1>2, NothingDeclared DEF ClaimOK, RowOK, CallOK
<1>6. Rebound
  <2>1. CASE Saves(c, m.lease, [m.cp EXCEPT !.rep = "kept"])
    <3> DEFINE cp == [m.cp EXCEPT !.rep = "kept"]
               r == [row[c] EXCEPT !.cp = cp]
    <3>1. cp \in Checkpoints /\ cp.pub = m.cp.pub
      BY <1>1 DEF Checkpoints
    <3>2. Saves(c, m.lease, cp)
      BY <2>1
    <3> HIDE DEF cp
    <3>3. /\ Records(c, r) /\ r.status = row[c].status /\ r.lease = row[c].lease
          /\ r.sha = row[c].sha /\ r.cp = cp
      BY <3>1, <3>2, Saved DEF Typed
    <3> HIDE DEF r
    <3> QED BY <1>5, <3>1, <3>3 DEF Records
  <2>2. ASSUME NEW cp, cp = [m.cp EXCEPT !.rep = "moved", !.adv = "none",
                                   !.advBy = NoLease, !.rec = "none"],
               MovesHead(c, m.lease, m.sha, m.new, cp)
        PROVE  Rebound
    <3> DEFINE r == [row[c] EXCEPT !.sha = m.new, !.cp = cp]
    <3>1. cp \in Checkpoints /\ cp.pub = m.cp.pub
      BY <1>1, <2>2 DEF Checkpoints
    <3>2. CASE row' = [row EXCEPT ![c].sha = m.new, ![c].cp = cp]
      <4>1. /\ Records(c, r) /\ r.status = row[c].status /\ r.lease = row[c].lease
            /\ r.sha = m.new /\ r.cp = cp
        BY <1>2, <3>1, <3>2, Moved, ZenonT(40) DEF Typed
      <4> HIDE DEF r
      <4> QED BY <1>5, <3>1, <4>1 DEF Records
    <3>3. CASE UNCHANGED row
      BY <1>5, <3>3 DEF Typed, TypeOK
    <3> QED BY <2>2, <3>2, <3>3 DEF MovesHead
  <2> QED BY <2>1, <2>2 DEF ReportsMove
<1>7. Tidy(c)
  BY <1>3, <1>6 DEF Typed, TypeOK, Tidy, States, pull, evidence, worker
<1>8. Grows
  BY <1>7 DEF Grows, Tidy
<1>9. Handles(c, "main", NoCall)
  BY <1>3, Kinds, Ended DEF Typed
<1>10. row'[c].sha \in made'
  BY <1>2, <1>4, <1>6, <1>8 DEF ClaimOK, RowOK, Grows
<1>11. ClaimOK(c)'
  BY <1>2, <1>3, <1>4, <1>6, <1>8, <1>9, <1>10, Reported DEF worker
<1>12. Declares(c)
  BY <1>6 DEF Declares
<1> QED BY <1>7, <1>9, <1>11, <1>12, NoCallIdle, Kinds, Leaves

-----------------------------------------------------------------------------
(* New leases *)

LEMMA Fresh ==
    ASSUME Typed, NEW l \in Lease, Own!Issue(l)
    PROVE  ~Known(l) /\ Known(l)' /\ l # NoLease
BY NullAssumption DEF Own!Issue, Known

LEMMA AcquireClaimOutcome ==
    ASSUME Typed, LeasesGrow, NEW c \in Claim, ClaimOK(c), NEW l \in Lease, AcquireClaim(c, l)
    PROVE  Outcome(c)
<1> DEFINE m == call[c]["main"]
           n == [m EXCEPT !.at = "recheck", !.lease = l]
           r == [status |-> "running", lease |-> l, sha |-> m.sha, cp |-> NoCp]
<1>1. m \in Calls /\ m.at = "claim" /\ CallOK(c, "main") /\ m.sha \in made /\ m.sha \in Sha
  BY CallTypes, Kinds DEF ClaimOK, CallOK, AcquireClaim, At, Typed, TypeOK
<1>2. ~Known(l) /\ Known(l)' /\ l # NoLease
  BY Fresh DEF AcquireClaim
<1>3. /\ n \in Calls /\ n.at = "recheck" /\ n.lease = l /\ n.sha = m.sha /\ n.cp = m.cp
      /\ n.op = m.op
  BY <1>1 DEF Calls
<1>4. call' = [call EXCEPT ![c]["main"] = n]
  BY Kinds DEF AcquireClaim, Typed, TypeOK
<1>5. Handles(c, "main", n)
  BY <1>3, <1>4, Kinds, Handled DEF Typed
<1> HIDE DEF n
<1>6. r \in Rows /\ r.lease = l /\ r.sha = m.sha /\ r.cp = NoCp
  BY <1>1, Nulls DEF Rows
<1>7. row' = [row EXCEPT ![c] = r]
  BY DEF AcquireClaim
<1> HIDE DEF r
<1>8. row' \in [Claim -> Rows] /\ row'[c] = r /\ \A d \in Claim \ {c} : row'[d] = row[d]
  BY <1>6, <1>7 DEF Typed, TypeOK
<1>9. UNCHANGED <<pull, evidence, worker>>
  BY DEF AcquireClaim
<1>10. Tidy(c)
  BY <1>8, <1>9 DEF Typed, TypeOK, Tidy, States, pull, evidence, worker
<1>11. Grows
  BY <1>10 DEF Grows, Tidy
<1>12. /\ call'[c]["main"] = n /\ \A k \in Kind : k # "main" => call'[c][k] = call[c][k]
       /\ held'[c] = held[c] /\ client'[c] = client[c]
  BY <1>5, <1>9 DEF Handles, worker
<1>13. row'[c].cp.pub = NoPub /\ NoPub.status = "none" /\ ~Prepared(NoPub)
  BY <1>6, <1>8, Nulls DEF NoPub, Prepared
<1>o. row[c] = NoRow /\ NoRow.sha = NoSha /\ client[c] # "new" /\ Known(held[c])
  BY <1>1 DEF ClaimOK, RowOK, At, NoRow
<1>a. RowOK(c)'
  BY <1>1, <1>2, <1>3, <1>6, <1>8, <1>11, <1>12, <1>13, <1>o
     DEF RowOK, Known, Declared, Prepared, At, Grows, LeasesGrow
<1>b. RecoveryOK(c)'
  <2>1. CallOK(c, "recovery")
    BY Kinds DEF ClaimOK
  <2> QED BY <1>2, <1>3, <1>6, <1>8, <1>12, <2>1, Kinds
         DEF ClaimOK, RecoveryOK, CallOK, HoldsLease
<1>c. ASSUME NEW k \in Kind PROVE CallOK(c, k)'
  <2>1. CASE k = "main"
    BY <1>1, <1>2, <1>3, <1>11, <1>12, <1>13, <2>1
       DEF CallOK, Known, Declared, Prepared, Grows, LeasesGrow
  <2>2. CASE k # "main"
    BY <1>c, <1>11, <1>12, <2>2
       DEF ClaimOK, CallOK, Known, Declared, Prepared, Grows, LeasesGrow
  <2> QED BY <2>1, <2>2
<1>d. ASSUME NEW k \in {"main", "beat"} PROVE CopyOK(c, k)'
  <2>1. CASE k = "main"
    BY <1>3, <1>12, <2>1 DEF CopyOK, At
  <2>2. CASE k = "beat"
    <3>1. CallOK(c, "beat") /\ call'[c]["beat"] = call[c]["beat"]
      BY <1>12, Kinds DEF ClaimOK
    <3> QED BY <1>2, <1>6, <1>8, <2>2, <3>1 DEF CopyOK, CallOK, HoldsLease
  <2> QED BY <2>1, <2>2
<1>e. ClaimOK(c)' /\ Declares(c)
  BY <1>a, <1>b, <1>c, <1>d, <1>o DEF ClaimOK, Declares
<1> QED BY <1>3, <1>5, <1>10, <1>e, Kinds, Leaves

LEMMA ReclaimOutcome ==
    ASSUME Typed, LeasesGrow, NEW c \in Claim, ClaimOK(c), NEW l \in Lease, Reclaim(c, l)
    PROVE  Outcome(c)
<1> DEFINE r == [row[c] EXCEPT !.lease = l]
<1>n. PICK n : n = Request("recovery", "claim", l, row[c].sha, row[c].cp)
  OBVIOUS
<1>1. ~Known(l) /\ Known(l)' /\ l # NoLease
  BY Fresh DEF Reclaim
<1>0. /\ TypeOK /\ l \in Lease \cup {NoLease} /\ "recovery" \in Kind
      /\ "recovery" \in {"start", "heartbeat", "confirm", "advance", "recovery"}
      /\ "claim" \in {"plan", "refresh", "check", "claim"}
      /\ Begins(c, "recovery", "recovery", "claim", l)
  BY Kinds DEF Reclaim, Typed
<1>2. /\ Handles(c, "recovery", n) /\ n \in Calls /\ n.op = "recovery" /\ n.at = "claim"
      /\ n.lease = l /\ n.sha = row[c].sha /\ n.cp = row[c].cp
  BY <1>n, <1>0, Began
<1>3. r \in Rows /\ r.lease = l /\ r.sha = row[c].sha /\ r.cp = row[c].cp /\ r.status = "running"
  BY DEF Reclaim, Typed, TypeOK, Rows
<1>4. row' = [row EXCEPT ![c] = r]
  BY DEF Reclaim, Typed, TypeOK
<1> HIDE DEF r
<1>5. row' \in [Claim -> Rows] /\ row'[c] = r /\ \A d \in Claim \ {c} : row'[d] = row[d]
  BY <1>3, <1>4 DEF Typed, TypeOK
<1>6. UNCHANGED <<pull, evidence, worker>>
  BY DEF Reclaim
<1>7. Tidy(c)
  BY <1>5, <1>6 DEF Typed, TypeOK, Tidy, States, pull, evidence, worker
<1>8. Grows
  BY <1>7 DEF Grows, Tidy
<1>9. /\ call'[c]["recovery"] = n
      /\ \A k \in Kind : k # "recovery" => call'[c][k] = call[c][k]
      /\ held'[c] = held[c] /\ client'[c] = client[c]
  BY <1>2, <1>6 DEF Handles, worker
<1>10. row[c] # NoRow /\ row[c].sha \in made /\ Declared(row[c].cp.pub) /\ Known(held[c])
  <2>1. row[c] # NoRow
    BY DEF Reclaim, NoRow
  <2> QED BY <2>1 DEF ClaimOK, RowOK
<1>a. RowOK(c)'
  BY <1>1, <1>3, <1>5, <1>8, <1>9, <1>10, Kinds
     DEF ClaimOK, RowOK, Known, Declared, Prepared, At, Grows, LeasesGrow
<1>b. RecoveryOK(c)'
  <2>1. Known(call[c]["main"].lease) /\ Known(call[c]["beat"].lease)
    BY Kinds DEF ClaimOK, CallOK
  <2> QED BY <1>1, <1>2, <1>3, <1>5, <1>9, <1>10, <2>1, Kinds DEF RecoveryOK
<1>c. ASSUME NEW k \in Kind PROVE CallOK(c, k)'
  <2>1. CASE k = "recovery"
    BY <1>1, <1>2, <1>8, <1>9, <1>10, <2>1
       DEF CallOK, Known, Declared, Prepared, Grows, LeasesGrow
  <2>2. CASE k # "recovery"
    <3>1. CallOK(c, k) /\ call'[c][k] = call[c][k] /\ row'[c].cp.pub = row[c].cp.pub
      BY <1>3, <1>5, <1>9, <2>2 DEF ClaimOK
    <3> QED BY <1>8, <3>1 DEF CallOK, Known, Declared, Prepared, Grows, LeasesGrow
  <2> QED BY <2>1, <2>2
<1>d. ASSUME NEW k \in {"main", "beat"} PROVE CopyOK(c, k)'
  <2>1. CallOK(c, k) /\ call'[c][k] = call[c][k]
    BY <1>9 DEF ClaimOK, Kind
  <2> QED BY <1>1, <1>3, <1>5, <2>1 DEF CopyOK, CallOK, HoldsLease
<1>e. ClaimOK(c)' /\ Declares(c)
  BY <1>3, <1>5, <1>a, <1>b, <1>c, <1>d DEF ClaimOK, Declares
<1> QED BY <1>2, <1>7, <1>e, Kinds, Leaves


-----------------------------------------------------------------------------
(* The whole service *)

LEMMA WorkOutcome ==
    ASSUME Typed, LeasesGrow, NEW c \in Claim, ClaimOK(c), Work(c)
    PROVE  Outcome(c)
<1>1. CASE AcquireRead(c)
  BY <1>1, AcquireReadOutcome
<1>2. CASE StartBegin(c)
  BY <1>2, StartBeginOutcome
<1>3. CASE HeartbeatBegin(c) \/ ConfirmBegin(c) \/ AdvanceBegin(c)
  BY <1>3, OtherBeginsOutcome
<1>4. ASSUME NEW to \in Sha, PrepareHead(c, to) PROVE Outcome(c)
  BY <1>4, PrepareHeadOutcome
<1>5. CASE Push(c)
  BY <1>5, PushOutcome
<1>6. CASE ReportsBegin(c)
  BY <1>6, ReportsBeginOutcome
<1>7. ASSUME NEW r \in {"passed", "failed"}, PostResult(c, r) PROVE Outcome(c)
  BY <1>7, PostResultOutcome
<1>8. ASSUME NEW to \in Route, Decide(c, to) PROVE Outcome(c)
  BY <1>8, DecideOutcome
<1>9. CASE Release(c)
  BY <1>9, ReleaseOutcome
<1>10. CASE WorkerStops(c)
  BY <1>10, WorkerStopsOutcome
<1> QED BY <1>1, <1>2, <1>3, <1>4, <1>5, <1>6, <1>7, <1>8, <1>9, <1>10 DEF Work

LEMMA HandlerOutcome ==
    ASSUME Typed, LeasesGrow, NEW c \in Claim, ClaimOK(c), NEW kind \in Kind,
           Step(c, kind) \/ Abort(c, kind)
    PROVE  Outcome(c)
<1>1. CASE WriteVerify(c, kind)
  BY <1>1, WriteVerifyOutcome
<1>2. CASE Put(c, kind)
  BY <1>2, PutOutcome
<1>3. CASE RefreshHead(c, kind)
  BY <1>3, RefreshHeadOutcome
<1>4. ASSUME NEW l \in Lease, AcquireClaim(c, l) PROVE Outcome(c)
  BY <1>4, AcquireClaimOutcome
<1>5. CASE AcquireRecheck(c)
  BY <1>5, AcquireRecheckOutcome
<1>6. CASE StartPlan(c)
  BY <1>6, StartPlanOutcome
<1>7. CASE StartDone(c)
  BY <1>7, StartDoneOutcome
<1>8. CASE ConfirmDone(c)
  BY <1>8, ConfirmDoneOutcome
<1>9. ASSUME NEW to \in Sha, ReportsCommit(c, to) PROVE Outcome(c)
  BY <1>9, ReportsCommitOutcome
<1>10. CASE ReportsMove(c)
  BY <1>10, ReportsMoveOutcome
<1>11. CASE AdvancePlan(c)
  BY <1>11, AdvancePlanOutcome
<1>12. CASE AdvanceDone(c) \/ DecisionDone(c)
  BY <1>12, DoneOutcome
<1>13. CASE HeartbeatCheck(c)
  BY <1>13, HeartbeatCheckOutcome
<1>14. CASE RecoverClaim(c) \/ RecoverBoard(c)
  BY <1>14, RecoverClaimOutcome
<1>15. CASE RecoverMismatch(c) \/ RecoverForeign(c) \/ RecoverDone(c)
  BY <1>15, GivesUpOutcome DEF RecoverMismatch, RecoverForeign, RecoverDone
<1>16. CASE RecoverPlan(c)
  BY <1>16, RecoverPlanOutcome
<1>17. CASE Abort(c, kind)
  BY <1>17, AbortOutcome
<1> QED BY <1>1, <1>2, <1>3, <1>4, <1>5, <1>6, <1>7, <1>8, <1>9, <1>10, <1>11, <1>12, <1>13,
           <1>14, <1>15, <1>16, <1>17 DEF Step

\* A step that no claim takes part in.
LEMMA ElsewhereTyped ==
    ASSUME Typed, LeasesGrow, UNCHANGED <<row, worker, call, phase, route, result>>,
           head' \in made', made' \subseteq Sha, ci' \subseteq made'
    PROVE  Typed'
BY DEF Typed, TypeOK, LeasesGrow, Writes, worker

LEMMA Elsewhere ==
    ASSUME Typed, \/ \E l \in Lease : Expire(l)
                  \/ CIPasses
                  \/ \E to \in Sha : OwnerPush(to)
                  \/ UNCHANGED vars
    PROVE  /\ UNCHANGED <<row, worker, call, phase, route, result>>
           /\ made \subseteq made' /\ head' \in made' /\ made' \subseteq Sha /\ ci' \subseteq made'
<1> USE DEF Typed, TypeOK, pull, evidence, worker
<1>1. ASSUME NEW l \in Lease, Expire(l)
      PROVE  /\ UNCHANGED <<row, worker, call, phase, route, result>>
             /\ made' = made /\ head' = head /\ ci' = ci
  BY <1>1 DEF Expire
<1>2. CASE CIPasses
  BY <1>2 DEF CIPasses
<1>3. ASSUME NEW to \in Sha, OwnerPush(to)
      PROVE  /\ UNCHANGED <<row, worker, call, phase, route, result>>
             /\ made' = made \cup {to} /\ head' = to /\ ci' = ci
  BY <1>3 DEF OwnerPush
<1>4. CASE UNCHANGED vars
  BY <1>4 DEF vars
<1> QED BY <1>1, <1>2, <1>3, <1>4

LEMMA InitInv == Init => IInv
<1> SUFFICES ASSUME Init PROVE IInv
  OBVIOUS
<1> USE NullAssumption DEF Init
<1>1. /\ \A c \in Claim : row[c] = NoRow /\ client[c] = "new" /\ held[c] = NoLease
      /\ \A c \in Claim, kind \in Kind : call[c][kind] = NoCall
  OBVIOUS
<1>2. TypeOK
  BY <1>1, Nulls DEF TypeOK, Own!Init, Route, Result
<1>3. ASSUME NEW c \in Claim PROVE ClaimOK(c)
  <2>1. /\ NoRow.lease = NoLease /\ NoRow.cp.pub = NoPub /\ NoPub.status = "none"
        /\ NoCall.at = "idle" /\ NoCall.lease = NoLease /\ NoCall.op = "none"
        /\ NoCall.cp.pub = NoPub
    BY DEF NoRow, NoCp, NoPub, NoCall, Request
  <2>2. RowOK(c)
    BY <1>1, <2>1, Kinds DEF RowOK, Known, Declared, Prepared, At
  <2>3. RecoveryOK(c)
    BY <1>1, <2>1, Kinds DEF RecoveryOK
  <2>4. \A kind \in Kind : CallOK(c, kind)
    BY <1>1, <2>1 DEF CallOK, Known, Declared, Prepared
  <2>5. \A kind \in {"main", "beat"} : CopyOK(c, kind)
    BY <1>1, <2>1, Kinds DEF CopyOK, At
  <2> QED BY <2>2, <2>3, <2>4, <2>5 DEF ClaimOK
<1>4. \A c \in Claim, kind \in Kind : Writes(call[c][kind])
  BY <1>1, NoCallIdle DEF Writes
<1> QED BY <1>2, <1>3, <1>4 DEF IInv, Typed

LEMMA NextInv == IInv /\ [Next]_vars => IInv' /\ \A c \in Claim : Declares(c)
<1> SUFFICES ASSUME IInv, [Next]_vars PROVE IInv' /\ \A c \in Claim : Declares(c)
  OBVIOUS
<1>1. Typed /\ \A c \in Claim : ClaimOK(c)
  BY DEF IInv
<1>2. LeasesGrow
  BY <1>1, OwnStep, LeasesStep
<1>3. ASSUME NEW c \in Claim, Outcome(c)
      PROVE  IInv' /\ \A d \in Claim : Declares(d)
  <2>1. ASSUME NEW d \in Claim PROVE ClaimOK(d)' /\ Declares(d)
    <3>1. CASE d = c
      BY <1>3, <3>1 DEF Outcome
    <3>2. CASE d # c
      <4>1. Untouched(d) /\ Grows
        BY <1>2, <1>3, <3>2 DEF Outcome, Grows
      <4>2. ClaimOK(d)'
        BY <1>1, <4>1, Frame
      <4> QED BY <4>1, <4>2 DEF Untouched, Declares
    <3> QED BY <3>1, <3>2
  <2> QED BY <1>3, <2>1 DEF Outcome, IInv
<1>4. ASSUME NEW c \in Claim, Work(c) PROVE Outcome(c)
  BY <1>1, <1>2, <1>4, WorkOutcome
<1>5. ASSUME NEW c \in Claim, NEW kind \in Kind, Step(c, kind) \/ Abort(c, kind)
      PROVE  Outcome(c)
  BY <1>1, <1>2, <1>5, HandlerOutcome
<1>6. ASSUME NEW c \in Claim, NEW l \in Lease, Reclaim(c, l) PROVE Outcome(c)
  BY <1>1, <1>2, <1>6, ReclaimOutcome
<1>7. CASE \/ \E l \in Lease : Expire(l)
           \/ CIPasses
           \/ \E to \in Sha : OwnerPush(to)
           \/ UNCHANGED vars
  <2>1. /\ UNCHANGED <<row, worker, call, phase, route, result>>
        /\ made \subseteq made' /\ head' \in made' /\ made' \subseteq Sha /\ ci' \subseteq made'
    BY <1>1, <1>7, Elsewhere
  <2>2. Typed'
    BY <1>1, <1>2, <2>1, ElsewhereTyped
  <2>3. ASSUME NEW d \in Claim PROVE ClaimOK(d)' /\ Declares(d)
    <3>1. Untouched(d) /\ Grows
      BY <1>2, <2>1 DEF Untouched, Grows, worker
    <3>2. ClaimOK(d)'
      BY <1>1, <3>1, Frame
    <3> QED BY <3>1, <3>2 DEF Untouched, Declares
  <2> QED BY <2>2, <2>3 DEF IInv
<1> QED BY <1>3, <1>4, <1>5, <1>6, <1>7 DEF Next

\* Type correctness: rows, checkpoints and handlers keep the shapes that the service's
\* tables and copies have, HEAD is a commit that exists, and green CI is about such commits.
THEOREM TypeCorrect == Spec => []TypeOK
<1>1. Init => IInv
  BY InitInv
<1>2. IInv /\ [Next]_vars => IInv'
  BY NextInv
<1>3. IInv => TypeOK
  BY DEF IInv, Typed
<1> QED BY <1>1, <1>2, <1>3, PTL DEF Spec

\* Whatever the handlers, the workers, the reconciler and the clock do, they use the store
\* only as the lock it promises to be: a key has one owner, changes hands only when nobody
\* owns it, and a lease that ended never owns again.  The tables of LeaseStore implement
\* the same lock.
THEOREM UsesOwnership == Spec => Own!Spec
<1>1. Init => IInv /\ Own!Init
  BY InitInv DEF Init
<1>2. IInv /\ [Next]_vars => IInv'
  BY NextInv
<1>3. IInv /\ [Next]_vars => [Own!Next]_(Own!vars)
  BY OwnStep DEF own, Own!vars
<1> QED BY <1>1, <1>2, <1>3, PTL DEF Spec, Own!Spec

\* No push that nobody declared is ever taken for the work of a claim: a claim's SHA changes
\* only to the commit that was declared for it before, or that the service made for it.
THEOREM DeclaredHeadsOnly == Spec => OnlyDeclaredHeads
<1>1. Init => IInv
  BY InitInv
<1>2. IInv /\ [Next]_vars => IInv'
  BY NextInv
<1>3. IInv /\ [Next]_vars
         => [\A c \in Claim : row[c].sha \notin {NoSha, row'[c].sha} =>
                row'[c].sha \in {row[c].cp.pub.to, call[c]["main"].new}]_vars
  BY NextInv DEF Declares
<1> QED BY <1>1, <1>2, <1>3, PTL DEF Spec, OnlyDeclaredHeads

-----------------------------------------------------------------------------
(***************************************************************************)
(* 2. The route.  The pull request leaves the phase forwards only on       *)
(* evidence for its HEAD, the phase ends once, completed work is not sent  *)
(* back, and nobody takes the pull request from under a worker that was    *)
(* told to execute.                                                        *)
(*                                                                         *)
(* The argument is that a lease which owns HEAD's key excludes every other *)
(* write: of the handlers whose write is in flight, the workers about to   *)
(* push and the report commits being recorded there is one at a time, and  *)
(* its lease outlives it.                                                  *)
(***************************************************************************)

\* The environment in which that holds, for any Attended and EarlyRelease.
Favourable == /\ Timely
              /\ ~OwnerPushes
              /\ QuietPublication \/ Phases \cap (CodePhases \cup ReportPhases) = {}

-----------------------------------------------------------------------------
(* The invariant *)

Uses(c) == {row[c].lease, held[c], call[c]["main"].lease, call[c]["beat"].lease,
            call[c]["recovery"].lease} \ {NoLease}

\* A lease is of one claim.  A worker whose lease is in force owns what its claim is bound
\* to, and its requests present that lease.
LeaseOK(c) ==
    /\ \A d \in Claim \ {c} : Uses(c) \cap Uses(d) = {}
    /\ held[c] \in inForce => Owned(c, held[c])
    /\ call[c]["beat"].lease \in {NoLease, held[c]}
    /\ IF At(c, "main", "recheck")
       THEN /\ held[c] = NoLease
            /\ call[c]["main"].lease \in inForce => Owned(c, call[c]["main"].lease)
       ELSE call[c]["main"].lease \in {NoLease, held[c]}

\* A recovery holds its claim, and soon the keys that its writes need.
RecoveryHolds(c) ==
    LET m == call[c]["recovery"] IN
    m.at # "idle" =>
        /\ m.op = "recovery" /\ HoldsLease(c, m.lease)
        /\ m.sha = row[c].sha /\ m.cp = row[c].cp
        /\ m.at # "claim" => owner[m.sha] = m.lease
        /\ m.at \notin {"claim", "board"} => owner[Projection] = m.lease

\* What a checkpoint records of the end of the phase was earned by the commit it is about.
Evidence(cp, sha) ==
    /\ cp.adv \in {"none", "next", "review-again"}
    /\ cp.adv = "next" => Verified(sha)
    /\ cp.adv = "review-again" => QAHeadChanged(cp) /\ sha \in ci
    /\ cp.rep = "moved" => sha # Base /\ phase \in ReportPhases
    /\ cp.rec \in {"none", "todo", "next"}
    /\ cp.rec = "next" => Verified(sha)

RowEvidence(c) == Evidence(row[c].cp, row[c].sha)
CallEvidence(c, kind) ==
    ~Idle(c, kind) => Evidence(call[c][kind].cp, call[c][kind].sha)

\* A request of a worker that still has its lease has what the row has.
MainOK(c) ==
    LET m == call[c]["main"] IN
    /\ client[c] = "new" => held[c] = NoLease /\ m.at = "idle"
    /\ m.at \in {"claim", "recheck"} => /\ m.op = "acquire" /\ held[c] = NoLease
                                       /\ client[c] \in {"asking", "gone"}
    /\ m.op = "start" => client[c] \in {"starting", "gone"}
    /\ m.at \in {"plan", "verify", "put", "done"} => m.op \in {"start", "advance", "decision"}
    /\ m.at \in {"commit", "move"} <=> m.op = "reports"
    /\ m.op \in {"start", "advance", "decision", "reports"} /\ HoldsLease(c, m.lease)
           => m.sha = row[c].sha /\ m.cp = row[c].cp

\* A route that is about to be written was earned.
WriteOK(c, kind) ==
    LET m == call[c][kind] IN
    m.at \in {"verify", "put"} =>
        /\ kind # "beat"
        /\ m.seen \in {"todo", "running"} \/ (m.at = "verify" /\ m.seen = m.to)
        /\ m.to = "next" => Verified(m.sha)
        /\ m.to = "review-again" => m.sha \in ci
        /\ m.to = "running" => m.op = "start"
        /\ m.to = "todo" => m.op = "decision" \/ (kind = "recovery" /\ result[m.sha] = "none")
        /\ m.op = "advance" => m.cp.adv = m.to
        /\ m.op = "decision" => m.cp.dec
        /\ m.op = "recovery" => kind = "recovery"

\* A write in flight has everything its last check found.
Landing(c, kind) ==
    LET m == call[c][kind] IN
    m.at = "put" => /\ Owned(c, m.lease) /\ owner[Projection] = m.lease
                    /\ m.sha = row[c].sha /\ m.sha = head
                    /\ route = m.seen

\* A worker about to push has the pull request for itself.
Declaring(c) ==
    client[c] = "declared" =>
        /\ Prepared(row[c].cp.pub)
        /\ Owned(c, held[c]) /\ head = row[c].sha /\ route = "running"
        /\ Idle(c, "main") /\ Idle(c, "beat")

\* The claim is not bound to the commit, nor about to be.
NotAt(c, sha) == row[c].sha # sha /\ (At(c, "main", "claim") => call[c]["main"].sha # sha)

\* A declared commit is of one claim, and RUNNING while it is HEAD and not followed yet.
PubOK(c) ==
    LET p == row[c].cp.pub IN
    Prepared(p) =>
        /\ p.from = row[c].sha
        /\ client[c] = "pushed" => head # row[c].sha
        /\ \A d \in Claim \ {c} : Prepared(row[d].cp.pub) => row[d].cp.pub.to # p.to
        /\ row[c].status = "running" =>
               /\ \A d \in Claim \ {c} : NotAt(d, p.to)
               /\ head = p.to => route = "running"

\* Reports being published have the pull request for themselves.
Publishing(c) ==
    LET m == call[c]["main"] IN
    /\ m.op = "reports" => Idle(c, "beat")
    /\ m.at \in {"commit", "move"} =>
           /\ Owned(c, m.lease) /\ route = "running" /\ row[c].cp.adv = "none"
           /\ head = IF m.at = "commit" THEN m.sha ELSE m.new
    /\ m.at = "move" =>
           /\ \A d \in Claim \ {c} : ~At(d, "main", "move")
           /\ m.new # m.sha => m.new # Base /\ \A d \in Claim : NotAt(d, m.new)

\* A heartbeat judges the pull request by the commit the claim is bound to; one that meets
\* a declared commit began after the push of it.
BeatOK(c) ==
    LET m == call[c]["beat"] IN
    /\ m.at \in {"idle", "refresh", "check"}
    /\ m.at = "refresh" => Prepared(m.cp.pub)
    /\ m.at = "check" /\ HoldsLease(c, m.lease) /\ head = row[c].sha => m.sha = row[c].sha
    /\ m.at # "idle" /\ HoldsLease(c, m.lease) /\ Prepared(row[c].cp.pub)
           => m.at = "refresh" /\ m.sha = row[c].sha /\ head # row[c].sha

Undisturbed(c) == Entitled(c) => \/ route = "running" /\ Follows(c)
                                 \/ row[c].cp.adv # "none"
                                 \/ row[c].cp.dec

CallsOK(c, kind) == CallEvidence(c, kind) /\ WriteOK(c, kind) /\ Landing(c, kind)

WorkOK(c) == /\ LeaseOK(c) /\ RecoveryHolds(c) /\ MainOK(c) /\ BeatOK(c)
             /\ RowEvidence(c) /\ \A kind \in Kind : CallsOK(c, kind)
             /\ Declaring(c) /\ PubOK(c) /\ Publishing(c) /\ Undisturbed(c)

RInv == /\ IInv
        /\ Base \in made /\ inForce \cap ended = {}
        /\ AdvancedOnEvidence
        /\ \A c \in Claim : WorkOK(c)

-----------------------------------------------------------------------------
(* What stays *)

\* Evidence is only ever added.
Grown == /\ phase' = phase /\ made \subseteq made' /\ ci \subseteq ci'
         /\ \A s \in Sha : result[s] # "none" => result'[s] = result[s]

LEMMA VerifiedStays ==
    ASSUME Typed, Grown, NEW sha, Verified(sha)
    PROVE  Verified(sha)'
BY DEF Typed, TypeOK, Grown, Verified

LEMMA EvidenceStays ==
    ASSUME Typed, Grown, NEW cp, NEW sha, Evidence(cp, sha)
    PROVE  Evidence(cp, sha)'
<1>1. Verified(sha) => Verified(sha)'
  BY VerifiedStays
<1> QED BY <1>1 DEF Evidence, QAHeadChanged, Grown

\* The leases a claim uses stay in force, and keep the keys they own.
Kept(c) == \A l \in Uses(c) :
               /\ l \in inForce' <=> l \in inForce
               /\ \A k \in Sha \cup {Projection} : owner[k] = l => owner'[k] = l

LEMMA NoNull == Typed => NoLease \notin inForce
BY NullAssumption DEF Typed, TypeOK

LEMMA BoundTo ==
    ASSUME IInv, NEW c \in Claim, NEW l, HoldsLease(c, l)
    PROVE  row[c].sha \in Sha /\ row[c] # NoRow /\ l \in inForce /\ l # NoLease
<1>1. row[c] # NoRow
  BY DEF HoldsLease, NoRow
<1>2. row[c].sha \in made /\ made \subseteq Sha
  BY <1>1 DEF IInv, ClaimOK, RowOK, Typed, TypeOK
<1> QED BY <1>1, <1>2, NoNull DEF IInv, HoldsLease

\* The claim stays what it is bound to and whose it is.
Bound(c) == /\ row'[c].status = row[c].status /\ row'[c].lease = row[c].lease
            /\ row'[c].sha = row[c].sha

\* It then holds what it held.
LEMMA StillHolds ==
    ASSUME IInv, IInv', NEW c \in Claim, Bound(c), Kept(c),
           NEW l \in Uses(c) \cup {NoLease}
    PROVE  /\ HoldsLease(c, l)' <=> HoldsLease(c, l)
           /\ Owned(c, l) => Owned(c, l)'
<1>1. l \in inForce' <=> l \in inForce
  BY NoNull, NullAssumption DEF Kept, IInv, Typed, TypeOK
<1>2. ASSUME HoldsLease(c, l) PROVE owner[row[c].sha] = l => owner'[row[c].sha] = l
  BY <1>2, BoundTo DEF Kept
<1> QED BY <1>1, <1>2 DEF Bound, HoldsLease, Owned

LEMMA Used ==
    ASSUME NEW c \in Claim
    PROVE  /\ row[c].lease \in Uses(c) \cup {NoLease} /\ held[c] \in Uses(c) \cup {NoLease}
           /\ \A kind \in Kind : call[c][kind].lease \in Uses(c) \cup {NoLease}
BY DEF Uses, Kind

LEMMA WriteStays ==
    ASSUME Typed, Grown, NEW c \in Claim, NEW kind \in Kind, call'[c][kind] = call[c][kind],
           WriteOK(c, kind),
           kind = "recovery" /\ call[c][kind].at \in {"verify", "put"}
               => result'[call[c][kind].sha] = result[call[c][kind].sha]
    PROVE  WriteOK(c, kind)'
<1> DEFINE m == call[c][kind]
<1>1. Verified(m.sha) => Verified(m.sha)'
  <2>1. PICK sha : sha = m.sha
    OBVIOUS
  <2>2. Verified(sha) => Verified(sha)'
    BY VerifiedStays
  <2> QED BY <2>1, <2>2 DEF Verified
<1> QED BY <1>1 DEF WriteOK, Grown

LEMMA CallEvidenceStays ==
    ASSUME Typed, Grown, NEW c \in Claim, NEW kind \in Kind, call'[c][kind] = call[c][kind],
           CallEvidence(c, kind)
    PROVE  CallEvidence(c, kind)'
<1>1. PICK cp, sha : cp = call[c][kind].cp /\ sha = call[c][kind].sha
  OBVIOUS
<1>2. Evidence(cp, sha) => Evidence(cp, sha)'
  BY EvidenceStays
<1> QED BY <1>1, <1>2 DEF CallEvidence, Idle, At, Evidence, Verified, QAHeadChanged

LEMMA RowEvidenceStays ==
    ASSUME Typed, Grown, NEW c \in Claim, row'[c] = row[c], RowEvidence(c)
    PROVE  RowEvidence(c)'
<1>1. PICK cp, sha : cp = row[c].cp /\ sha = row[c].sha
  OBVIOUS
<1>2. Evidence(cp, sha) => Evidence(cp, sha)'
  BY EvidenceStays
<1> QED BY <1>1, <1>2 DEF RowEvidence, Evidence, Verified, QAHeadChanged

LEMMA LandingStays ==
    ASSUME IInv, IInv', NEW c \in Claim, NEW kind \in Kind, call'[c][kind] = call[c][kind],
           Bound(c), Kept(c), UNCHANGED <<head, route>>, Landing(c, kind)
    PROVE  Landing(c, kind)'
<1>1. PICK l : l = call[c][kind].lease
  OBVIOUS
<1>2. l \in Uses(c) \cup {NoLease}
  BY <1>1, Used
<1>3. /\ HoldsLease(c, l)' <=> HoldsLease(c, l)
      /\ Owned(c, l) => Owned(c, l)'
  BY <1>2, StillHolds
<1>4. Owned(c, l) /\ owner[Projection] = l => owner'[Projection] = l
  BY <1>2, NoNull DEF Kept, IInv, Owned, HoldsLease
<1> QED BY <1>1, <1>3, <1>4 DEF Bound, Landing, Owned, HoldsLease

LEMMA RecoveryStays ==
    ASSUME IInv, IInv', NEW c \in Claim, call'[c]["recovery"] = call[c]["recovery"],
           row'[c] = row[c], Kept(c), RecoveryHolds(c)
    PROVE  RecoveryHolds(c)'
<1>1. PICK l : l = call[c]["recovery"].lease
  OBVIOUS
<1>2. l \in Uses(c) \cup {NoLease}
  BY <1>1, Used, Kinds
<1>3. HoldsLease(c, l)' <=> HoldsLease(c, l)
  BY <1>2, StillHolds DEF Bound
<1>4. ASSUME HoldsLease(c, l), NEW k \in Sha \cup {Projection}, owner[k] = l
      PROVE  owner'[k] = l
  BY <1>2, <1>4, NoNull DEF Kept, IInv, HoldsLease
<1>5. HoldsLease(c, l) => row[c].sha \in Sha
  BY BoundTo
<1> QED BY <1>1, <1>3, <1>4, <1>5 DEF RecoveryHolds, HoldsLease

LEMMA MainStays ==
    ASSUME IInv, IInv', NEW c \in Claim, call'[c]["main"] = call[c]["main"],
           row'[c] = row[c], held'[c] = held[c], client'[c] \in {client[c], "gone"}, Kept(c),
           MainOK(c)
    PROVE  MainOK(c)'
<1>1. PICK l : l = call[c]["main"].lease
  OBVIOUS
<1>2. l \in Uses(c) \cup {NoLease}
  BY <1>1, Used, Kinds
<1>3. HoldsLease(c, l)' <=> HoldsLease(c, l)
  BY <1>2, StillHolds DEF Bound
<1> QED BY <1>1, <1>3 DEF MainOK, HoldsLease

LEMMA BeatStays ==
    ASSUME IInv, IInv', NEW c \in Claim, call'[c]["beat"] = call[c]["beat"],
           Bound(c), Prepared(row'[c].cp.pub) => Prepared(row[c].cp.pub), Kept(c),
           head' = head \/ head' # row[c].sha, BeatOK(c)
    PROVE  BeatOK(c)'
<1>1. PICK l : l = call[c]["beat"].lease
  OBVIOUS
<1>2. l \in Uses(c) \cup {NoLease}
  BY <1>1, Used, Kinds
<1>3. HoldsLease(c, l)' <=> HoldsLease(c, l)
  BY <1>2, StillHolds DEF Bound
<1> QED BY <1>1, <1>3 DEF Bound, BeatOK, HoldsLease, Prepared

-----------------------------------------------------------------------------
(* A claim that a step does not touch *)

NextNotAt(d, sha) == /\ row'[d].sha # sha
                     /\ call'[d]["main"].at = "claim" => call'[d]["main"].sha # sha

\* The other claims get new leases only, declare new commits only, and are not bound to a
\* commit that this one declared or has made.
OthersMind(c) ==
    \A d \in Claim \ {c} :
        /\ Uses(d)' \subseteq Uses(d) \cup {l \in Lease : ~Known(l)}
        /\ Prepared(row'[d].cp.pub) =>
               \/ row'[d].cp.pub.to \notin made
               \/ Prepared(row[d].cp.pub) /\ row'[d].cp.pub.to = row[d].cp.pub.to
        /\ Prepared(row[c].cp.pub) /\ row[c].status = "running"
               => NextNotAt(d, row[c].cp.pub.to)
        /\ At(c, "main", "move") =>
               /\ call'[d]["main"].at # "move"
               /\ call[c]["main"].new # call[c]["main"].sha => NextNotAt(d, call[c]["main"].new)

\* Nothing of the claim depends on HEAD or on the labels.
Aside(c) == /\ \A kind \in Kind : ~At(c, kind, "put")
            /\ client[c] # "declared"
            /\ call[c]["main"].at \notin {"commit", "move"}
            /\ Prepared(row[c].cp.pub) /\ row[c].status = "running"
                   => row[c].cp.pub.to \notin {head, head'}
            /\ held[c] \in inForce => row[c].sha # head
            /\ head' = head \/ head' # row[c].sha

LEMMA UsesKnown ==
    ASSUME IInv, NEW c \in Claim, NEW l \in Uses(c)
    PROVE  Known(l) /\ l \in Lease /\ l # NoLease
<1>1. /\ row[c].lease \in Lease \cup {NoLease} /\ held[c] \in Lease \cup {NoLease}
      /\ \A kind \in Kind : call[c][kind].lease \in Lease \cup {NoLease}
  BY DEF IInv, Typed, TypeOK, Rows, Calls
<1>2. Known(row[c].lease) /\ Known(held[c]) /\ \A kind \in Kind : Known(call[c][kind].lease)
  BY DEF IInv, ClaimOK, RowOK, CallOK
<1> QED BY <1>1, <1>2, Kinds DEF Uses

LEMMA LeaseStays ==
    ASSUME IInv, IInv', NEW c \in Claim, Bound(c), Kept(c), Uses(c)' \subseteq Uses(c),
           held'[c] = held[c], call'[c]["beat"].lease \in {NoLease, held[c]},
           \/ call'[c]["main"] = call[c]["main"]
           \/ /\ call'[c]["main"].at # "recheck"
              /\ call'[c]["main"].lease \in {NoLease, held[c]},
           \A d \in Claim \ {c} : Uses(d)' \subseteq Uses(d) \cup {l \in Lease : ~Known(l)},
           LeaseOK(c)
    PROVE  LeaseOK(c)'
<1>1. ASSUME NEW d \in Claim \ {c} PROVE Uses(c)' \cap Uses(d)' = {}
  BY UsesKnown DEF LeaseOK
<1>2. PICK h, l : h = held[c] /\ l = call[c]["main"].lease
  OBVIOUS
<1>3. /\ HoldsLease(c, h)' <=> HoldsLease(c, h)
      /\ Owned(c, h) => Owned(c, h)'
      /\ Owned(c, l) => Owned(c, l)'
  BY <1>2, Used, Kinds, StillHolds
<1>4. /\ h \in inForce' <=> h \in inForce
      /\ l \in inForce' <=> l \in inForce
  <2>1. NoLease \notin inForce /\ NoLease \notin inForce'
    BY NullAssumption DEF IInv, Typed, TypeOK
  <2> QED BY <2>1, <1>2, Used, Kinds DEF Kept
<1> QED BY <1>1, <1>2, <1>3, <1>4 DEF LeaseOK, At, Owned, HoldsLease

LEMMA OthersStay ==
    ASSUME IInv, IInv', NEW c \in Claim, WorkOK(c), Untouched(c), Kept(c), Grown,
           call[c]["recovery"].at \in {"verify", "put"}
               => result'[call[c]["recovery"].sha] = result[call[c]["recovery"].sha],
           UNCHANGED <<head, route>> \/ Aside(c),
           OthersMind(c)
    PROVE  WorkOK(c)'
<1>u. /\ row'[c] = row[c] /\ call'[c] = call[c] /\ client'[c] = client[c] /\ held'[c] = held[c]
      /\ Typed /\ Bound(c)
  BY DEF Untouched, IInv, Bound
<1>1. LeaseOK(c)'
  <2>1. Uses(c)' = Uses(c)
    BY <1>u DEF Uses
  <2>2. LeaseOK(c) /\ call'[c]["beat"].lease \in {NoLease, held[c]}
    BY <1>u DEF WorkOK, LeaseOK
  <2> QED BY <1>u, <2>1, <2>2, LeaseStays DEF OthersMind
<1>2. RecoveryHolds(c)' /\ MainOK(c)' /\ RowEvidence(c)'
  BY <1>u, RecoveryStays, MainStays, RowEvidenceStays DEF WorkOK
<1>3. BeatOK(c)'
  BY <1>u, BeatStays DEF WorkOK, Aside
<1>4. ASSUME NEW kind \in Kind PROVE CallsOK(c, kind)'
  <2>1. CallsOK(c, kind) /\ call'[c][kind] = call[c][kind]
    BY <1>u DEF WorkOK
  <2>2. CallEvidence(c, kind)'
    BY <1>u, <2>1, CallEvidenceStays DEF CallsOK
  <2>3. WriteOK(c, kind)'
    BY <1>u, <2>1, WriteStays DEF CallsOK
  <2>4. Landing(c, kind)'
    <3>1. CASE UNCHANGED <<head, route>>
      BY <1>u, <2>1, <3>1, LandingStays DEF CallsOK
    <3>2. CASE Aside(c)
      BY <2>1, <3>2 DEF Aside, Landing, At
    <3> QED BY <3>1, <3>2
  <2> QED BY <2>2, <2>3, <2>4 DEF CallsOK
<1>5. PICK h, l : h = held[c] /\ l = call[c]["main"].lease
  OBVIOUS
<1>6. /\ HoldsLease(c, h)' <=> HoldsLease(c, h)
      /\ Owned(c, h) => Owned(c, h)'
      /\ Owned(c, l) => Owned(c, l)'
  BY <1>u, <1>5, Used, Kinds, StillHolds
<1>7. Declaring(c)'
  BY <1>u, <1>5, <1>6 DEF WorkOK, Declaring, Owned, HoldsLease, Idle, At, Prepared, Aside
<1>8. PubOK(c)'
  <2> DEFINE p == row[c].cp.pub
  <2>1. CASE ~Prepared(p)
    BY <1>u, <2>1 DEF PubOK, Prepared
  <2>2. CASE Prepared(p)
    <3>1. p.to \in made
      BY <2>2 DEF IInv, ClaimOK, RowOK, Declared, Prepared, NoPub
    <3>2. ASSUME NEW d \in Claim \ {c}, Prepared(row'[d].cp.pub)
          PROVE  row'[d].cp.pub.to # p.to
      BY <2>2, <3>1, <3>2 DEF OthersMind, WorkOK, PubOK
    <3>3. row[c].status = "running" /\ head' = p.to => route' = "running"
      BY <2>2 DEF WorkOK, PubOK, Aside
    <3>4. ASSUME row[c].status = "running", NEW d \in Claim \ {c} PROVE NextNotAt(d, p.to)
      BY <2>2, <3>4 DEF OthersMind
    <3>5. p.from = row[c].sha
      BY <2>2 DEF WorkOK, PubOK
    <3>6. client[c] = "pushed" => head' # row[c].sha
      BY <2>2 DEF WorkOK, PubOK, Aside
    <3> QED BY <1>u, <3>2, <3>3, <3>4, <3>5, <3>6 DEF PubOK, NotAt, NextNotAt, At, Prepared
  <2> QED BY <2>1, <2>2
<1>9. Publishing(c)'
  <2> DEFINE m == call[c]["main"]
  <2>1. m.op = "reports" => Idle(c, "beat")
    BY DEF WorkOK, Publishing
  <2>2. CASE m.at \notin {"commit", "move"}
    BY <1>u, <2>1, <2>2 DEF Publishing, Idle, At
  <2>3. CASE UNCHANGED <<head, route>>
    <3>1. m.at \in {"commit", "move"} =>
              /\ Owned(c, l)' /\ route' = "running" /\ row[c].cp.adv = "none"
              /\ head' = IF m.at = "commit" THEN m.sha ELSE m.new
      BY <1>5, <1>6, <2>3 DEF WorkOK, Publishing
    <3>2. m.at = "move" => \A d \in Claim \ {c} :
              /\ call'[d]["main"].at # "move"
              /\ m.new # m.sha => NextNotAt(d, m.new)
      BY DEF OthersMind, At
    <3>3. m.at = "move" /\ m.new # m.sha => m.new # Base /\ NextNotAt(c, m.new)
      BY <1>u DEF WorkOK, Publishing, NotAt, NextNotAt, At
    <3> HIDE DEF m
    <3>4. /\ call'[c]["main"] = m /\ m.lease = l
          /\ m.op = "reports" => call'[c]["beat"].at = "idle"
      BY <1>u, <1>5, <2>1 DEF m, Idle, At
    <3>5. \A d \in Claim : m.at = "move" /\ m.new # m.sha => NextNotAt(d, m.new)
      BY <3>2, <3>3
    <3> QED BY <1>u, <3>1, <3>2, <3>3, <3>4, <3>5
            DEF Publishing, Owned, HoldsLease, NotAt, NextNotAt, Idle, At
  <2> QED BY <2>2, <2>3 DEF Aside
<1>10. Undisturbed(c)'
  <2>1. ASSUME Entitled(c)'
        PROVE  Entitled(c) /\ row[c].status = "running"
    <3>1. h \in inForce' => h \in inForce
      <4>1. NoLease \notin inForce'
        BY NullAssumption DEF IInv, Typed, TypeOK
      <4> QED BY <1>5, <4>1, Used DEF Kept
    <3>2. Entitled(c)
      BY <1>u, <1>5, <2>1, <3>1 DEF Entitled
    <3> QED BY <3>2 DEF Entitled, WorkOK, LeaseOK, Owned, HoldsLease
  <2>2. CASE UNCHANGED <<head, route>>
    BY <1>u, <2>1, <2>2 DEF WorkOK, Undisturbed, Follows, At
  <2>3. CASE Aside(c)
    BY <1>u, <2>1, <2>3 DEF WorkOK, Undisturbed, Follows, Aside, Entitled, At, Prepared
  <2> QED BY <2>2, <2>3
<1> QED BY <1>1, <1>2, <1>3, <1>4, <1>7, <1>8, <1>9, <1>10 DEF WorkOK

-----------------------------------------------------------------------------
(* What a step of one claim leaves to the others *)

\* Steps that only bring leases into force and take free keys take nothing from anybody.
LEMMA TakingKeeps ==
    ASSUME IInv, \/ UNCHANGED own
                 \/ \E k \in Sha \cup {Projection}, l \in Lease \cup {NoLease} : Obtains(k, l)
                 \/ \E l \in Lease : Own!Issue(l),
           NEW c \in Claim
    PROVE  Kept(c)
<1>1. \A l \in Uses(c) : Known(l) /\ l \in Lease /\ l # NoLease
  BY UsesKnown
<1>2. CASE UNCHANGED own
  BY <1>2 DEF own, Kept
<1>3. ASSUME NEW k \in Sha \cup {Projection}, NEW l \in Lease \cup {NoLease}, Own!Take(k, l)
      PROVE  Kept(c)
  BY <1>1, <1>3 DEF Own!Take, Kept
<1>4. ASSUME NEW l \in Lease, Own!Issue(l) PROVE Kept(c)
  BY <1>1, <1>4 DEF Own!Issue, Kept, Known, IInv, Typed, TypeOK
<1> QED BY <1>2, <1>3, <1>4 DEF Obtains

\* A claim that ends its own lease takes nothing from another one.
LEMMA EndingKeeps ==
    ASSUME IInv, NEW c \in Claim, LeaseOK(c), NEW l \in Uses(c), Own!End({l}),
           NEW d \in Claim \ {c}
    PROVE  Kept(d)
<1>1. l \notin Uses(d)
  BY DEF LeaseOK
<1>2. \A x \in Uses(d) : x # l /\ x # NoLease
  BY <1>1, UsesKnown
<1> QED BY <1>2 DEF Own!End, Kept, IInv, Typed, TypeOK

\* A claim that is bound where it was, or where it was about to be, and declares nothing.
Modest(c) ==
    /\ \A sha \in Sha : NotAt(c, sha) => NextNotAt(c, sha)
    /\ call'[c]["main"].at # "move" \/ call'[c]["main"] = call[c]["main"]
    /\ Prepared(row'[c].cp.pub) =>
           Prepared(row[c].cp.pub) /\ row'[c].cp.pub.to = row[c].cp.pub.to
    /\ Uses(c)' \subseteq Uses(c) \cup {l \in Lease : ~Known(l)}

LEMMA Minded ==
    ASSUME IInv, NEW d \in Claim, WorkOK(d), NEW c \in Claim \ {d},
           \A e \in Claim \ {c} : Untouched(e),
           Uses(c)' \subseteq Uses(c) \cup {l \in Lease : ~Known(l)},
           Prepared(row'[c].cp.pub) =>
               \/ row'[c].cp.pub.to \notin made
               \/ Prepared(row[c].cp.pub) /\ row'[c].cp.pub.to = row[c].cp.pub.to,
           Prepared(row[d].cp.pub) /\ row[d].status = "running"
               => NextNotAt(c, row[d].cp.pub.to),
           At(d, "main", "move") =>
               /\ call'[c]["main"].at # "move"
               /\ call[d]["main"].new # call[d]["main"].sha => NextNotAt(c, call[d]["main"].new)
    PROVE  OthersMind(d)
<1>1. ASSUME NEW e \in Claim \ {d}
      PROVE  /\ Uses(e)' \subseteq Uses(e) \cup {l \in Lease : ~Known(l)}
             /\ Prepared(row'[e].cp.pub) =>
                    \/ row'[e].cp.pub.to \notin made
                    \/ Prepared(row[e].cp.pub) /\ row'[e].cp.pub.to = row[e].cp.pub.to
             /\ Prepared(row[d].cp.pub) /\ row[d].status = "running"
                    => NextNotAt(e, row[d].cp.pub.to)
             /\ At(d, "main", "move") =>
                    /\ call'[e]["main"].at # "move"
                    /\ call[d]["main"].new # call[d]["main"].sha
                           => NextNotAt(e, call[d]["main"].new)
  <2>1. CASE e = c
    BY <2>1
  <2>2. CASE e # c
    <3>1. /\ row'[e] = row[e] /\ call'[e] = call[e] /\ held'[e] = held[e]
          /\ Uses(e)' = Uses(e)
      BY <2>2 DEF Untouched, Uses
    <3>2. \A sha : NotAt(e, sha) => NextNotAt(e, sha)
      BY <3>1 DEF NotAt, NextNotAt, At
    <3>3. Prepared(row[d].cp.pub) /\ row[d].status = "running" => NotAt(e, row[d].cp.pub.to)
      BY DEF WorkOK, PubOK
    <3>4. At(d, "main", "move") =>
              /\ call[e]["main"].at # "move"
              /\ call[d]["main"].new # call[d]["main"].sha => NotAt(e, call[d]["main"].new)
      BY DEF WorkOK, Publishing, At
    <3> QED BY <3>1, <3>2, <3>3, <3>4
  <2> QED BY <2>1, <2>2
<1> QED BY <1>1 DEF OthersMind

LEMMA ModestMinded ==
    ASSUME IInv, NEW d \in Claim, WorkOK(d), NEW c \in Claim \ {d},
           \A e \in Claim \ {c} : Untouched(e), Modest(c)
    PROVE  OthersMind(d)
<1>1. Prepared(row[d].cp.pub) => row[d].cp.pub.to \in Sha
  BY DEF IInv, ClaimOK, RowOK, Declared, Prepared, NoPub, Typed, TypeOK
<1>2. At(d, "main", "move") => call[d]["main"].new \in Sha
  BY Kinds DEF IInv, ClaimOK, CallOK, At, Typed, TypeOK
<1>3. Prepared(row[d].cp.pub) /\ row[d].status = "running" => NextNotAt(c, row[d].cp.pub.to)
  BY <1>1 DEF WorkOK, PubOK, Modest
<1>4. At(d, "main", "move") =>
          /\ call'[c]["main"].at # "move"
          /\ call[d]["main"].new # call[d]["main"].sha => NextNotAt(c, call[d]["main"].new)
  BY <1>2 DEF WorkOK, Publishing, Modest, At
<1> QED BY <1>3, <1>4, Minded DEF Modest

\* What a step of one claim has to leave for the others to stay as they should be.
Spares(c) == /\ \A d \in Claim \ {c} : Untouched(d) /\ Kept(d)
             /\ Grown

LEMMA OthersSpared ==
    ASSUME RInv, IInv', NEW c \in Claim, Spares(c), Modest(c), UNCHANGED <<head, route, result>>,
           NEW d \in Claim \ {c}
    PROVE  WorkOK(d)'
<1>1. OthersMind(d)
  BY ModestMinded DEF RInv, Spares
<1> QED BY <1>1, OthersStay DEF RInv, Spares

\* A claim that owns the key of HEAD is the only one with anything to do with HEAD.
LEMMA StandsAlone ==
    ASSUME RInv, NEW c \in Claim, NEW l, Owned(c, l), row[c].sha = head, NEW d \in Claim \ {c},
           \/ head' = head
           \/ head' \in Sha \ made
           \/ Prepared(row[c].cp.pub) /\ row[c].status = "running" /\ head' = row[c].cp.pub.to
    PROVE  Aside(d)
<1>i. IInv /\ WorkOK(c) /\ WorkOK(d)
  BY DEF RInv
<1>1. ASSUME NEW x, Owned(d, x) PROVE row[d].sha # head
  <2>1. x # NoLease /\ l # NoLease
    BY <1>i, <1>1, BoundTo DEF Owned
  <2>2. x \in Uses(d) /\ l \in Uses(c)
    BY <1>1, <2>1 DEF Owned, HoldsLease, Uses
  <2> QED BY <1>i, <1>1, <2>2 DEF Owned, WorkOK, LeaseOK
<1>3. ASSUME NEW kind \in Kind PROVE ~At(d, kind, "put")
  BY <1>i, <1>1 DEF WorkOK, CallsOK, Landing, At
<1>4. client[d] # "declared"
  BY <1>i, <1>1 DEF WorkOK, Declaring
<1>5. call[d]["main"].at \notin {"commit", "move"}
  <2>1. SUFFICES ASSUME call[d]["main"].at \in {"commit", "move"} PROVE FALSE
    OBVIOUS
  <2>2. Owned(d, call[d]["main"].lease)
    BY <1>i, <2>1 DEF WorkOK, Publishing
  <2>3. call[d]["main"].sha = row[d].sha
    BY <1>i, <2>1, <2>2 DEF WorkOK, MainOK, Owned
  <2>4. call[d]["main"].at = "move" /\ call[d]["main"].new = head
    BY <1>i, <1>1, <2>1, <2>2, <2>3 DEF WorkOK, Publishing
  <2>5. NotAt(c, head)
    BY <1>i, <1>1, <2>2, <2>3, <2>4 DEF WorkOK, Publishing
  <2> QED BY <2>5 DEF NotAt
<1>6. ASSUME Prepared(row[d].cp.pub), row[d].status = "running"
      PROVE  row[d].cp.pub.to \notin {head, head'}
  <2>1. row[d].cp.pub.to \in made
    BY <1>i, <1>6 DEF IInv, ClaimOK, RowOK, Declared, Prepared, NoPub
  <2>2. NotAt(c, row[d].cp.pub.to)
    BY <1>i, <1>6 DEF WorkOK, PubOK
  <2>3. Prepared(row[c].cp.pub) => row[c].cp.pub.to # row[d].cp.pub.to
    BY <1>i, <1>6 DEF WorkOK, PubOK
  <2> QED BY <2>1, <2>2, <2>3 DEF NotAt
<1>7. held[d] \in inForce => row[d].sha # head
  BY <1>i, <1>1 DEF WorkOK, LeaseOK
<1>8. head' = head \/ head' # row[d].sha
  <2>1. row[d].sha \in made \/ row[d].sha = NoSha
    BY <1>i DEF IInv, ClaimOK, RowOK, NoRow
  <2>2. NoSha \notin Sha
    BY NullAssumption
  <2>3. Prepared(row[c].cp.pub) /\ row[c].status = "running" => row[d].sha # row[c].cp.pub.to
    BY <1>i DEF WorkOK, PubOK, NotAt
  <2> QED BY <2>1, <2>2, <2>3
<1> QED BY <1>3, <1>4, <1>5, <1>6, <1>7, <1>8 DEF Aside

LEMMA OthersAside ==
    ASSUME RInv, IInv', NEW c \in Claim, Spares(c), NEW d \in Claim \ {c}, Aside(d),
           OthersMind(d), UNCHANGED result
    PROVE  WorkOK(d)'
BY OthersStay DEF RInv, Spares

-----------------------------------------------------------------------------
(* A claim that stays bound to what it was *)

\* While a recovery holds the claim nobody else does, and the other way round.
LEMMA OneHolder ==
    ASSUME IInv, NEW c \in Claim, RecoveryHolds(c), ~Idle(c, "recovery"),
           NEW l \in {held[c], call[c]["main"].lease, call[c]["beat"].lease}
    PROVE  ~HoldsLease(c, l)
BY DEF IInv, ClaimOK, RecoveryOK, RecoveryHolds, HoldsLease, Idle, At

\* What a step of the claim's handler of one kind leaves of the rest.
Moves(c, kind, n) ==
    /\ Handles(c, kind, n) /\ \A d \in Claim \ {c} : Untouched(d)
    /\ Bound(c) /\ row'[c].cp.pub = row[c].cp.pub /\ held'[c] = held[c]
    /\ Kept(c) /\ Grown /\ UNCHANGED <<head, route>>
    /\ UNCHANGED result \/ Idle(c, "recovery")
    /\ n.lease \in {NoLease, held[c], call[c][kind].lease}
    /\ client'[c] \in {"declared", "pushed"} => client'[c] = client[c]
    /\ RowEvidence(c)' /\ CallsOK(c, kind)'

LEMMA MoveUses ==
    ASSUME IInv, NEW c \in Claim, NEW kind \in Kind, NEW n, Moves(c, kind, n)
    PROVE  Uses(c)' \subseteq Uses(c)
<1>1. call'[c][kind] = n /\ \A k \in Kind \ {kind} : call'[c][k] = call[c][k]
  BY DEF Moves, Handles
<1>2. row'[c].lease = row[c].lease /\ held'[c] = held[c]
  BY DEF Moves, Bound
<1>3. \A k \in Kind : call'[c][k].lease \in {NoLease, held[c], call[c][k].lease}
  BY <1>1 DEF Moves
<1> QED BY <1>2, <1>3, Kinds DEF Uses

LEMMA MoveOthersUse ==
    ASSUME NEW c \in Claim, NEW kind \in Kind, NEW n, Moves(c, kind, n), NEW d \in Claim \ {c}
    PROVE  /\ Uses(d)' = Uses(d) /\ row'[d] = row[d] /\ call'[d] = call[d]
           /\ client'[d] = client[d] /\ held'[d] = held[d]
BY DEF Moves, Untouched, Uses

LEMMA ClaimMoves ==
    ASSUME RInv, IInv', NEW c \in Claim, NEW kind \in Kind, NEW n, Moves(c, kind, n),
           call'[c]["beat"].lease \in {NoLease, held[c]},
           \/ call'[c]["main"] = call[c]["main"]
           \/ /\ call'[c]["main"].at # "recheck"
              /\ call'[c]["main"].lease \in {NoLease, held[c]},
           RecoveryHolds(c)', MainOK(c)', BeatOK(c)', Publishing(c)', Undisturbed(c)',
           client'[c] = "declared" => kind = "recovery"
    PROVE  WorkOK(c)'
<1>i. IInv /\ WorkOK(c) /\ Typed
  BY DEF RInv, IInv
<1>m. /\ Bound(c) /\ row'[c].cp.pub = row[c].cp.pub /\ held'[c] = held[c]
      /\ Kept(c) /\ Grown /\ UNCHANGED <<head, route>>
      /\ \A k \in Kind \ {kind} : call'[c][k] = call[c][k]
      /\ client'[c] \in {"declared", "pushed"} => client'[c] = client[c]
  BY DEF Moves, Handles
<1>1. LeaseOK(c)'
  <2>1. Uses(c)' \subseteq Uses(c) /\ \A d \in Claim \ {c} : Uses(d)' = Uses(d)
    BY <1>i, MoveUses, MoveOthersUse
  <2> QED BY <1>i, <1>m, <2>1, LeaseStays DEF WorkOK
<1>2. ASSUME NEW k \in Kind \ {kind} PROVE CallsOK(c, k)'
  <2>1. CallsOK(c, k) /\ call'[c][k] = call[c][k]
    BY <1>i, <1>m DEF WorkOK
  <2>2. CallEvidence(c, k)'
    BY <1>i, <1>m, <2>1, CallEvidenceStays DEF CallsOK
  <2>3. WriteOK(c, k)'
    <3>1. k = "recovery" /\ call[c][k].at \in {"verify", "put"} => UNCHANGED result
      BY DEF Moves, Idle, At
    <3> QED BY <1>i, <1>m, <2>1, <3>1, WriteStays DEF CallsOK
  <2>4. Landing(c, k)'
    BY <1>i, <1>m, <2>1, LandingStays DEF CallsOK
  <2> QED BY <2>2, <2>3, <2>4 DEF CallsOK
<1>3. Declaring(c)'
  <2>1. PICK h : h = held[c]
    OBVIOUS
  <2>2. /\ HoldsLease(c, h)' <=> HoldsLease(c, h)
        /\ Owned(c, h) => Owned(c, h)'
    BY <1>i, <1>m, <2>1, Used, StillHolds
  <2>3. SUFFICES ASSUME client'[c] = "declared"
                 PROVE  /\ Prepared(row'[c].cp.pub)
                        /\ Owned(c, held[c])' /\ head' = row'[c].sha /\ route' = "running"
                        /\ Idle(c, "main")' /\ Idle(c, "beat")'
    BY DEF Declaring
  <2>4. client[c] = "declared" /\ kind = "recovery"
    BY <1>m, <2>3
  <2>5. /\ Prepared(row[c].cp.pub)
        /\ Owned(c, h) /\ head = row[c].sha /\ route = "running"
        /\ Idle(c, "main") /\ Idle(c, "beat")
    BY <1>i, <2>1, <2>4 DEF WorkOK, Declaring
  <2>6. Idle(c, "main")' /\ Idle(c, "beat")'
    BY <1>m, <2>4, <2>5, Kinds DEF Idle, At
  <2>7. Owned(c, held[c])'
    BY <1>m, <2>1, <2>2, <2>5 DEF Owned, HoldsLease
  <2> QED BY <1>m, <2>5, <2>6, <2>7 DEF Bound
<1>4. PubOK(c)'
  <2>1. SUFFICES ASSUME Prepared(row'[c].cp.pub)
                 PROVE  PubOK(c)'
    BY DEF PubOK, Prepared
  <2> DEFINE p == row[c].cp.pub
  <2>2. Prepared(p) /\ row'[c].cp.pub = p
    BY <1>m, <2>1
  <2>3. \A d \in Claim \ {c} :
            /\ row'[d] = row[d]
            /\ NotAt(d, p.to) => NextNotAt(d, p.to)
    BY MoveOthersUse DEF NotAt, NextNotAt, At
  <2> QED BY <1>i, <1>m, <2>2, <2>3
          DEF WorkOK, PubOK, Bound, NotAt, NextNotAt, At, Prepared
<1>5. RowEvidence(c)' /\ CallsOK(c, kind)'
  BY DEF Moves
<1> QED BY <1>1, <1>2, <1>3, <1>4, <1>5 DEF WorkOK

LEMMA StillInForce ==
    ASSUME IInv, IInv', NEW c \in Claim, Kept(c), NEW l \in Uses(c) \cup {NoLease}
    PROVE  l \in inForce' <=> l \in inForce
<1>1. NoLease \notin inForce /\ NoLease \notin inForce'
  BY NullAssumption DEF IInv, Typed, TypeOK
<1> QED BY <1>1 DEF Kept

\* A request of the worker moves on.
LEMMA MainMoves ==
    ASSUME RInv, IInv', NEW c \in Claim, NEW n, Moves(c, "main", n),
           n.lease \in {NoLease, held[c]}, n.at \notin {"recheck", "commit", "move"},
           n.op # "reports",
           At(c, "main", "move") => route = "running" /\ row[c].sha = head,
           row'[c] = row[c] \/ Idle(c, "recovery"),
           row[c].cp.adv # "none" => row'[c].cp.adv # "none",
           row[c].cp.dec => row'[c].cp.dec,
           client'[c] # "declared",
           client'[c] \in Executing =>
               client[c] \in Executing \/ (route = "running" /\ row[c].sha = head),
           MainOK(c)'
    PROVE  WorkOK(c)'
<1>i. IInv /\ WorkOK(c)
  BY DEF RInv
<1>m. /\ Bound(c) /\ row'[c].cp.pub = row[c].cp.pub /\ held'[c] = held[c]
      /\ Kept(c) /\ Grown /\ UNCHANGED <<head, route>>
      /\ call'[c]["main"] = n /\ call'[c]["beat"] = call[c]["beat"]
      /\ call'[c]["recovery"] = call[c]["recovery"]
  BY Kinds DEF Moves, Handles
<1>1. RecoveryHolds(c)'
  <2>1. CASE row'[c] = row[c]
    BY <1>i, <1>m, <2>1, RecoveryStays DEF WorkOK
  <2>2. CASE Idle(c, "recovery")
    BY <1>m, <2>2 DEF RecoveryHolds, Idle, At
  <2> QED BY <2>1, <2>2
<1>2. BeatOK(c)' /\ call'[c]["beat"].lease \in {NoLease, held[c]}
  BY <1>i, <1>m, BeatStays DEF WorkOK, LeaseOK
<1>3. Publishing(c)'
  BY <1>m DEF Publishing
<1>4. Undisturbed(c)'
  <2>1. SUFFICES ASSUME Entitled(c)' PROVE Undisturbed(c)'
    BY DEF Undisturbed
  <2>2. held[c] \in inForce /\ client'[c] \in Executing
    BY <1>i, <1>m, <2>1, Used, StillInForce DEF Entitled
  <2>3. CASE route = "running" /\ row[c].sha = head
    BY <1>m, <2>3 DEF Undisturbed, Follows, Bound
  <2>4. CASE client[c] \in Executing /\ ~At(c, "main", "move")
    <3>1. Entitled(c)
      BY <2>2, <2>4 DEF Entitled
    <3> QED BY <1>i, <1>m, <3>1 DEF WorkOK, Undisturbed, Follows, Bound, At
  <2> QED BY <2>2, <2>3, <2>4
<1> QED BY <1>i, <1>m, <1>1, <1>2, <1>3, <1>4, Kinds, ClaimMoves

\* A heartbeat moves on.
LEMMA BeatMoves ==
    ASSUME RInv, IInv', NEW c \in Claim, NEW n, Moves(c, "beat", n),
           n.lease \in {NoLease, held[c]}, row'[c] = row[c],
           n.at # "idle" => call[c]["main"].op # "reports",
           client'[c] # "declared", client'[c] \in {client[c], "gone"},
           BeatOK(c)'
    PROVE  WorkOK(c)'
<1>i. IInv /\ WorkOK(c)
  BY DEF RInv
<1>m. /\ Bound(c) /\ row'[c].cp.pub = row[c].cp.pub /\ held'[c] = held[c]
      /\ Kept(c) /\ Grown /\ UNCHANGED <<head, route>>
      /\ call'[c]["beat"] = n /\ call'[c]["main"] = call[c]["main"]
      /\ call'[c]["recovery"] = call[c]["recovery"]
  BY Kinds DEF Moves, Handles
<1>1. RecoveryHolds(c)' /\ MainOK(c)'
  BY <1>i, <1>m, RecoveryStays, MainStays DEF WorkOK
<1>l. PICK l : l = call[c]["main"].lease
  OBVIOUS
<1>2. Owned(c, l) => Owned(c, l)'
  BY <1>i, <1>m, <1>l, Used, Kinds, StillHolds
<1>3. Publishing(c)'
  <2> DEFINE m == call[c]["main"]
  <2>1. m.op = "reports" => n.at = "idle"
    OBVIOUS
  <2>2. m.at \in {"commit", "move"} =>
            /\ Owned(c, l)' /\ route' = "running" /\ row[c].cp.adv = "none"
            /\ head' = IF m.at = "commit" THEN m.sha ELSE m.new
    BY <1>i, <1>m, <1>l, <1>2 DEF WorkOK, Publishing
  <2>3. \A d \in Claim : call'[d]["main"] = call[d]["main"] /\ row'[d] = row[d]
    BY <1>m, Kinds, MoveOthersUse
  <2>4. m.at = "move" => /\ \A d \in Claim \ {c} : call'[d]["main"].at # "move"
                         /\ m.new # m.sha => m.new # Base /\ \A d \in Claim : NextNotAt(d, m.new)
    BY <1>i, <2>3 DEF WorkOK, Publishing, NotAt, NextNotAt, At
  <2> QED BY <1>m, <1>l, <2>1, <2>2, <2>4
          DEF Publishing, Owned, HoldsLease, NotAt, NextNotAt, Idle, At
<1>4. Undisturbed(c)'
  <2>1. SUFFICES ASSUME Entitled(c)' PROVE Undisturbed(c)'
    BY DEF Undisturbed
  <2>2. held[c] \in inForce /\ client'[c] \in Executing
    BY <1>i, <1>m, <2>1, Used, StillInForce DEF Entitled
  <2>3. Entitled(c)
    BY <2>2 DEF Entitled, Executing
  <2> QED BY <1>i, <1>m, <2>3 DEF WorkOK, Undisturbed, Follows, Bound, At
<1>5. client'[c] = "declared" => "beat" = "recovery"
  OBVIOUS
<1> QED BY <1>i, <1>m, <1>1, <1>3, <1>4, <1>5, Kinds, ClaimMoves

\* A recovery moves on, or the worker does while there is none.
LEMMA RecoveryMoves ==
    ASSUME RInv, IInv', NEW c \in Claim, NEW n, Moves(c, "recovery", n),
           row'[c] = row[c] \/ ~Idle(c, "recovery"),
           client'[c] \in {client[c], "gone"}, client[c] # "new" \/ client'[c] = client[c],
           RecoveryHolds(c)'
    PROVE  WorkOK(c)'
<1>i. IInv /\ WorkOK(c)
  BY DEF RInv
<1>m. /\ Bound(c) /\ row'[c].cp.pub = row[c].cp.pub /\ held'[c] = held[c]
      /\ Kept(c) /\ Grown /\ UNCHANGED <<head, route>>
      /\ call'[c]["recovery"] = n /\ call'[c]["main"] = call[c]["main"]
      /\ call'[c]["beat"] = call[c]["beat"]
  BY Kinds DEF Moves, Handles
<1>l. PICK h, l : h = held[c] /\ l = call[c]["main"].lease
  OBVIOUS
<1>o. /\ HoldsLease(c, l)' <=> HoldsLease(c, l)
      /\ Owned(c, l) => Owned(c, l)'
  BY <1>i, <1>m, <1>l, Used, Kinds, StillHolds
<1>h. ~Idle(c, "recovery") => ~HoldsLease(c, l) /\ ~HoldsLease(c, h)
  BY <1>i, <1>l, OneHolder DEF WorkOK
<1>1. MainOK(c)'
  <2>1. CASE row'[c] = row[c]
    BY <1>i, <1>m, <2>1, MainStays DEF WorkOK
  <2>2. CASE ~Idle(c, "recovery")
    BY <1>i, <1>m, <1>l, <1>o, <1>h, <2>2 DEF WorkOK, MainOK, HoldsLease
  <2> QED BY <2>1, <2>2
<1>2. BeatOK(c)' /\ call'[c]["beat"].lease \in {NoLease, held[c]}
  BY <1>i, <1>m, BeatStays DEF WorkOK, LeaseOK
<1>3. Publishing(c)'
  <2> DEFINE m == call[c]["main"]
  <2>1. m.at \in {"commit", "move"} =>
            /\ Owned(c, l)' /\ route' = "running" /\ row'[c].cp.adv = "none"
            /\ head' = IF m.at = "commit" THEN m.sha ELSE m.new
    BY <1>i, <1>m, <1>l, <1>o, <1>h DEF WorkOK, Publishing, Owned
  <2>2. \A d \in Claim : call'[d]["main"] = call[d]["main"] /\ row'[d].sha = row[d].sha
    BY <1>m, Kinds, MoveOthersUse DEF Bound
  <2>3. m.at = "move" => /\ \A d \in Claim \ {c} : call'[d]["main"].at # "move"
                         /\ m.new # m.sha => m.new # Base /\ \A d \in Claim : NextNotAt(d, m.new)
    BY <1>i, <2>2 DEF WorkOK, Publishing, NotAt, NextNotAt, At
  <2>4. m.op = "reports" => call'[c]["beat"].at = "idle"
    BY <1>i, <1>m DEF WorkOK, Publishing, Idle, At
  <2> QED BY <1>m, <1>l, <2>1, <2>3, <2>4
          DEF Publishing, Owned, HoldsLease, NotAt, NextNotAt, Idle, At
<1>4. Undisturbed(c)'
  <2>1. SUFFICES ASSUME Entitled(c)' PROVE Undisturbed(c)'
    BY DEF Undisturbed
  <2>2. held[c] \in inForce /\ client'[c] \in Executing
    BY <1>i, <1>m, <2>1, Used, StillInForce DEF Entitled
  <2>3. Entitled(c)
    BY <2>2 DEF Entitled, Executing
  <2>4. Owned(c, h)
    BY <1>i, <1>l, <2>2 DEF WorkOK, LeaseOK
  <2>5. row'[c] = row[c]
    BY <1>h, <2>4 DEF Owned
  <2> QED BY <1>i, <1>m, <2>3, <2>5 DEF WorkOK, Undisturbed, Follows, At
<1> QED BY <1>i, <1>m, <1>1, <1>2, <1>3, <1>4, Kinds, ClaimMoves

-----------------------------------------------------------------------------
(* A claim that is finished *)

\* A handler of one kind finishes the claim and ends.
Closes(c, kind, l) ==
    /\ HoldsLease(c, l) /\ Own!End({l})
    /\ row'[c].status # "running" /\ row'[c].lease = NoLease
    /\ row'[c].sha = row[c].sha /\ row'[c].cp = row[c].cp
    /\ Handles(c, kind, NoCall) /\ \A d \in Claim \ {c} : Untouched(d)
    /\ UNCHANGED <<pull, evidence, held>>

LEMMA FinishesCloses ==
    ASSUME Typed, NEW c \in Claim, NEW kind \in Kind, NEW l,
           NEW status \in {"done", "superseded"}, Finishes(c, l, status), HoldsLease(c, l),
           Ends(c, kind) \/ (kind = "main" /\ UNCHANGED call /\ call[c]["main"] = NoCall),
           \A d \in Claim \ {c} : Untouched(d), UNCHANGED <<pull, evidence, held>>
    PROVE  Closes(c, kind, l)
<1>1. Own!End({l}) /\ row' = [row EXCEPT ![c].status = status, ![c].lease = NoLease]
  BY DEF Finishes
<1>2. /\ row'[c].status = status /\ row'[c].lease = NoLease
      /\ row'[c].sha = row[c].sha /\ row'[c].cp = row[c].cp
  BY <1>1 DEF Typed, TypeOK, Rows
<1>3. Handles(c, kind, NoCall)
  <2>1. CASE Ends(c, kind)
    BY <2>1, Ended DEF Typed
  <2>2. CASE kind = "main" /\ UNCHANGED call /\ call[c]["main"] = NoCall
    BY <2>2 DEF Handles, Typed, TypeOK
  <2> QED BY <2>1, <2>2
<1> QED BY <1>1, <1>2, <1>3 DEF Closes

LEMMA CloseFrees ==
    ASSUME IInv, NEW c \in Claim, NEW kind \in Kind, NEW l, Closes(c, kind, l)
    PROVE  /\ l \in Uses(c) /\ row[c].lease = l
           /\ Uses(c)' \subseteq Uses(c)
           /\ inForce' = inForce \ {l}
           /\ \A x : ~HoldsLease(c, x)'
<1>1. l # NoLease /\ row[c].lease = l
  BY NoNull DEF Closes, HoldsLease, IInv
<1>2. l \in Uses(c)
  BY <1>1 DEF Uses
<1>3. NoCall.lease = NoLease
  BY DEF NoCall, Request
<1>4. call'[c][kind] = NoCall /\ \A k \in Kind \ {kind} : call'[c][k] = call[c][k]
  BY DEF Closes, Handles
<1>5. \A k \in Kind : call'[c][k].lease \in {NoLease, call[c][k].lease}
  BY <1>3, <1>4
<1>6. Uses(c)' \subseteq Uses(c)
  BY <1>5, Kinds DEF Uses, Closes
<1> QED BY <1>1, <1>2, <1>6 DEF Closes, Own!End, HoldsLease

LEMMA ClaimCloses ==
    ASSUME RInv, IInv', NEW c \in Claim, NEW kind \in Kind, NEW l, Closes(c, kind, l),
           \A k \in Kind \ {kind} : ~At(c, k, "put"),
           kind = "recovery" \/ Idle(c, "recovery"),
           kind = "main" \/ call[c]["main"].at \notin {"commit", "move"},
           kind = "main" \/ client'[c] \in {client[c], "gone"},
           client'[c] \notin {"new", "declared"} \/ client'[c] = client[c], client[c] # "declared",
           client'[c] # "pushed" \/ client[c] = "pushed"
    PROVE  WorkOK(c)'
<1>i. IInv /\ WorkOK(c) /\ Typed
  BY DEF RInv, IInv
<1>f. /\ l \in Uses(c) /\ row[c].lease = l
      /\ Uses(c)' \subseteq Uses(c)
      /\ inForce' = inForce \ {l}
      /\ \A x : ~HoldsLease(c, x)'
  BY <1>i, CloseFrees
<1>c. /\ HoldsLease(c, l)
      /\ row'[c].status # "running"
      /\ row'[c].sha = row[c].sha /\ row'[c].cp = row[c].cp
      /\ call'[c][kind] = NoCall /\ \A k \in Kind \ {kind} : call'[c][k] = call[c][k]
      /\ held'[c] = held[c] /\ UNCHANGED <<head, route, made, phase, ci, result>>
  BY DEF Closes, Handles, pull, evidence
<1>n. NoCall.at = "idle" /\ NoCall.op = "none" /\ NoCall.lease = NoLease
  BY DEF NoCall, Request
<1>g. Grown
  BY <1>c DEF Grown
<1>k. \A k \in Kind : call'[c][k] \in {call[c][k], NoCall}
  BY <1>c
<1>h. held[c] \notin inForce'
  <2>1. held[c] \in inForce => held[c] = l
    BY <1>i, <1>f DEF WorkOK, LeaseOK, Owned, HoldsLease
  <2> QED BY <2>1, <1>f
<1>1. LeaseOK(c)'
  <2>1. \A d \in Claim \ {c} : Uses(d)' = Uses(d)
    BY DEF Closes, Untouched, Uses
  <2>2. \A d \in Claim \ {c} : Uses(c)' \cap Uses(d)' = {}
    BY <1>i, <1>f, <2>1 DEF WorkOK, LeaseOK
  <2>3. call'[c]["beat"].lease \in {NoLease, held[c]}
    BY <1>i, <1>k, <1>n, Kinds DEF WorkOK, LeaseOK
  <2>4. CASE call'[c]["main"] = NoCall
    BY <1>c, <1>h, <1>n, <2>2, <2>3, <2>4 DEF LeaseOK, At
  <2>5. CASE call'[c]["main"] = call[c]["main"]
    <3>1. PICK x : x = call[c]["main"].lease
      OBVIOUS
    <3>2. At(c, "main", "recheck") => held[c] = NoLease /\ x \notin inForce'
      BY <1>i, <1>f, <3>1 DEF WorkOK, LeaseOK, Owned, HoldsLease
    <3>3. ~At(c, "main", "recheck") => x \in {NoLease, held[c]}
      BY <1>i, <3>1 DEF WorkOK, LeaseOK
    <3> QED BY <1>c, <1>h, <2>2, <2>3, <2>5, <3>1, <3>2, <3>3 DEF LeaseOK, At
  <2> QED BY <2>4, <2>5, <1>k, Kinds
<1>2. RecoveryHolds(c)'
  BY <1>c, <1>n, <1>k, Kinds DEF RecoveryHolds, Idle, At
<1>3. MainOK(c)'
  <2>1. CASE call'[c]["main"] = NoCall
    BY <1>i, <1>c, <1>n, <2>1 DEF WorkOK, MainOK
  <2>2. CASE call'[c]["main"] = call[c]["main"] /\ call'[c]["main"] # NoCall
    <3>1. client'[c] \in {client[c], "gone"}
      BY <1>c, <2>2, Kinds
    <3>2. PICK x : x = call[c]["main"].lease
      OBVIOUS
    <3> QED BY <1>i, <1>c, <1>f, <2>2, <3>1, <3>2 DEF WorkOK, MainOK
  <2> QED BY <2>1, <2>2, <1>k, Kinds
<1>4. BeatOK(c)'
  <2>1. PICK x : x = call'[c]["beat"].lease
    OBVIOUS
  <2>2. ~HoldsLease(c, call[c]["beat"].lease)'
    BY <1>f, <2>1 DEF HoldsLease
  <2>3. /\ call'[c]["beat"].at \in {"idle", "refresh", "check"}
        /\ call'[c]["beat"].at = "refresh" => Prepared(call'[c]["beat"].cp.pub)
    BY <1>i, <1>k, <1>n, Kinds DEF WorkOK, BeatOK
  <2> QED BY <2>2, <2>3 DEF BeatOK, Prepared
<1>5. RowEvidence(c)'
  <2>1. PICK cp, sha : cp = row[c].cp /\ sha = row[c].sha
    OBVIOUS
  <2>2. Evidence(cp, sha) => Evidence(cp, sha)'
    BY <1>i, <1>g, EvidenceStays
  <2> QED BY <1>i, <1>c, <2>1, <2>2 DEF WorkOK, RowEvidence, Evidence, Verified, QAHeadChanged
<1>6. ASSUME NEW k \in Kind PROVE CallsOK(c, k)'
  <2>1. CASE call'[c][k] = NoCall
    BY <1>n, <2>1 DEF CallsOK, CallEvidence, WriteOK, Landing, Idle, At
  <2>2. CASE k # kind /\ call'[c][k] = call[c][k]
    <3>1. CallsOK(c, k)
      BY <1>i DEF WorkOK
    <3>2. CallEvidence(c, k)' /\ WriteOK(c, k)'
      BY <1>i, <1>c, <1>g, <2>2, <3>1, CallEvidenceStays, WriteStays DEF CallsOK
    <3>3. Landing(c, k)'
      BY <2>2 DEF Landing, At
    <3> QED BY <3>2, <3>3 DEF CallsOK
  <2> QED BY <2>1, <2>2, <1>c
<1>7. Declaring(c)'
  BY DEF Declaring
<1>8. PubOK(c)'
  <2>1. \A d \in Claim \ {c} : row'[d] = row[d]
    BY DEF Closes, Untouched
  <2> QED BY <1>i, <1>c, <2>1 DEF WorkOK, PubOK, Prepared
<1>9. Publishing(c)'
  <2>1. call'[c]["main"].at \notin {"commit", "move"}
    BY <1>c, <1>n, <1>k, Kinds
  <2>2. call'[c]["main"].op = "reports" => call'[c]["main"].at \in {"commit", "move"}
    BY <1>3 DEF MainOK
  <2> QED BY <2>1, <2>2 DEF Publishing
<1>10. Undisturbed(c)'
  BY <1>c, <1>h DEF Undisturbed, Entitled
<1> QED BY <1>1, <1>2, <1>3, <1>4, <1>5, <1>6, <1>7, <1>8, <1>9, <1>10 DEF WorkOK

\* It leaves the others alone.
LEMMA CloseSpares ==
    ASSUME RInv, NEW c \in Claim, NEW kind \in Kind, NEW l, Closes(c, kind, l)
    PROVE  Spares(c) /\ Modest(c) /\ UNCHANGED <<head, route, result>>
<1>i. IInv /\ LeaseOK(c)
  BY DEF RInv, WorkOK
<1>f. l \in Uses(c) /\ Uses(c)' \subseteq Uses(c)
  BY <1>i, CloseFrees
<1>1. \A d \in Claim \ {c} : Untouched(d) /\ Kept(d)
  BY <1>i, <1>f, EndingKeeps DEF Closes
<1>2. Grown /\ UNCHANGED <<head, route, result>>
  BY DEF Closes, Grown, pull, evidence
<1>3. call'[c]["main"] \in {call[c]["main"], NoCall} /\ NoCall.at = "idle"
  BY Kinds, NoCallIdle DEF Closes, Handles
<1>4. Modest(c)
  BY <1>f, <1>3 DEF Modest, Closes, NotAt, NextNotAt, At
<1> QED BY <1>1, <1>2, <1>4 DEF Spares

-----------------------------------------------------------------------------
(* Handlers that begin, go on and end *)

LEMMA Together ==
    ASSUME RInv, IInv', NEW c \in Claim, Spares(c), Modest(c), UNCHANGED <<head, route, result>>,
           WorkOK(c)', NEW d \in Claim
    PROVE  WorkOK(d)'
BY OthersSpared

\* A handler that is not about to write has only its evidence to answer for.
LEMMA NotWriting ==
    ASSUME Typed, Grown, NEW c \in Claim, NEW kind \in Kind, NEW n,
           call'[c][kind] = n, n.at \notin {"verify", "put"},
           n.at = "idle" \/ Evidence(n.cp, n.sha)
    PROVE  CallsOK(c, kind)'
<1>1. Evidence(n.cp, n.sha) => Evidence(n.cp, n.sha)'
  BY EvidenceStays
<1>2. CallEvidence(c, kind)'
  BY <1>1 DEF CallEvidence, Idle, At, Evidence, Verified, QAHeadChanged
<1> QED BY <1>2 DEF CallsOK, WriteOK, Landing

LEMMA UnchangedGrown ==
    ASSUME Typed, UNCHANGED <<evidence>>, made \subseteq made'
    PROVE  Grown /\ result' = result
BY DEF Grown, evidence

\* A handler of the claim goes on, and its row stays or gets another checkpoint.
LEMMA GoesOn ==
    ASSUME RInv, NEW c \in Claim, NEW kind \in Kind, NEW n, Outcome(c), Handles(c, kind, n),
           \/ UNCHANGED own
           \/ \E k \in Sha \cup {Projection}, l \in Lease \cup {NoLease} : Obtains(k, l),
           UNCHANGED <<pull, evidence, held>>, Bound(c), row'[c].cp.pub = row[c].cp.pub,
           n.lease \in {NoLease, held[c], call[c][kind].lease},
           client'[c] \in {"declared", "pushed"} => client'[c] = client[c],
           kind = "main" => n.at \notin {"claim", "move"},
           RowEvidence(c)', CallsOK(c, kind)'
    PROVE  Moves(c, kind, n) /\ Spares(c) /\ Modest(c) /\ UNCHANGED <<head, route, result>>
<1>i. IInv
  BY DEF RInv
<1>1. \A d \in Claim : Kept(d)
  BY <1>i, TakingKeeps
<1>2. Grown /\ UNCHANGED <<head, route, result>>
  BY DEF Grown, pull, evidence
<1>3. \A d \in Claim \ {c} : Untouched(d)
  BY DEF Outcome
<1>4. Moves(c, kind, n)
  BY <1>1, <1>2, <1>3 DEF Moves
<1>5. Uses(c)' \subseteq Uses(c)
  BY <1>i, <1>4, MoveUses
<1>6. call'[c]["main"] = call[c]["main"] \/ call'[c]["main"].at \notin {"claim", "move"}
  BY Kinds DEF Handles
<1>7. Modest(c)
  BY <1>5, <1>6 DEF Modest, Bound, NotAt, NextNotAt, At
<1> QED BY <1>1, <1>2, <1>3, <1>4, <1>7 DEF Spares

LEMMA RowStays ==
    ASSUME Typed, NEW c \in Claim, row'[c] = row[c], UNCHANGED evidence, made \subseteq made',
           RowEvidence(c)
    PROVE  RowEvidence(c)' /\ Bound(c) /\ row'[c].cp.pub = row[c].cp.pub
BY RowEvidenceStays DEF Grown, evidence, Bound

\* A request of the worker begins with what the row has.
LEMMA MainBegins ==
    ASSUME RInv, IInv', NEW c \in Claim, Outcome(c),
           NEW op \in {"start", "confirm", "advance"}, NEW step \in {"plan", "refresh"},
           Begins(c, "main", op, step, held[c]), Owned(c, held[c]),
           \/ UNCHANGED own
           \/ \E k \in Sha \cup {Projection}, l \in Lease \cup {NoLease} : Obtains(k, l),
           UNCHANGED <<pull, evidence, row, held>>,
           step = "plan" => op \in {"start", "advance"},
           \/ client'[c] = "starting"
           \/ op # "start" /\ client'[c] = client[c] /\ client[c] \notin {"new", "declared"},
           NEW d \in Claim
    PROVE  WorkOK(d)'
<1>i. IInv /\ WorkOK(c) /\ Typed /\ TypeOK
  BY DEF RInv, IInv, Typed
<1> DEFINE n == Request(op, step, held[c], row[c].sha, row[c].cp)
<1>n. /\ Handles(c, "main", n) /\ n \in Calls
      /\ n.op = op /\ n.at = step /\ n.lease = held[c] /\ n.sha = row[c].sha /\ n.cp = row[c].cp
  <2>1. held[c] \in Lease \cup {NoLease}
    BY <1>i DEF TypeOK
  <2> QED BY <1>i, <2>1, Kinds, Began
<1> HIDE DEF n
<1>c. call'[c]["main"] = n /\ Idle(c, "main") /\ row'[c] = row[c] /\ held'[c] = held[c]
  BY <1>n DEF Handles, Begins
<1>1. Grown
  BY <1>i, UnchangedGrown DEF pull
<1>2. RowEvidence(c)' /\ Bound(c) /\ row'[c].cp.pub = row[c].cp.pub
  BY <1>i, <1>c, RowStays DEF WorkOK, pull
<1>3. CallsOK(c, "main")'
  BY <1>i, <1>n, <1>c, <1>1, Kinds, NotWriting DEF WorkOK, RowEvidence
<1>4. Moves(c, "main", n) /\ Spares(c) /\ Modest(c) /\ UNCHANGED <<head, route, result>>
  BY <1>n, <1>2, <1>3, Kinds, GoesOn DEF Executing
<1>5. MainOK(c)'
  BY <1>n, <1>c DEF MainOK
<1>6. Idle(c, "recovery")
  BY <1>i, OneHolder DEF WorkOK, Owned
<1>7. WorkOK(c)'
  BY <1>n, <1>c, <1>4, <1>5, <1>6, MainMoves DEF Idle, At, Executing
<1> QED BY <1>4, <1>7, Together

LEMMA StartBeginWork ==
    ASSUME RInv, IInv', NEW c \in Claim, Outcome(c), StartBegin(c), NEW d \in Claim
    PROVE  WorkOK(d)'
<1>1. client'[c] = "starting"
  BY DEF StartBegin, Becomes, RInv, IInv, Typed, TypeOK
<1>2. held[c] \in Lease \cup {NoLease}
  BY DEF RInv, IInv, Typed, TypeOK
<1> QED BY <1>1, <1>2, MainBegins DEF StartBegin

LEMMA AdvanceBeginWork ==
    ASSUME RInv, IInv', NEW c \in Claim, Outcome(c), AdvanceBegin(c), NEW d \in Claim
    PROVE  WorkOK(d)'
<1>1. held[c] \in Lease \cup {NoLease}
  BY DEF RInv, IInv, Typed, TypeOK
<1> QED BY <1>1, MainBegins DEF AdvanceBegin, worker

LEMMA ConfirmBeginWork ==
    ASSUME RInv, IInv', NEW c \in Claim, Outcome(c), ConfirmBegin(c), NEW d \in Claim
    PROVE  WorkOK(d)'
BY MainBegins DEF ConfirmBegin, worker

LEMMA Quietly ==
    ASSUME Favourable, Typed, phase \in CodePhases \cup ReportPhases
    PROVE  QuietPublication
BY DEF Favourable, Typed, TypeOK

LEMMA HeartbeatBeginWork ==
    ASSUME Favourable, RInv, IInv', NEW c \in Claim, Outcome(c), HeartbeatBegin(c), NEW d \in Claim
    PROVE  WorkOK(d)'
<1>i. IInv /\ WorkOK(c) /\ Typed /\ TypeOK
  BY DEF RInv, IInv, Typed
<1> DEFINE step == IF row[c].cp.pub.status = "prepared" THEN "refresh" ELSE "check"
           n == Request("heartbeat", step, held[c], row[c].sha, row[c].cp)
<1>n. /\ Handles(c, "beat", n) /\ n \in Calls
      /\ n.at = step /\ n.lease = held[c] /\ n.sha = row[c].sha /\ n.cp = row[c].cp
  <2>1. held[c] \in Lease \cup {NoLease}
    BY <1>i DEF TypeOK
  <2> HIDE DEF step
  <2>2. step \in {"refresh", "check"}
    BY DEF step
  <2>3. Begins(c, "beat", "heartbeat", step, held[c])
    BY DEF HeartbeatBegin, step
  <2> QED BY <1>i, <2>1, <2>2, <2>3, Kinds, Began
<1> HIDE DEF n
<1>c. /\ call'[c]["beat"] = n /\ row'[c] = row[c] /\ held' = held /\ client' = client
      /\ UNCHANGED <<own, pull, evidence>> /\ client[c] \in Executing /\ Owned(c, held[c])
  BY <1>n DEF Handles, HeartbeatBegin, worker
<1>1. Grown
  BY <1>i, <1>c, UnchangedGrown DEF pull
<1>2. RowEvidence(c)' /\ Bound(c) /\ row'[c].cp.pub = row[c].cp.pub
  BY <1>i, <1>c, RowStays DEF WorkOK, pull
<1>3. CallsOK(c, "beat")'
  BY <1>i, <1>n, <1>c, <1>1, Kinds, NotWriting DEF WorkOK, RowEvidence
<1>4. Moves(c, "beat", n) /\ Spares(c) /\ Modest(c) /\ UNCHANGED <<head, route, result>>
  BY <1>n, <1>c, <1>2, <1>3, Kinds, GoesOn
<1>5. Prepared(row[c].cp.pub) => QuietPublication
  <2>1. Prepared(row[c].cp.pub) => phase \in CodePhases
    BY <1>i DEF IInv, ClaimOK, RowOK, Declared, Prepared, NoPub
  <2> QED BY <1>i, <2>1, Quietly
<1>6. client[c] # "declared"
  BY <1>i, <1>5 DEF WorkOK, Declaring, HeartbeatBegin
<1>7. call[c]["main"].op # "reports"
  <2>1. call[c]["main"].op = "reports" => phase \in ReportPhases
    BY <1>i, Kinds DEF WorkOK, MainOK, IInv, ClaimOK, CallOK
  <2> QED BY <1>i, <2>1, Quietly DEF HeartbeatBegin
<1>8. Prepared(row[c].cp.pub) => head # row[c].sha
  BY <1>i, <1>c, <1>6 DEF WorkOK, PubOK, IInv, ClaimOK, RowOK, Executing
<1>9. BeatOK(c)'
  BY <1>n, <1>c, <1>8 DEF BeatOK, Prepared, pull
<1>10. WorkOK(c)'
  BY <1>n, <1>c, <1>4, <1>6, <1>7, <1>9, BeatMoves
<1> QED BY <1>4, <1>10, Together

\* A handler that ends without having done anything more.
LEMMA EndsQuietly ==
    ASSUME RInv, IInv', NEW c \in Claim, NEW kind \in Kind, Outcome(c), Ends(c, kind),
           UNCHANGED <<own, pull, evidence, row, held>>,
           kind = "main" => ~At(c, "main", "move"),
           \/ client'[c] = client[c]
           \/ client'[c] = "gone" /\ client[c] # "new"
           \/ kind = "main" /\ client[c] = "pushed" /\ client'[c] = "working",
           ~Idle(c, kind),
           NEW d \in Claim
    PROVE  WorkOK(d)'
<1>i. IInv /\ WorkOK(c) /\ Typed /\ TypeOK
  BY DEF RInv, IInv, Typed
<1>n. /\ Handles(c, kind, NoCall) /\ NoCall \in Calls /\ NoCall.at = "idle" /\ NoCall.op = "none"
      /\ NoCall.lease = NoLease
  BY <1>i, Ended, Nulls DEF NoCall, Request
<1>c. call'[c][kind] = NoCall /\ row'[c] = row[c] /\ held'[c] = held[c]
  BY <1>n DEF Handles
<1>1. Grown
  BY <1>i, UnchangedGrown DEF pull
<1>2. RowEvidence(c)' /\ Bound(c) /\ row'[c].cp.pub = row[c].cp.pub
  BY <1>i, <1>c, RowStays DEF WorkOK, pull
<1>3. CallsOK(c, kind)'
  BY <1>i, <1>n, <1>c, <1>1, NotWriting
<1>p. client'[c] \in {"declared", "pushed"} => client'[c] = client[c]
  OBVIOUS
<1>4. Moves(c, kind, NoCall) /\ Spares(c) /\ Modest(c) /\ UNCHANGED <<head, route, result>>
  BY <1>n, <1>2, <1>3, <1>p, GoesOn
<1>5. kind \in {"main", "beat"} => client[c] # "declared"
  BY <1>i DEF WorkOK, Declaring
<1>6. WorkOK(c)'
  <2>1. CASE kind = "main"
    <3>1. MainOK(c)'
      BY <1>i, <1>n, <1>c, <2>1 DEF MainOK, WorkOK
    <3> QED BY <1>n, <1>c, <1>4, <1>5, <2>1, <3>1, MainMoves DEF Executing
  <2>2. CASE kind = "beat"
    <3>1. BeatOK(c)'
      BY <1>n, <1>c, <2>2 DEF BeatOK
    <3> QED BY <1>n, <1>c, <1>4, <1>5, <2>2, <3>1, BeatMoves
  <2>3. CASE kind = "recovery"
    <3>1. RecoveryHolds(c)'
      BY <1>n, <1>c, <2>3 DEF RecoveryHolds
    <3> QED BY <1>n, <1>c, <1>4, <2>3, <3>1, RecoveryMoves
  <2> QED BY <2>1, <2>2, <2>3 DEF Kind
<1> QED BY <1>4, <1>6, Together

LEMMA AbortWork ==
    ASSUME Favourable, RInv, IInv', NEW c \in Claim, NEW kind \in Kind, Outcome(c),
           Abort(c, kind), NEW d \in Claim
    PROVE  WorkOK(d)'
<1>i. IInv /\ WorkOK(c) /\ Typed
  BY DEF RInv, IInv
<1>1. ASSUME kind = "main" PROVE ~At(c, "main", "move")
  <2>1. At(c, "main", "move") => phase \in ReportPhases
    BY <1>i, Kinds DEF IInv, ClaimOK, CallOK, At
  <2> QED BY <1>i, <1>1, <2>1, Quietly DEF Abort
<1> QED BY <1>1, EndsQuietly DEF Abort, worker

LEMMA ConfirmDoneWork ==
    ASSUME RInv, IInv', NEW c \in Claim, Outcome(c), ConfirmDone(c), NEW d \in Claim
    PROVE  WorkOK(d)'
<1>i. IInv /\ WorkOK(c) /\ Typed /\ TypeOK
  BY DEF RInv, IInv, Typed
<1>1. client'[c] = IF client[c] = "pushed" THEN "working" ELSE client[c]
  BY <1>i DEF ConfirmDone, TypeOK
<1>2. ~At(c, "main", "move") /\ ~Idle(c, "main")
  BY DEF ConfirmDone, Idle, At
<1> QED BY <1>1, <1>2, Kinds, EndsQuietly DEF ConfirmDone

LEMMA CallStays ==
    ASSUME IInv, IInv', Grown, NEW c \in Claim, NEW kind \in Kind,
           call'[c][kind] = call[c][kind], Bound(c), Kept(c), UNCHANGED <<head, route>>,
           kind = "recovery" /\ call[c][kind].at \in {"verify", "put"}
               => result'[call[c][kind].sha] = result[call[c][kind].sha],
           CallsOK(c, kind)
    PROVE  CallsOK(c, kind)'
<1>1. Typed
  BY DEF IInv
<1>2. CallEvidence(c, kind)' /\ WriteOK(c, kind)' /\ Landing(c, kind)'
  BY <1>1, CallEvidenceStays, WriteStays, LandingStays DEF CallsOK
<1> QED BY <1>2 DEF CallsOK

LEMMA WorkerStopsWork ==
    ASSUME RInv, IInv', NEW c \in Claim, Outcome(c), WorkerStops(c), NEW d \in Claim
    PROVE  WorkOK(d)'
<1>i. IInv /\ WorkOK(c) /\ Typed /\ TypeOK
  BY DEF RInv, IInv, Typed
<1> DEFINE n == call[c]["recovery"]
<1>c. /\ UNCHANGED <<own, pull, evidence, row, held, call>> /\ client'[c] = "gone"
      /\ client[c] # "new"
  BY <1>i DEF WorkerStops, Becomes, TypeOK
<1>n. Handles(c, "recovery", n)
  BY <1>i, <1>c, Kinds DEF Handles, TypeOK
<1>1. Grown
  BY <1>i, <1>c, UnchangedGrown DEF pull
<1>2. RowEvidence(c)' /\ Bound(c) /\ row'[c].cp.pub = row[c].cp.pub
  BY <1>i, <1>c, RowStays DEF WorkOK, pull
<1>k. Kept(c)
  BY <1>i, <1>c, TakingKeeps
<1>3. CallsOK(c, "recovery")'
  BY <1>i, <1>c, <1>1, <1>2, <1>k, Kinds, CallStays DEF WorkOK, pull, evidence
<1>4. Moves(c, "recovery", n) /\ Spares(c) /\ Modest(c) /\ UNCHANGED <<head, route, result>>
  BY <1>n, <1>c, <1>2, <1>3, Kinds, GoesOn
<1>5. RecoveryHolds(c)'
  BY <1>i, <1>c, <1>k, RecoveryStays DEF WorkOK
<1>6. WorkOK(c)'
  BY <1>c, <1>4, <1>5, RecoveryMoves
<1> QED BY <1>4, <1>6, Together

LEMMA PostResultWork ==
    ASSUME Favourable, RInv, IInv', NEW c \in Claim, Outcome(c),
           NEW r \in {"passed", "failed"}, PostResult(c, r), NEW d \in Claim
    PROVE  WorkOK(d)'
<1>i. IInv /\ WorkOK(c) /\ WorkOK(d) /\ Typed /\ TypeOK
  BY DEF RInv, IInv, Typed
<1>c. UNCHANGED <<own, pull, phase, ci, row, worker, call>>
  BY DEF PostResult
<1>r. \A s : s # row[c].sha => result'[s] = result[s]
  BY <1>i DEF PostResult, TypeOK
<1>1. Grown
  BY <1>i, <1>c DEF Grown, PostResult, TypeOK, pull
<1>o. Owned(c, held[c])
  BY <1>i DEF Favourable, PostResult, WorkOK, LeaseOK
<1>k. \A e \in Claim : Kept(e)
  BY <1>i, <1>c, TakingKeeps
<1>2. CASE d # c
  <2>1. Untouched(d)
    BY <1>c DEF Untouched, worker
  <2>2. Modest(c)
    BY <1>i, <1>c DEF Modest, NotAt, NextNotAt, At, Uses, worker
  <2>3. \A e \in Claim \ {c} : Untouched(e)
    BY <1>c DEF Untouched, worker
  <2>4. OthersMind(d)
    BY <1>i, <1>2, <2>2, <2>3, ModestMinded
  <2>5. call[d]["recovery"].at \in {"verify", "put"}
            => result'[call[d]["recovery"].sha] = result[call[d]["recovery"].sha]
    <3>1. SUFFICES ASSUME call[d]["recovery"].at \in {"verify", "put"},
                          call[d]["recovery"].sha = row[c].sha
                   PROVE  FALSE
      BY <1>r
    <3>2. PICK l : l = call[d]["recovery"].lease
      OBVIOUS
    <3>3. HoldsLease(d, l) /\ owner[row[c].sha] = l
      BY <1>i, <3>1, <3>2 DEF WorkOK, RecoveryHolds
    <3>4. l \in Uses(d) /\ l # NoLease
      BY <1>i, <3>2, <3>3, BoundTo DEF Uses
    <3>5. l \in Uses(c)
      BY <1>o, <3>3, <3>4 DEF Owned, HoldsLease, Uses
    <3> QED BY <1>i, <1>2, <3>4, <3>5 DEF WorkOK, LeaseOK
  <2> QED BY <1>i, <1>c, <1>1, <1>k, <2>1, <2>4, <2>5, OthersStay DEF pull
<1>3. WorkOK(c)'
  <2> DEFINE n == call[c]["recovery"]
  <2>n. Handles(c, "recovery", n)
    BY <1>i, <1>c, Kinds DEF Handles, TypeOK
  <2>1. Idle(c, "recovery")
    BY <1>i, <1>o, OneHolder DEF WorkOK, Owned
  <2>2. RowEvidence(c)' /\ Bound(c)
    BY <1>i, <1>c, <1>1, RowEvidenceStays DEF WorkOK, Bound
  <2>3. CallsOK(c, "recovery")'
    BY <1>i, <1>c, <1>1, <1>k, <2>1, <2>2, Kinds, CallStays DEF WorkOK, Idle, At, pull
  <2>4. \A e \in Claim \ {c} : Untouched(e)
    BY <1>c DEF Untouched, worker
  <2>5. Moves(c, "recovery", n)
    BY <1>c, <1>1, <1>k, <2>n, <2>1, <2>2, <2>3, <2>4 DEF Moves, worker, pull
  <2>6. RecoveryHolds(c)'
    BY <1>i, <1>c, <1>k, RecoveryStays DEF WorkOK
  <2> QED BY <1>c, <2>5, <2>6, RecoveryMoves DEF worker
<1> QED BY <1>2, <1>3

-----------------------------------------------------------------------------
(* Steps that no claim takes part in *)

LEMMA NobodyMoves ==
    ASSUME IInv, NEW d \in Claim, WorkOK(d), \A e \in Claim : Untouched(e)
    PROVE  OthersMind(d)
<1>1. \A e \in Claim : /\ row'[e] = row[e] /\ call'[e] = call[e] /\ Uses(e)' = Uses(e)
                       /\ \A sha : NotAt(e, sha) => NextNotAt(e, sha)
  BY DEF Untouched, Uses, NotAt, NextNotAt, At
<1>2. \A e \in Claim \ {d} :
          /\ Prepared(row[d].cp.pub) /\ row[d].status = "running" => NotAt(e, row[d].cp.pub.to)
          /\ At(d, "main", "move") =>
                 /\ call[e]["main"].at # "move"
                 /\ call[d]["main"].new # call[d]["main"].sha => NotAt(e, call[d]["main"].new)
  BY DEF WorkOK, PubOK, Publishing, At
<1> QED BY <1>1, <1>2 DEF OthersMind

LEMMA CIPassesWork ==
    ASSUME RInv, IInv', CIPasses \/ UNCHANGED vars, NEW d \in Claim
    PROVE  WorkOK(d)'
<1>i. IInv /\ WorkOK(d) /\ Typed /\ TypeOK
  BY DEF RInv, IInv, Typed
<1>1. UNCHANGED <<own, head, route, made, phase, result, row, worker, call>>
  BY DEF CIPasses, vars, pull, evidence
<1>2. Grown
  BY <1>1 DEF Grown, CIPasses, vars, evidence
<1>3. \A e \in Claim : Untouched(e)
  BY <1>1 DEF Untouched, worker
<1>4. Kept(d)
  BY <1>i, <1>1, TakingKeeps
<1>5. OthersMind(d)
  BY <1>i, <1>3, NobodyMoves
<1> QED BY <1>i, <1>1, <1>2, <1>3, <1>4, <1>5, OthersStay

LEMMA ExpireWork ==
    ASSUME Favourable, RInv, IInv', NEW l \in Lease, Expire(l), NEW d \in Claim
    PROVE  WorkOK(d)'
<1>i. IInv /\ WorkOK(d) /\ Typed /\ TypeOK
  BY DEF RInv, IInv, Typed
<1>u. UNCHANGED <<head, route, made, phase, ci, result, row, client, held, call>>
  BY DEF Expire, pull, evidence, worker
<1>e. /\ inForce' = inForce \ {l}
      /\ \A k \in Sha \cup {Projection} : owner[k] # l => owner'[k] = owner[k]
  BY DEF Expire, Own!End
<1>f. /\ Idle(d, "recovery") /\ ~At(d, "main", "claim")
      /\ \A kind \in Kind : call[d][kind].at \in {"put", "commit", "move"}
                                => call[d][kind].lease # l
      /\ client[d] = "declared" => held[d] # l
  BY DEF Favourable, Expire, InFlight
<1>h. \A x : HoldsLease(d, x)' => HoldsLease(d, x)
  BY <1>u, <1>e DEF HoldsLease
<1>o. ASSUME NEW x, x # l, Owned(d, x) PROVE Owned(d, x)'
  <2>1. row[d].sha \in Sha
    BY <1>i, <1>o, BoundTo DEF Owned
  <2> QED BY <1>u, <1>e, <1>o, <2>1 DEF Owned, HoldsLease
<1>p. PICK h, x, b : h = held[d] /\ x = call[d]["main"].lease /\ b = call[d]["beat"].lease
  OBVIOUS
<1>g. Grown
  BY <1>u DEF Grown
<1>1. LeaseOK(d)'
  <2>1. \A e \in Claim : Uses(e)' = Uses(e)
    BY <1>u DEF Uses
  <2>2. h \in inForce' => Owned(d, h)'
    BY <1>i, <1>e, <1>o, <1>p DEF WorkOK, LeaseOK
  <2>3. At(d, "main", "recheck") /\ x \in inForce' => Owned(d, x)'
    BY <1>i, <1>e, <1>o, <1>p DEF WorkOK, LeaseOK
  <2> QED BY <1>i, <1>u, <1>p, <2>1, <2>2, <2>3 DEF WorkOK, LeaseOK, Owned, HoldsLease, At
<1>2. RecoveryHolds(d)'
  BY <1>u, <1>f DEF RecoveryHolds, Idle, At
<1>3. MainOK(d)'
  <2>1. HoldsLease(d, x)' => HoldsLease(d, x)
    BY <1>h
  <2> QED BY <1>i, <1>u, <1>p, <2>1 DEF WorkOK, MainOK, HoldsLease
<1>4. BeatOK(d)'
  <2>1. HoldsLease(d, b)' => HoldsLease(d, b)
    BY <1>h
  <2> QED BY <1>i, <1>u, <1>p, <2>1 DEF WorkOK, BeatOK, HoldsLease, Prepared
<1>5. RowEvidence(d)'
  BY <1>i, <1>u, <1>g, RowEvidenceStays DEF WorkOK
<1>6. ASSUME NEW kind \in Kind PROVE CallsOK(d, kind)'
  <2>1. CallsOK(d, kind)
    BY <1>i DEF WorkOK
  <2>2. CallEvidence(d, kind)' /\ WriteOK(d, kind)'
    BY <1>i, <1>u, <1>g, <2>1, CallEvidenceStays, WriteStays DEF CallsOK
  <2>3. Landing(d, kind)'
    <3>1. PICK y : y = call[d][kind].lease
      OBVIOUS
    <3>2. call[d][kind].at = "put" => Owned(d, y)' /\ owner'[Projection] = y
      BY <1>e, <1>f, <1>o, <2>1, <3>1 DEF CallsOK, Landing
    <3> QED BY <1>u, <2>1, <3>1, <3>2 DEF CallsOK, Landing, Owned, HoldsLease
  <2> QED BY <2>2, <2>3 DEF CallsOK
<1>7. Declaring(d)'
  <2>1. client[d] = "declared" => Owned(d, h)'
    BY <1>i, <1>f, <1>o, <1>p DEF WorkOK, Declaring
  <2> QED BY <1>i, <1>u, <1>p, <2>1 DEF WorkOK, Declaring, Owned, HoldsLease, Idle, At, Prepared
<1>8. PubOK(d)'
  BY <1>i, <1>u DEF WorkOK, PubOK, NotAt, At, Prepared
<1>9. Publishing(d)'
  <2>1. call[d]["main"].at \in {"commit", "move"} => Owned(d, x)'
    BY <1>i, <1>f, <1>o, <1>p, Kinds DEF WorkOK, Publishing
  <2> QED BY <1>i, <1>u, <1>p, <2>1
          DEF WorkOK, Publishing, Owned, HoldsLease, NotAt, Idle, At
<1>10. Undisturbed(d)'
  BY <1>i, <1>u, <1>e DEF WorkOK, Undisturbed, Entitled, Follows, At
<1> QED BY <1>1, <1>2, <1>3, <1>4, <1>5, <1>6, <1>7, <1>8, <1>9, <1>10 DEF WorkOK

-----------------------------------------------------------------------------
(* Steps towards a write *)

\* A request in a step of its own presents the worker's lease, and its worker is there.
LEMMA MainRequest ==
    ASSUME IInv, NEW c \in Claim, WorkOK(c), ~Idle(c, "main"), ~At(c, "main", "recheck")
    PROVE  /\ call[c]["main"].lease \in {NoLease, held[c]}
           /\ client[c] \notin {"new", "declared"}
BY DEF WorkOK, LeaseOK, MainOK, Declaring, Idle, At

LEMMA WriteVerifyWork ==
    ASSUME RInv, IInv', NEW c \in Claim, NEW kind \in Kind, Outcome(c), WriteVerify(c, kind),
           NEW d \in Claim
    PROVE  WorkOK(d)'
<1>i. IInv /\ WorkOK(c) /\ Typed /\ TypeOK
  BY DEF RInv, IInv, Typed
<1> DEFINE m == call[c][kind]
           step == IF m.seen = m.to THEN "done" ELSE "put"
           n == [m EXCEPT !.at = step]
<1>n. Handles(c, kind, n) /\ n \in Calls
  BY <1>i, Went DEF WriteVerify
<1>f. /\ n.at = step /\ n.to = m.to /\ n.lease = m.lease /\ n.sha = m.sha /\ n.cp = m.cp
      /\ n.op = m.op /\ n.seen = m.seen
  BY <1>i DEF TypeOK, Calls
<1>c. /\ UNCHANGED <<own, pull, evidence, row, worker>> /\ m.at = "verify"
      /\ head = m.sha /\ route = m.seen /\ Owned(c, m.lease) /\ owner[Projection] = m.lease
  BY DEF WriteVerify, Sees
<1>w. WriteOK(c, kind) /\ CallEvidence(c, kind)
  BY <1>i DEF WorkOK, CallsOK
<1> HIDE DEF n
<1>x. call'[c][kind] = n
  BY <1>n DEF Handles
<1>s. m.sha = row[c].sha /\ kind # "beat"
  <2>1. kind # "beat"
    BY <1>w, <1>c DEF WriteOK
  <2>2. CASE kind = "main"
    BY <1>i, <1>c, <2>2 DEF WorkOK, MainOK, Owned
  <2>3. CASE kind = "recovery"
    BY <1>i, <1>c, <2>3 DEF WorkOK, RecoveryHolds
  <2> QED BY <2>1, <2>2, <2>3 DEF Kind
<1>1. CallsOK(c, kind)'
  <2>1. CallEvidence(c, kind)'
    BY <1>w, <1>c, <1>f, <1>x
       DEF CallEvidence, Idle, At, Evidence, Verified,
           QAHeadChanged, evidence
  <2>2. WriteOK(c, kind)'
    BY <1>w, <1>c, <1>f, <1>x DEF WriteOK, Verified, evidence
  <2>3. Landing(c, kind)'
    BY <1>c, <1>f, <1>x, <1>s DEF Landing, Owned, HoldsLease, own, pull
  <2> QED BY <2>1, <2>2, <2>3 DEF CallsOK
<1>2. RowEvidence(c)' /\ Bound(c) /\ row'[c].cp.pub = row[c].cp.pub
  BY <1>i, <1>c, RowStays DEF WorkOK, pull
<1>3. Moves(c, kind, n) /\ Spares(c) /\ Modest(c) /\ UNCHANGED <<head, route, result>>
  BY <1>n, <1>f, <1>c, <1>1, <1>2, GoesOn DEF worker
<1>4. WorkOK(c)'
  <2>1. CASE kind = "main"
    <3>1. m.lease \in {NoLease, held[c]} /\ client[c] \notin {"new", "declared"}
      BY <1>i, <1>c, <2>1, MainRequest DEF Idle, At
    <3>2. m.op \in {"start", "advance", "decision"}
      BY <1>i, <1>c, <2>1 DEF WorkOK, MainOK
    <3>3. MainOK(c)'
      BY <1>i, <1>f, <1>c, <1>x, <2>1, <3>1, <3>2 DEF WorkOK, MainOK, Owned, HoldsLease, worker
    <3> QED BY <1>c, <1>f, <1>3, <2>1, <3>1, <3>2, <3>3, MainMoves DEF At, worker
  <2>2. CASE kind = "recovery"
    <3>1. RecoveryHolds(c)'
      BY <1>i, <1>f, <1>c, <1>x, <2>2 DEF WorkOK, RecoveryHolds, HoldsLease, own
    <3> QED BY <1>c, <1>3, <2>2, <3>1, RecoveryMoves DEF worker
  <2> QED BY <1>s, <2>1, <2>2 DEF Kind
<1> QED BY <1>3, <1>4, Together

\* The call takes its plan.
Planning(c, m, cp, to) == call' = [call EXCEPT ![c]["main"] = Plan(m, cp, route, to)]

\* The worker's request records its plan: the route it will write was earned.
LEMMA PlansWork ==
    ASSUME RInv, IInv', NEW c \in Claim, Outcome(c), NEW m, m = call[c]["main"],
           m.at = "plan", m.op \in {"start", "advance"},
           NEW cp \in Checkpoints, Saves(c, m.lease, cp), NEW to \in Route,
           Planning(c, m, cp, to), UNCHANGED <<own, pull, evidence, worker>>,
           cp.pub = m.cp.pub, m.cp.adv # "none" => cp.adv # "none", m.cp.dec => cp.dec,
           Evidence(cp, m.sha),
           route \in {"todo", "running"} \/ route = to,
           to = "next" => Verified(m.sha), to = "review-again" => m.sha \in ci,
           to = "running" => m.op = "start", to # "todo",
           m.op = "advance" => cp.adv = to,
           NEW d \in Claim
    PROVE  WorkOK(d)'
<1>i. IInv /\ WorkOK(c) /\ Typed /\ TypeOK
  BY DEF RInv, IInv, Typed
<1> DEFINE n == Plan(m, cp, route, to)
<1>f. /\ n.at = "verify" /\ n.to = to /\ n.lease = m.lease /\ n.sha = m.sha /\ n.cp = cp
      /\ n.op = m.op /\ n.seen = route /\ n \in Calls
  <2>1. m \in Calls
    BY <1>i, Kinds DEF TypeOK
  <2>2. route \in Route
    BY <1>i DEF TypeOK
  <2> QED BY <2>1, <2>2 DEF Plan, Calls
<1> HIDE DEF n
<1>n. Handles(c, "main", n) /\ call'[c]["main"] = n
  <2>1. call' = [call EXCEPT ![c]["main"] = n]
    BY DEF n, Planning
  <2>2. Handles(c, "main", n)
    BY <1>i, <1>f, <2>1, Kinds, Handled
  <2> QED BY <2>2 DEF Handles
<1>r. /\ Bound(c) /\ row'[c].cp = cp
      /\ HoldsLease(c, m.lease)
  <2>1. LET r == [row[c] EXCEPT !.cp = cp]
        IN /\ Records(c, r) /\ r.status = row[c].status /\ r.lease = row[c].lease
           /\ r.sha = row[c].sha /\ r.cp = cp
    BY <1>i, Saved
  <2> QED BY <2>1 DEF Records, Bound, Saves
<1>m. /\ m.sha = row[c].sha /\ m.cp = row[c].cp /\ m.lease \in {NoLease, held[c]}
      /\ client[c] \notin {"new", "declared"}
  <2>1. m.sha = row[c].sha /\ m.cp = row[c].cp
    BY <1>i, <1>r DEF WorkOK, MainOK
  <2> QED BY <1>i, <2>1, MainRequest DEF Idle, At
<1>g. Grown
  BY <1>i, UnchangedGrown DEF pull
<1>1. CallsOK(c, "main")'
  <2>1. CallEvidence(c, "main")'
    BY <1>f, <1>n DEF CallEvidence, Idle, At, Evidence, Verified,
           QAHeadChanged, evidence
  <2>2. WriteOK(c, "main")'
    BY <1>f, <1>n DEF WriteOK, Verified, evidence
  <2>3. Landing(c, "main")'
    BY <1>f, <1>n DEF Landing
  <2> QED BY <2>1, <2>2, <2>3 DEF CallsOK
<1>2. RowEvidence(c)'
  BY <1>m, <1>r DEF RowEvidence, Bound, Evidence, Verified, QAHeadChanged, evidence
<1>3. row'[c].cp.pub = row[c].cp.pub
  BY <1>m, <1>r
<1>4. Moves(c, "main", n) /\ Spares(c) /\ Modest(c) /\ UNCHANGED <<head, route, result>>
  BY <1>n, <1>f, <1>m, <1>r, <1>1, <1>2, <1>3, Kinds, GoesOn DEF worker
<1>5. MainOK(c)'
  BY <1>i, <1>f, <1>n, <1>r, <1>m DEF WorkOK, MainOK, Bound, worker
<1>6. Idle(c, "recovery")
  BY <1>i, <1>r, OneHolder DEF WorkOK
<1>7. WorkOK(c)'
  BY <1>f, <1>m, <1>r, <1>4, <1>5, <1>6, MainMoves DEF At, worker
<1> QED BY <1>4, <1>7, Together

LEMMA StartPlanWork ==
    ASSUME RInv, IInv', NEW c \in Claim, Outcome(c), StartPlan(c), NEW d \in Claim
    PROVE  WorkOK(d)'
<1>i. IInv /\ WorkOK(c) /\ Typed /\ TypeOK
  BY DEF RInv, IInv, Typed
<1>m. PICK m : m = call[c]["main"]
  OBVIOUS
<1>t. m \in Calls /\ m.cp \in Checkpoints /\ m.lease \in Lease \cup {NoLease}
  BY <1>i, <1>m, Kinds, CallTypes
<1> DEFINE replay == m.cp.starter = m.lease
           cp == IF replay THEN m.cp
                           ELSE [m.cp EXCEPT !.start = "planned", !.starter = m.lease]
<1>c. /\ m.op = "start" /\ m.at = "plan"
      /\ Sees(m.sha, IF replay THEN {"todo", "running"} ELSE {"todo"})
      /\ Saves(c, m.lease, cp)
      /\ call' = [call EXCEPT ![c]["main"] = [m EXCEPT !.at = "verify", !.cp = cp,
                                                      !.seen = route, !.to = "running"]]
      /\ UNCHANGED <<own, pull, evidence, worker>>
  BY <1>m DEF StartPlan
<1>1. /\ cp \in Checkpoints /\ cp.pub = m.cp.pub /\ cp.adv = m.cp.adv /\ cp.dec = m.cp.dec
      /\ cp.rep = m.cp.rep /\ cp.rec = m.cp.rec
  BY <1>t DEF Checkpoints
<1> HIDE DEF cp
<1>2. Evidence(m.cp, m.sha)
  BY <1>i, <1>m, <1>c, Kinds DEF WorkOK, CallsOK, CallEvidence, Idle, At
<1>3. Evidence(cp, m.sha)
  BY <1>1, <1>2 DEF Evidence, QAHeadChanged
<1>4. route \in {"todo", "running"}
  BY <1>c DEF Sees
<1>5. Planning(c, m, cp, "running")
  BY <1>c DEF Plan, Planning
<1>6. /\ m.cp.adv # "none" => cp.adv # "none"
      /\ m.cp.dec => cp.dec
      /\ "running" \in Route /\ m.op \in {"start", "advance"} /\ m.op # "advance"
  BY <1>1, <1>c DEF Route
<1> QED BY <1>m, <1>c, <1>1, <1>3, <1>4, <1>5, <1>6, PlansWork

LEMMA AdvancePlanWork ==
    ASSUME RInv, IInv', NEW c \in Claim, Outcome(c), AdvancePlan(c), NEW d \in Claim
    PROVE  WorkOK(d)'
<1>i. IInv /\ WorkOK(c) /\ Typed /\ TypeOK
  BY DEF RInv, IInv, Typed
<1>m. PICK m : m = call[c]["main"]
  OBVIOUS
<1>t. m \in Calls /\ m.cp \in Checkpoints /\ m.lease \in Lease \cup {NoLease}
  BY <1>i, <1>m, Kinds, CallTypes
<1>c. /\ m.op = "advance" /\ m.at = "plan"
      /\ Sees(m.sha, {"todo", "running"} \cup (IF m.cp.advBy = m.lease THEN {m.cp.adv} ELSE {}))
      /\ UNCHANGED <<own, pull, evidence, worker>>
  BY <1>m DEF AdvancePlan
<1>2. Evidence(m.cp, m.sha)
  BY <1>i, <1>m, <1>c, Kinds DEF WorkOK, CallsOK, CallEvidence, Idle, At
<1>p. PICK to \in Advances(m.sha, m.cp) :
          LET cp == [m.cp EXCEPT !.adv = to, !.advBy = m.lease] IN
          /\ Saves(c, m.lease, cp)
          /\ call' = [call EXCEPT ![c]["main"] = [m EXCEPT !.at = "verify", !.cp = cp,
                                                          !.seen = route, !.to = to]]
  BY <1>m DEF AdvancePlan
<1> DEFINE cp == [m.cp EXCEPT !.adv = to, !.advBy = m.lease]
<1>q. /\ Saves(c, m.lease, cp)
      /\ call' = [call EXCEPT ![c]["main"] = [m EXCEPT !.at = "verify", !.cp = cp,
                                                      !.seen = route, !.to = to]]
  BY <1>p
<1>a. \/ to = "next" /\ Verified(m.sha) /\ ~QAHeadChanged(m.cp)
      \/ to = "review-again" /\ m.sha \in ci /\ QAHeadChanged(m.cp)
  BY DEF Advances
<1>1. /\ cp \in Checkpoints /\ cp.pub = m.cp.pub /\ cp.adv = to /\ cp.dec = m.cp.dec
      /\ cp.rep = m.cp.rep /\ cp.rec = m.cp.rec /\ to \in Route /\ to # "none"
  BY <1>t, <1>a DEF Checkpoints, Route
<1> HIDE DEF cp
<1>3. Evidence(cp, m.sha)
  BY <1>1, <1>2, <1>a DEF Evidence, QAHeadChanged
<1>4. route \in {"todo", "running"} \/ route = to
  <2>1. SUFFICES ASSUME route = m.cp.adv, route \notin {"todo", "running"} PROVE route = to
    BY <1>c DEF Sees
  <2>2. route # "none"
    BY <1>i DEF TypeOK, Route
  <2>3. Verified(m.sha) => ~QAHeadChanged(m.cp)
    BY <1>2 DEF Evidence, Verified, QAHeadChanged
  <2> QED BY <2>1, <2>2, <2>3, <1>2, <1>a DEF Evidence
<1>5. Planning(c, m, cp, to)
  BY <1>q DEF Plan, Planning
<1>6. /\ m.cp.adv # "none" => cp.adv # "none"
      /\ m.cp.dec => cp.dec
      /\ m.op \in {"start", "advance"}
      /\ to = "next" => Verified(m.sha)
      /\ to = "review-again" => m.sha \in ci
      /\ to = "running" => m.op = "start"
      /\ m.op = "advance" => cp.adv = to
      /\ to # "todo" /\ to \in Route
  BY <1>1, <1>a, <1>c
<1>7. m.at = "plan" /\ UNCHANGED <<own, pull, evidence, worker>> /\ Saves(c, m.lease, cp)
      /\ cp \in Checkpoints /\ cp.pub = m.cp.pub
  BY <1>c, <1>q, <1>1
<1> QED BY <1>m, <1>3, <1>4, <1>5, <1>6, <1>7, PlansWork

LEMMA RecoverPlanWork ==
    ASSUME RInv, IInv', NEW c \in Claim, Outcome(c), RecoverPlan(c), NEW d \in Claim
    PROVE  WorkOK(d)'
<1>i. IInv /\ WorkOK(c) /\ Typed /\ TypeOK
  BY DEF RInv, IInv, Typed
<1>m. PICK m : m = call[c]["recovery"]
  OBVIOUS
<1>t. m \in Calls /\ m.cp \in Checkpoints /\ m.lease \in Lease \cup {NoLease}
  BY <1>i, <1>m, Kinds, CallTypes
<1>c. /\ m.at = "check" /\ Sees(m.sha, Accepted(m.cp))
      /\ UNCHANGED <<own, pull, evidence, worker>>
  BY <1>m DEF RecoverPlan, At, Foreign
<1>2. Evidence(m.cp, m.sha)
  BY <1>i, <1>m, <1>c, Kinds DEF WorkOK, CallsOK, CallEvidence, Idle, At
<1>p. PICK to \in Recovers(m.sha) :
          LET cp == [m.cp EXCEPT !.rec = to] IN
          /\ Saves(c, m.lease, cp)
          /\ call' = [call EXCEPT ![c]["recovery"] =
                         [m EXCEPT !.at = "verify", !.cp = cp, !.seen = route, !.to = to]]
  BY <1>m DEF RecoverPlan
<1> DEFINE cp == [m.cp EXCEPT !.rec = to]
           n == [m EXCEPT !.at = "verify", !.cp = cp, !.seen = route, !.to = to]
<1>q. Saves(c, m.lease, cp) /\ call' = [call EXCEPT ![c]["recovery"] = n]
  BY <1>p
<1>a. \/ to = "next" /\ result[m.sha] # "none" /\ Verified(m.sha)
      \/ to = "todo" /\ result[m.sha] = "none" /\ route \in {"todo", "running"}
  BY DEF Recovers
<1>1. /\ cp \in Checkpoints /\ cp.pub = m.cp.pub /\ cp.adv = m.cp.adv /\ cp.dec = m.cp.dec
      /\ cp.rep = m.cp.rep /\ cp.rec = to /\ to \in Route
  BY <1>t, <1>a DEF Checkpoints, Route
<1> HIDE DEF cp
<1>f. /\ n.at = "verify" /\ n.to = to /\ n.lease = m.lease /\ n.sha = m.sha /\ n.cp = cp
      /\ n.op = m.op /\ n.seen = route /\ n \in Calls
  <2>1. route \in Route
    BY <1>i DEF TypeOK
  <2> QED BY <1>t, <1>1, <2>1 DEF Calls
<1> HIDE DEF n
<1>n. Handles(c, "recovery", n) /\ call'[c]["recovery"] = n
  <2>1. Handles(c, "recovery", n)
    BY <1>i, <1>f, <1>q, Kinds, Handled
  <2> QED BY <2>1 DEF Handles
<1>3. Evidence(cp, m.sha)
  BY <1>1, <1>2, <1>a DEF Evidence, QAHeadChanged
<1>4. route \in {"todo", "running"} \/ route = to
  <2>1. SUFFICES ASSUME route \in {m.cp.adv, m.cp.rec}, route \notin {"todo", "running"},
                        to = "next"
                 PROVE  route = to
    BY <1>c, <1>a DEF Sees, Accepted
  <2>2. route # "none"
    BY <1>i DEF TypeOK, Route
  <2>3. ~QAHeadChanged(m.cp)
    BY <1>2, <1>a, <2>1 DEF Evidence, Verified, QAHeadChanged
  <2> QED BY <2>1, <2>2, <2>3, <1>2 DEF Evidence
<1>r. Bound(c) /\ row'[c].cp = cp /\ HoldsLease(c, m.lease)
  <2>1. LET r == [row[c] EXCEPT !.cp = cp]
        IN /\ Records(c, r) /\ r.status = row[c].status /\ r.lease = row[c].lease
           /\ r.sha = row[c].sha /\ r.cp = cp
    BY <1>i, <1>q, <1>1, Saved
  <2> QED BY <1>q, <2>1 DEF Records, Bound, Saves
<1>h. /\ m.op = "recovery" /\ m.sha = row[c].sha /\ m.cp = row[c].cp
      /\ owner[m.sha] = m.lease /\ owner[Projection] = m.lease
  BY <1>i, <1>m, <1>c DEF WorkOK, RecoveryHolds
<1>5. CallsOK(c, "recovery")'
  <2>1. CallEvidence(c, "recovery")'
    BY <1>f, <1>n, <1>c, <1>3 DEF CallEvidence, Idle, At, Evidence, Verified,
           QAHeadChanged, evidence
  <2>2. WriteOK(c, "recovery")'
    BY <1>f, <1>n, <1>c, <1>4, <1>a, <1>h DEF WriteOK, Verified, evidence
  <2>3. Landing(c, "recovery")'
    BY <1>f, <1>n DEF Landing
  <2> QED BY <2>1, <2>2, <2>3 DEF CallsOK
<1>6. RowEvidence(c)'
  BY <1>c, <1>h, <1>r, <1>3 DEF RowEvidence, Bound, Evidence, Verified, QAHeadChanged, evidence
<1>7. row'[c].cp.pub = row[c].cp.pub
  BY <1>h, <1>r, <1>1
<1>8. Moves(c, "recovery", n) /\ Spares(c) /\ Modest(c) /\ UNCHANGED <<head, route, result>>
  BY <1>m, <1>n, <1>f, <1>c, <1>r, <1>5, <1>6, <1>7, Kinds, GoesOn DEF worker
<1>9. RecoveryHolds(c)'
  BY <1>f, <1>n, <1>c, <1>r, <1>h DEF RecoveryHolds, Bound, HoldsLease, own
<1>10. WorkOK(c)'
  BY <1>m, <1>c, <1>8, <1>9, RecoveryMoves DEF Idle, At, worker
<1> QED BY <1>8, <1>10, Together

\* The worker's request saves what it did and ends.
LEMMA MainEndsSaving ==
    ASSUME RInv, IInv', NEW c \in Claim, Outcome(c), NEW m, m = call[c]["main"],
           m.op \in {"start", "reports"},
           NEW cp \in Checkpoints, Saves(c, m.lease, cp), Ends(c, "main"),
           UNCHANGED <<own, pull, evidence, held>>,
           cp.pub = m.cp.pub, m.cp.adv # "none" => cp.adv # "none", m.cp.dec => cp.dec,
           Evidence(cp, m.sha), ~At(c, "main", "recheck"),
           \/ client'[c] = client[c] /\ ~At(c, "main", "move")
           \/ route = "running" /\ head = m.sha /\ client'[c] \in {client[c], "working"},
           NEW d \in Claim
    PROVE  WorkOK(d)'
<1>i. IInv /\ WorkOK(c) /\ Typed /\ TypeOK
  BY DEF RInv, IInv, Typed
<1>n. /\ Handles(c, "main", NoCall) /\ NoCall.at = "idle" /\ NoCall.op = "none"
      /\ NoCall.lease = NoLease /\ call'[c]["main"] = NoCall
  <2>1. Handles(c, "main", NoCall)
    BY <1>i, Kinds, Ended
  <2> QED BY <2>1 DEF Handles, NoCall, Request
<1>r. Bound(c) /\ row'[c].cp = cp /\ HoldsLease(c, m.lease)
  <2>1. LET r == [row[c] EXCEPT !.cp = cp]
        IN /\ Records(c, r) /\ r.status = row[c].status /\ r.lease = row[c].lease
           /\ r.sha = row[c].sha /\ r.cp = cp
    BY <1>i, Saved
  <2> QED BY <2>1 DEF Records, Bound, Saves
<1>e. ~Idle(c, "main")
  <2>1. CallOK(c, "main")
    BY <1>i, Kinds DEF IInv, ClaimOK
  <2> QED BY <2>1 DEF CallOK, Idle, At, NoCall, Request
<1>m. m.sha = row[c].sha /\ m.cp = row[c].cp /\ client[c] \notin {"new", "declared"}
  BY <1>i, <1>r, <1>e, MainRequest DEF WorkOK, MainOK
<1>g. Grown
  BY <1>i, UnchangedGrown DEF pull
<1>1. CallsOK(c, "main")'
  BY <1>i, <1>n, <1>g, Kinds, NotWriting
<1>2. RowEvidence(c)'
  BY <1>m, <1>r DEF RowEvidence, Bound, Evidence, Verified, QAHeadChanged, evidence
<1>3. row'[c].cp.pub = row[c].cp.pub
  BY <1>m, <1>r
<1>4. Moves(c, "main", NoCall) /\ Spares(c) /\ Modest(c) /\ UNCHANGED <<head, route, result>>
  BY <1>n, <1>m, <1>r, <1>1, <1>2, <1>3, Kinds, GoesOn
<1>5. MainOK(c)'
  BY <1>i, <1>n, <1>m DEF WorkOK, MainOK
<1>6. Idle(c, "recovery")
  BY <1>i, <1>r, OneHolder DEF WorkOK
<1>7. WorkOK(c)'
  BY <1>n, <1>m, <1>r, <1>4, <1>5, <1>6, MainMoves
<1> QED BY <1>4, <1>7, Together

LEMMA StartDoneWork ==
    ASSUME RInv, IInv', NEW c \in Claim, Outcome(c), StartDone(c), NEW d \in Claim
    PROVE  WorkOK(d)'
<1>i. IInv /\ WorkOK(c) /\ Typed /\ TypeOK
  BY DEF RInv, IInv, Typed
<1>m. PICK m : m = call[c]["main"]
  OBVIOUS
<1>t. m.cp \in Checkpoints
  BY <1>i, <1>m, Kinds, CallTypes
<1> DEFINE cp == [m.cp EXCEPT !.start = "applied"]
<1>c. /\ m.op = "start" /\ m.at = "done" /\ Sees(m.sha, {"running"}) /\ Saves(c, m.lease, cp)
      /\ Ends(c, "main") /\ UNCHANGED <<own, pull, evidence, held>>
  BY <1>m DEF StartDone
<1>1. /\ cp \in Checkpoints /\ cp.pub = m.cp.pub /\ cp.adv = m.cp.adv /\ cp.dec = m.cp.dec
      /\ cp.rep = m.cp.rep /\ cp.rec = m.cp.rec
  BY <1>t DEF Checkpoints
<1> HIDE DEF cp
<1>2. Evidence(m.cp, m.sha)
  BY <1>i, <1>m, <1>c, Kinds DEF WorkOK, CallsOK, CallEvidence, Idle, At
<1>3. Evidence(cp, m.sha)
  BY <1>1, <1>2 DEF Evidence, QAHeadChanged
<1>4. client'[c] \in {client[c], "working"}
  BY <1>i DEF StartDone, TypeOK
<1>5. ~At(c, "main", "recheck") /\ route = "running" /\ head = m.sha
  BY <1>m, <1>c DEF At, Sees
<1> QED BY <1>m, <1>c, <1>1, <1>3, <1>4, <1>5, MainEndsSaving

LEMMA ReportsKeptWork ==
    ASSUME RInv, IInv', NEW c \in Claim, Outcome(c), ReportsMove(c),
           call[c]["main"].new = call[c]["main"].sha, NEW d \in Claim
    PROVE  WorkOK(d)'
<1>i. IInv /\ WorkOK(c) /\ Typed /\ TypeOK
  BY DEF RInv, IInv, Typed
<1>m. PICK m : m = call[c]["main"]
  OBVIOUS
<1>t. m.cp \in Checkpoints
  BY <1>i, <1>m, Kinds, CallTypes
<1> DEFINE cp == [m.cp EXCEPT !.rep = "kept"]
<1>c. /\ m.at = "move" /\ m.new = m.sha /\ Saves(c, m.lease, cp)
      /\ Ends(c, "main") /\ UNCHANGED <<own, pull, evidence, worker>>
  BY <1>m DEF ReportsMove, At
<1>1. /\ cp \in Checkpoints /\ cp.pub = m.cp.pub /\ cp.adv = m.cp.adv /\ cp.dec = m.cp.dec
      /\ cp.rep = "kept" /\ cp.rec = m.cp.rec
  BY <1>t DEF Checkpoints
<1> HIDE DEF cp
<1>p. m.op = "reports" /\ route = "running" /\ head = m.sha /\ row[c].cp.adv = "none"
  BY <1>i, <1>m, <1>c DEF WorkOK, MainOK, Publishing
<1>r. m.cp = row[c].cp
  BY <1>i, <1>m, <1>c, <1>p DEF WorkOK, MainOK, Saves
<1>2. Evidence(m.cp, m.sha)
  BY <1>i, <1>m, <1>c, Kinds DEF WorkOK, CallsOK, CallEvidence, Idle, At
<1>3. Evidence(cp, m.sha)
  BY <1>1, <1>2, <1>p, <1>r DEF Evidence, QAHeadChanged
<1>5. ~At(c, "main", "recheck")
  BY <1>m, <1>c DEF At
<1> QED BY <1>m, <1>c, <1>p, <1>1, <1>3, <1>5, MainEndsSaving DEF worker

LEMMA DecideWork ==
    ASSUME RInv, IInv', NEW c \in Claim, Outcome(c), NEW to \in Route, Decide(c, to),
           NEW d \in Claim
    PROVE  WorkOK(d)'
<1>i. IInv /\ WorkOK(c) /\ Typed /\ TypeOK
  BY DEF RInv, IInv, Typed
<1>t. row[c].cp \in Checkpoints /\ row[c].sha \in Sha \cup {NoSha}
      /\ held[c] \in Lease \cup {NoLease}
  BY <1>i DEF TypeOK, Rows
<1> DEFINE cp == [row[c].cp EXCEPT !.dec = TRUE]
           n == [Request("decision", "verify", held[c], row[c].sha, row'[c].cp)
                     EXCEPT !.seen = "running", !.to = to]
<1>c. /\ client[c] = "working" /\ Idle(c, "main") /\ Owned(c, held[c]) /\ to \in Decisions
      /\ Saves(c, held[c], cp) /\ Obtains(Projection, held[c])
      /\ call' = [call EXCEPT ![c]["main"] = n] /\ UNCHANGED <<pull, evidence, worker>>
  BY DEF Decide
<1>1. /\ cp \in Checkpoints /\ cp.pub = row[c].cp.pub /\ cp.adv = row[c].cp.adv /\ cp.dec = TRUE
      /\ cp.rep = row[c].cp.rep /\ cp.rec = row[c].cp.rec
  BY <1>t DEF Checkpoints
<1> HIDE DEF cp
<1>r. Bound(c) /\ row'[c].cp = cp /\ HoldsLease(c, held[c])
  <2>1. LET r == [row[c] EXCEPT !.cp = cp]
        IN /\ Records(c, r) /\ r.status = row[c].status /\ r.lease = row[c].lease
           /\ r.sha = row[c].sha /\ r.cp = cp
    BY <1>i, <1>c, <1>1, Saved
  <2> QED BY <1>c, <2>1 DEF Records, Bound, Saves
<1>f. /\ n.op = "decision" /\ n.at = "verify" /\ n.lease = held[c] /\ n.sha = row[c].sha
      /\ n.cp = cp /\ n.seen = "running" /\ n.to = to /\ n \in Calls
  BY <1>t, <1>1, <1>r DEF Request, Calls, Route
<1> HIDE DEF n
<1>n. Handles(c, "main", n) /\ call'[c]["main"] = n
  <2>1. Handles(c, "main", n)
    BY <1>i, <1>c, <1>f, Kinds, Handled
  <2> QED BY <2>1 DEF Handles
<1>e. Evidence(cp, row[c].sha)
  BY <1>i, <1>1 DEF WorkOK, RowEvidence, Evidence, QAHeadChanged
<1>2. CallsOK(c, "main")'
  <2>1. CallEvidence(c, "main")'
    BY <1>f, <1>n, <1>c, <1>e DEF CallEvidence, Idle, At, Evidence, Verified,
           QAHeadChanged, evidence
  <2>2. WriteOK(c, "main")'
    BY <1>f, <1>n, <1>c, <1>1 DEF WriteOK, Decisions
  <2>3. Landing(c, "main")'
    BY <1>f, <1>n DEF Landing
  <2> QED BY <2>1, <2>2, <2>3 DEF CallsOK
<1>3. RowEvidence(c)'
  BY <1>c, <1>r, <1>e DEF RowEvidence, Bound, Evidence, Verified, QAHeadChanged, evidence
<1>4. Moves(c, "main", n) /\ Spares(c) /\ Modest(c) /\ UNCHANGED <<head, route, result>>
  BY <1>t, <1>n, <1>f, <1>c, <1>r, <1>1, <1>2, <1>3, Kinds, GoesOn DEF worker
<1>5. MainOK(c)'
  BY <1>f, <1>n, <1>c, <1>r DEF MainOK, Bound, worker
<1>6. Idle(c, "recovery")
  BY <1>i, <1>r, OneHolder DEF WorkOK
<1>7. WorkOK(c)'
  BY <1>f, <1>c, <1>r, <1>1, <1>4, <1>5, <1>6, MainMoves DEF Idle, At, worker, Executing
<1> QED BY <1>4, <1>7, Together

LEMMA ReportsBeginWork ==
    ASSUME Favourable, RInv, IInv', NEW c \in Claim, Outcome(c), ReportsBegin(c), NEW d \in Claim
    PROVE  WorkOK(d)'
<1>i. IInv /\ WorkOK(c) /\ Typed /\ TypeOK
  BY DEF RInv, IInv, Typed
<1>t. row[c].cp \in Checkpoints /\ row[c].sha \in Sha \cup {NoSha}
      /\ held[c] \in Lease \cup {NoLease}
  BY <1>i DEF TypeOK, Rows
<1> DEFINE cp == [row[c].cp EXCEPT !.rep = "prepared"]
           n == Request("reports", "commit", held[c], row[c].sha, row'[c].cp)
<1>c. /\ client[c] = "working" /\ Idle(c, "main") /\ Owned(c, held[c])
      /\ Sees(row[c].sha, {"running"}) /\ row[c].cp.adv = "none" /\ phase \in ReportPhases
      /\ QuietPublication => Idle(c, "beat")
      /\ Saves(c, held[c], cp)
      /\ call' = [call EXCEPT ![c]["main"] = n] /\ UNCHANGED <<own, pull, evidence, worker>>
  BY DEF ReportsBegin, MayPublish
<1>b. Idle(c, "beat")
  BY <1>i, <1>c, Quietly
<1>1. /\ cp \in Checkpoints /\ cp.pub = row[c].cp.pub /\ cp.adv = "none"
      /\ cp.dec = row[c].cp.dec /\ cp.rep = "prepared" /\ cp.rec = row[c].cp.rec
  BY <1>t, <1>c DEF Checkpoints
<1> HIDE DEF cp
<1>r. Bound(c) /\ row'[c].cp = cp /\ HoldsLease(c, held[c])
  <2>1. LET r == [row[c] EXCEPT !.cp = cp]
        IN /\ Records(c, r) /\ r.status = row[c].status /\ r.lease = row[c].lease
           /\ r.sha = row[c].sha /\ r.cp = cp
    BY <1>i, <1>c, <1>1, Saved
  <2> QED BY <1>c, <2>1 DEF Records, Bound, Saves
<1>f. /\ n.op = "reports" /\ n.at = "commit" /\ n.lease = held[c] /\ n.sha = row[c].sha
      /\ n.cp = cp /\ n \in Calls
  BY <1>t, <1>1, <1>r DEF Request, Calls
<1> HIDE DEF n
<1>n. Handles(c, "main", n) /\ call'[c]["main"] = n /\ call'[c]["beat"] = call[c]["beat"]
      /\ call'[c]["recovery"] = call[c]["recovery"]
  <2>1. Handles(c, "main", n)
    BY <1>i, <1>c, <1>f, Kinds, Handled
  <2> QED BY <2>1, Kinds DEF Handles
<1>e. Evidence(cp, row[c].sha)
  BY <1>i, <1>1 DEF WorkOK, RowEvidence, Evidence, QAHeadChanged
<1>g. Grown
  BY <1>i, <1>c, UnchangedGrown DEF pull
<1>2. CallsOK(c, "main")'
  BY <1>i, <1>g, <1>f, <1>n, <1>e, Kinds, NotWriting
<1>3. RowEvidence(c)'
  BY <1>c, <1>r, <1>e DEF RowEvidence, Bound, Evidence, Verified, QAHeadChanged, evidence
<1>4. Moves(c, "main", n) /\ Spares(c) /\ Modest(c) /\ UNCHANGED <<head, route, result>>
  BY <1>n, <1>f, <1>c, <1>r, <1>1, <1>2, <1>3, Kinds, GoesOn DEF worker
<1>k. Kept(c)
  BY <1>4 DEF Moves
<1>5. MainOK(c)'
  BY <1>f, <1>n, <1>c, <1>r DEF MainOK, Bound, worker
<1>6. RecoveryHolds(c)'
  <2>1. Idle(c, "recovery")
    BY <1>i, <1>r, OneHolder DEF WorkOK
  <2> QED BY <1>n, <2>1 DEF RecoveryHolds, Idle, At
<1>7. BeatOK(c)'
  BY <1>n, <1>b DEF BeatOK, Idle, At
<1>8. Publishing(c)'
  <2>1. Owned(c, held[c])'
    BY <1>c, <1>r DEF Owned, HoldsLease, Bound, own, worker
  <2> QED BY <1>n, <1>f, <1>b, <1>c, <1>r, <1>1, <2>1
          DEF Publishing, Owned, HoldsLease, Idle, At, Sees, pull, worker
<1>9. Undisturbed(c)'
  BY <1>c, <1>r DEF Undisturbed, Follows, Bound, Sees, pull
<1>10. WorkOK(c)'
  <2>1. call'[c]["beat"].lease \in {NoLease, held[c]}
    BY <1>i, <1>n DEF WorkOK, LeaseOK
  <2> QED BY <1>i, <1>c, <1>f, <1>n, <1>3, <1>4, <1>5, <1>6, <1>7, <1>8, <1>9, <2>1, Kinds,
             ClaimMoves DEF worker
<1> QED BY <1>4, <1>10, Together

-----------------------------------------------------------------------------
(* Claims that end *)

LEMMA ClosesWork ==
    ASSUME RInv, IInv', NEW c \in Claim, NEW kind \in Kind, Outcome(c), NEW l,
           NEW status \in {"done", "superseded"}, Finishes(c, l, status), HoldsLease(c, l),
           Ends(c, kind) \/ (kind = "main" /\ UNCHANGED call /\ call[c]["main"] = NoCall),
           UNCHANGED <<pull, evidence, held>>,
           \A k \in Kind \ {kind} : ~At(c, k, "put"),
           kind = "recovery" \/ Idle(c, "recovery"),
           kind = "main" \/ call[c]["main"].at \notin {"commit", "move"},
           kind = "main" \/ client'[c] \in {client[c], "gone"},
           client'[c] \notin {"new", "declared"} \/ client'[c] = client[c], client[c] # "declared",
           client'[c] # "pushed" \/ client[c] = "pushed",
           NEW d \in Claim
    PROVE  WorkOK(d)'
<1>1. Closes(c, kind, l)
  BY FinishesCloses DEF RInv, IInv, Outcome
<1>2. WorkOK(c)'
  BY <1>1, ClaimCloses
<1>3. Spares(c) /\ Modest(c) /\ UNCHANGED <<head, route, result>>
  BY <1>1, CloseSpares
<1> QED BY <1>2, <1>3, Together

\* A request of the worker finishes its claim.
LEMMA MainCloses ==
    ASSUME RInv, IInv', NEW c \in Claim, Outcome(c), NEW l \in {held[c], call[c]["main"].lease},
           NEW status \in {"done", "superseded"}, Finishes(c, l, status), HoldsLease(c, l),
           Ends(c, "main") \/ (UNCHANGED call /\ Idle(c, "main")),
           UNCHANGED <<pull, evidence, held>>,
           client[c] # "declared", client'[c] \in {client[c], "finished"}, NEW d \in Claim
    PROVE  WorkOK(d)'
<1>i. IInv /\ WorkOK(c)
  BY DEF RInv
<1>1. Idle(c, "recovery")
  BY <1>i, OneHolder DEF WorkOK
<1>2. \A k \in Kind \ {"main"} : ~At(c, k, "put")
  BY <1>i, <1>1 DEF WorkOK, BeatOK, Kind, Idle, At
<1>3. Idle(c, "main") => call[c]["main"] = NoCall
  BY <1>i, Kinds DEF IInv, ClaimOK, CallOK, Idle, At
<1> QED BY <1>1, <1>2, <1>3, Kinds, ClosesWork

LEMMA ReleaseWork ==
    ASSUME RInv, IInv', NEW c \in Claim, Outcome(c), Release(c), NEW d \in Claim
    PROVE  WorkOK(d)'
<1>1. client'[c] = "finished" /\ client[c] # "declared"
  BY DEF Release, Becomes, RInv, IInv, Typed, TypeOK
<1>2. HoldsLease(c, held[c])
  BY DEF Release, Owned
<1> QED BY <1>1, <1>2, MainCloses DEF Release

LEMMA DoneWork ==
    ASSUME RInv, IInv', NEW c \in Claim, Outcome(c), AdvanceDone(c) \/ DecisionDone(c),
           NEW d \in Claim
    PROVE  WorkOK(d)'
<1>m. PICK m : m = call[c]["main"]
  OBVIOUS
<1>1. /\ m.at = "done" /\ HoldsLease(c, m.lease) /\ Finishes(c, m.lease, "done")
      /\ client' = [client EXCEPT ![c] = IF @ = "working" THEN "finished" ELSE @]
      /\ Ends(c, "main") /\ UNCHANGED <<pull, evidence, held>>
  BY <1>m DEF AdvanceDone, DecisionDone
<1>2. client'[c] \in {client[c], "finished"}
  BY <1>1 DEF RInv, IInv, Typed, TypeOK
<1>3. client[c] # "declared"
  BY <1>m, <1>1, MainRequest DEF RInv, Idle, At
<1> QED BY <1>m, <1>1, <1>2, <1>3, MainCloses

\* Either the claim is superseded, or its lease is no longer its own and nothing happens.
LEMMA RevokedWork ==
    ASSUME RInv, IInv', NEW c \in Claim, Outcome(c), At(c, "main", "recheck"),
           Finishes(c, call[c]["main"].lease, "superseded"), Ends(c, "main"),
           UNCHANGED <<pull, evidence, worker>>, NEW d \in Claim
    PROVE  WorkOK(d)'
<1>m. PICK l : l = call[c]["main"].lease
  OBVIOUS
<1>1. client[c] # "declared"
  BY DEF RInv, WorkOK, MainOK, At
<1>2. CASE HoldsLease(c, l)
  BY <1>m, <1>1, <1>2, MainCloses DEF worker
<1>3. CASE ~HoldsLease(c, l)
  <2>1. UNCHANGED <<own, row>>
    BY <1>m, <1>3 DEF Finishes
  <2>2. ~At(c, "main", "move") /\ ~Idle(c, "main")
    BY DEF Idle, At
  <2> QED BY <2>1, <2>2, Kinds, EndsQuietly DEF worker
<1> QED BY <1>2, <1>3

LEMMA RecoveryCloses ==
    ASSUME RInv, IInv', NEW c \in Claim, Outcome(c), ~Idle(c, "recovery"),
           NEW status \in {"done", "superseded"},
           Finishes(c, call[c]["recovery"].lease, status), Ends(c, "recovery"),
           UNCHANGED <<pull, evidence, worker>>, NEW d \in Claim
    PROVE  WorkOK(d)'
<1>i. IInv /\ WorkOK(c)
  BY DEF RInv
<1>m. PICK l : l = call[c]["recovery"].lease
  OBVIOUS
<1>1. HoldsLease(c, l)
  BY <1>i, <1>m DEF WorkOK, RecoveryHolds, Idle, At
<1>2. ~HoldsLease(c, held[c]) /\ ~HoldsLease(c, call[c]["main"].lease)
  BY <1>i, OneHolder DEF WorkOK
<1>3. \A k \in Kind \ {"recovery"} : ~At(c, k, "put")
  <2>1. ~At(c, "main", "put")
    BY <1>i, <1>2, Kinds DEF WorkOK, CallsOK, Landing, Owned, At
  <2>2. ~At(c, "beat", "put")
    BY <1>i DEF WorkOK, BeatOK, At
  <2> QED BY <2>1, <2>2 DEF Kind
<1>4. call[c]["main"].at \notin {"commit", "move"} /\ client[c] # "declared"
  BY <1>i, <1>2 DEF WorkOK, Publishing, Declaring, Owned
<1> QED BY <1>m, <1>1, <1>3, <1>4, Kinds, ClosesWork DEF worker

LEMMA RecoverEndsWork ==
    ASSUME RInv, IInv', NEW c \in Claim, Outcome(c),
           \/ RecoverMismatch(c)
           \/ RecoverForeign(c)
           \/ RecoverDone(c)
           \/ /\ RecoverClaim(c)
              /\ Refused(call[c]["recovery"].sha, call[c]["recovery"].lease),
           NEW d \in Claim
    PROVE  WorkOK(d)'
<1>1. /\ ~Idle(c, "recovery") /\ Ends(c, "recovery") /\ UNCHANGED <<pull, evidence, worker>>
      /\ \/ Finishes(c, call[c]["recovery"].lease, "done")
         \/ Finishes(c, call[c]["recovery"].lease, "superseded")
  BY DEF RecoverMismatch, RecoverForeign, RecoverDone, RecoverClaim, Idle, At
<1> QED BY <1>1, RecoveryCloses

\* A heartbeat that finds the pull request gone finishes the claim; nobody of the claim was
\* about to write, since whoever is has seen the pull request as the heartbeat needs it.
LEMMA HeartbeatCheckWork ==
    ASSUME RInv, IInv', NEW c \in Claim, Outcome(c), HeartbeatCheck(c), NEW d \in Claim
    PROVE  WorkOK(d)'
<1>i. IInv /\ WorkOK(c) /\ Typed /\ TypeOK
  BY DEF RInv, IInv, Typed
<1>m. PICK m : m = call[c]["beat"]
  OBVIOUS
<1>1. /\ m.at = "check" /\ Ends(c, "beat") /\ UNCHANGED <<pull, evidence, held>>
      /\ ~Idle(c, "beat")
  BY <1>m DEF HeartbeatCheck, Idle, At
<1>2. CASE UNCHANGED <<own, row, client>>
  BY <1>1, <1>2, Kinds, EndsQuietly
<1>3. CASE /\ ~Sees(m.sha, {"todo", "running"})
           /\ Finishes(c, m.lease, "superseded")
           /\ client' = [client EXCEPT ![c] = IF @ \in Executing THEN "gone" ELSE @]
  <2>1. client'[c] = client[c] \/ (client'[c] = "gone" /\ client[c] # "new")
    BY <1>i, <1>3 DEF TypeOK, Executing
  <2>2. CASE ~HoldsLease(c, m.lease)
    <3>1. UNCHANGED <<own, row>>
      BY <1>3, <2>2 DEF Finishes
    <3> QED BY <1>1, <2>1, <3>1, Kinds, EndsQuietly
  <2>3. CASE HoldsLease(c, m.lease)
    <3>1. head = row[c].sha => m.sha = row[c].sha
      BY <1>i, <1>m, <1>1, <2>3 DEF WorkOK, BeatOK
    <3>2. Idle(c, "recovery")
      BY <1>i, <1>m, <2>3, OneHolder DEF WorkOK
    <3>3. ~At(c, "main", "put")
      <4>1. SUFFICES ASSUME At(c, "main", "put") PROVE FALSE
        OBVIOUS
      <4>2. head = row[c].sha /\ route = call[c]["main"].seen
        BY <1>i, <4>1, Kinds DEF WorkOK, CallsOK, Landing, At
      <4>3. route \in {"todo", "running"}
        BY <1>i, <4>1, <4>2, Kinds DEF WorkOK, CallsOK, WriteOK, At
      <4> QED BY <1>3, <3>1, <4>2, <4>3 DEF Sees
    <3>4. call[c]["main"].at \notin {"commit", "move"}
      BY <1>i, <1>1 DEF WorkOK, MainOK, Publishing
    <3>5. client[c] # "declared"
      BY <1>i, <1>1 DEF WorkOK, Declaring
    <3>6. \A k \in Kind \ {"beat"} : ~At(c, k, "put")
      BY <3>2, <3>3 DEF Kind, Idle, At
    <3>7. /\ client'[c] \in {client[c], "gone"}
          /\ client'[c] \notin {"new", "declared"} \/ client'[c] = client[c]
          /\ client'[c] # "pushed" \/ client[c] = "pushed"
      BY <2>1
    <3> QED BY <1>1, <1>3, <2>3, <3>2, <3>4, <3>5, <3>6, <3>7, Kinds, ClosesWork
  <2> QED BY <2>2, <2>3
<1> QED BY <1>m, <1>2, <1>3 DEF HeartbeatCheck, Sees

-----------------------------------------------------------------------------
(* Recoveries that take their keys, and handlers that find HEAD in its place *)

LEMMA Obtained ==
    ASSUME Typed, NEW k \in Sha \cup {Projection}, NEW l, Obtains(k, l)
    PROVE  owner'[k] = l
BY DEF Obtains, Own!Take, own, Typed, TypeOK

LEMMA RecoverGoesWork ==
    ASSUME RInv, IInv', NEW c \in Claim, Outcome(c), NEW step \in {"board", "refresh"},
           NEW k \in Sha \cup {Projection}, Obtains(k, call[c]["recovery"].lease),
           Goes(c, "recovery", step), UNCHANGED <<pull, evidence, row, worker>>,
           call[c]["recovery"].at = IF step = "board" THEN "claim" ELSE "board",
           k = IF step = "board" THEN call[c]["recovery"].sha ELSE Projection,
           NEW d \in Claim
    PROVE  WorkOK(d)'
<1>i. IInv /\ WorkOK(c) /\ Typed /\ TypeOK
  BY DEF RInv, IInv, Typed
<1>m. PICK m : m = call[c]["recovery"]
  OBVIOUS
<1>t. m \in Calls /\ m.lease \in Lease \cup {NoLease}
  BY <1>i, <1>m, Kinds, CallTypes
<1> DEFINE n == [m EXCEPT !.at = step]
<1>n. Handles(c, "recovery", n) /\ n \in Calls
  BY <1>i, <1>m, Kinds, Went
<1>f. /\ n.at = step /\ n.lease = m.lease /\ n.sha = m.sha /\ n.cp = m.cp /\ n.op = m.op
  BY <1>t DEF Calls
<1> HIDE DEF n
<1>c. call'[c]["recovery"] = n /\ row'[c] = row[c] /\ held' = held /\ client' = client
  BY <1>n DEF Handles, worker
<1>g. Grown
  BY <1>i, UnchangedGrown DEF pull
<1>h. /\ m.op = "recovery" /\ HoldsLease(c, m.lease) /\ m.sha = row[c].sha /\ m.cp = row[c].cp
      /\ m.at # "claim" => owner[m.sha] = m.lease
      /\ m.lease # NoLease /\ m.sha \in Sha
  <2>1. /\ m.op = "recovery" /\ HoldsLease(c, m.lease) /\ m.sha = row[c].sha /\ m.cp = row[c].cp
        /\ m.at # "claim" => owner[m.sha] = m.lease
    BY <1>i, <1>m DEF WorkOK, RecoveryHolds
  <2> QED BY <1>i, <2>1, BoundTo
<1>1. CallsOK(c, "recovery")'
  BY <1>i, <1>g, <1>f, <1>h, <1>c, Kinds, NotWriting DEF WorkOK, RowEvidence
<1>2. RowEvidence(c)' /\ Bound(c) /\ row'[c].cp.pub = row[c].cp.pub
  BY <1>i, <1>c, RowStays DEF WorkOK, pull
<1>3. Moves(c, "recovery", n) /\ Spares(c) /\ Modest(c) /\ UNCHANGED <<head, route, result>>
  BY <1>t, <1>m, <1>n, <1>f, <1>c, <1>1, <1>2, Kinds, GoesOn
<1>4. owner'[k] = m.lease
  BY <1>i, <1>m, Obtained
<1>5. step = "refresh" => owner'[m.sha] = m.lease
  <2>1. Kept(c) /\ m.lease \in Uses(c)
    BY <1>3, <1>m, <1>h DEF Moves, Uses
  <2> QED BY <1>m, <1>h, <2>1 DEF Kept
<1>6. RecoveryHolds(c)'
  <2>1. HoldsLease(c, m.lease)'
    <3>1. Kept(c) /\ m.lease \in Uses(c)
      BY <1>3, <1>m, <1>h DEF Moves, Uses
    <3> QED BY <1>c, <1>h, <3>1 DEF HoldsLease, Kept
  <2> QED BY <1>m, <1>f, <1>h, <1>c, <1>4, <1>5, <2>1 DEF RecoveryHolds, HoldsLease
<1>7. WorkOK(c)'
  BY <1>c, <1>3, <1>6, RecoveryMoves
<1> QED BY <1>3, <1>7, Together

LEMMA RecoverBoardWork ==
    ASSUME RInv, IInv', NEW c \in Claim, Outcome(c),
           \/ RecoverBoard(c)
           \/ /\ RecoverClaim(c)
              /\ ~Refused(call[c]["recovery"].sha, call[c]["recovery"].lease),
           NEW d \in Claim
    PROVE  WorkOK(d)'
<1>m. PICK m : m = call[c]["recovery"]
  OBVIOUS
<1>0. m.at # "idle" /\ UNCHANGED <<pull, evidence, worker>>
  BY <1>m DEF RecoverBoard, RecoverClaim, At
<1>1. CASE Ends(c, "recovery") /\ UNCHANGED <<own, row>>
  BY <1>m, <1>0, <1>1, Kinds, EndsQuietly DEF Idle, At, worker
<1>2. CASE /\ Obtains(Projection, m.lease) /\ Goes(c, "recovery", "refresh") /\ m.at = "board"
           /\ UNCHANGED row
  BY <1>m, <1>0, <1>2, RecoverGoesWork
<1>3. CASE /\ Obtains(m.sha, m.lease) /\ Goes(c, "recovery", "board") /\ m.at = "claim"
           /\ UNCHANGED row
  <2>1. m.sha \in Sha
    BY <1>m, <1>3, BoundTo DEF RInv, WorkOK, RecoveryHolds
  <2> QED BY <1>m, <1>0, <1>3, <2>1, RecoverGoesWork
<1> QED BY <1>m, <1>1, <1>2, <1>3 DEF RecoverBoard, RecoverClaim, At

\* HEAD is what the handler is about, or the claim has followed it already.
LEMMA InPlaceWork ==
    ASSUME RInv, IInv', NEW c \in Claim, NEW kind \in Kind, Outcome(c),
           NEW m, m = call[c][kind], m.at = "refresh", NEW n \in Calls, Handles(c, kind, n),
           n.at = "check", n.lease = m.lease, n.op = m.op,
           \/ n.sha = m.sha /\ n.cp = m.cp /\ (~Prepared(m.cp.pub) \/ head = m.sha)
           \/ n.sha = row[c].sha /\ n.cp = row[c].cp /\ ~Prepared(row[c].cp.pub),
           UNCHANGED <<own, row, pull, evidence, worker>>, NEW d \in Claim
    PROVE  WorkOK(d)'
<1>i. IInv /\ WorkOK(c) /\ Typed /\ TypeOK
  BY DEF RInv, IInv, Typed
<1>t. m.lease \in Lease \cup {NoLease}
  BY <1>i, CallTypes
<1>c. call'[c][kind] = n /\ row'[c] = row[c] /\ held' = held /\ client' = client
  BY DEF Handles, worker
<1>g. Grown
  BY <1>i, UnchangedGrown DEF pull
<1>e. Evidence(n.cp, n.sha)
  BY <1>i DEF WorkOK, CallsOK, CallEvidence, RowEvidence, Idle, At
<1>1. CallsOK(c, kind)'
  BY <1>i, <1>g, <1>e, <1>c, NotWriting
<1>2. RowEvidence(c)' /\ Bound(c) /\ row'[c].cp.pub = row[c].cp.pub
  BY <1>i, <1>c, RowStays DEF WorkOK, pull
<1>3. Moves(c, kind, n) /\ Spares(c) /\ Modest(c) /\ UNCHANGED <<head, route, result>>
  BY <1>t, <1>c, <1>1, <1>2, GoesOn
<1>4. WorkOK(c)'
  <2>1. CASE kind = "main"
    <3>1. n.lease \in {NoLease, held[c]} /\ client[c] \notin {"new", "declared"}
      BY <1>i, <2>1, MainRequest DEF Idle, At
    <3>2. m.op # "reports"
      BY <1>i, <2>1 DEF WorkOK, MainOK
    <3>3. MainOK(c)'
      BY <1>i, <1>c, <2>1, <3>1, <3>2 DEF WorkOK, MainOK, HoldsLease, own
    <3> QED BY <1>c, <1>3, <2>1, <3>1, <3>2, <3>3, MainMoves DEF At
  <2>2. CASE kind = "beat"
    <3>1. Prepared(m.cp.pub) /\ n.lease \in {NoLease, held[c]}
      BY <1>i, <2>2 DEF WorkOK, BeatOK, LeaseOK
    <3>2. HoldsLease(c, m.lease) /\ Prepared(row[c].cp.pub) => m.sha = row[c].sha /\ head # m.sha
      BY <1>i, <2>2 DEF WorkOK, BeatOK
    <3>3. BeatOK(c)'
      BY <1>c, <2>2, <3>1, <3>2 DEF BeatOK, HoldsLease, Prepared, own, pull
    <3>4. call[c]["main"].op # "reports" /\ client[c] # "declared"
      BY <1>i, <2>2 DEF WorkOK, Publishing, Declaring, Idle, At
    <3> QED BY <1>c, <1>3, <2>2, <3>1, <3>3, <3>4, BeatMoves
  <2>3. CASE kind = "recovery"
    <3>1. RecoveryHolds(c)'
      BY <1>i, <1>c, <2>3 DEF WorkOK, RecoveryHolds, HoldsLease, own
    <3> QED BY <1>c, <1>3, <2>3, <3>1, RecoveryMoves
  <2> QED BY <2>1, <2>2, <2>3 DEF Kind
<1> QED BY <1>3, <1>4, Together

-----------------------------------------------------------------------------
(* Claims that follow HEAD *)

\* A handler binds the claim to what HEAD is now, and takes its key.
LEMMA RebindsWork ==
    ASSUME RInv, IInv', NEW c \in Claim, NEW kind \in Kind, Outcome(c),
           NEW n \in Calls, Handles(c, kind, n), NEW l, l = call[c][kind].lease, Owned(c, l),
           NEW to \in Sha, head = to, route = "running", row[c].sha # to, Obtains(to, l),
           NEW cp, row'[c].status = row[c].status, row'[c].lease = row[c].lease,
           row'[c].sha = to, row'[c].cp = cp, ~Prepared(cp.pub), Evidence(cp, to),
           UNCHANGED <<pull, evidence, worker>>,
           kind = "recovery" => call[c][kind].at = "refresh",
           \/ n = NoCall /\ kind # "recovery"
           \/ n.at = "check" /\ n.sha = to /\ n.cp = cp /\ n.lease = l /\ n.op = call[c][kind].op,
           call'[c]["main"].op \in {"none", "confirm"}, ~At(c, "main", "recheck"),
           client[c] \notin {"new", "declared"},
           kind = "beat" \/ call[c]["beat"].at # "check"
                         \/ ~HoldsLease(c, call[c]["beat"].lease),
           \A d \in Claim \ {c} :
               /\ ~At(d, "main", "move")
               /\ Prepared(row[d].cp.pub) /\ row[d].status = "running"
                      => row[d].cp.pub.to # to,
           NEW d \in Claim
    PROVE  WorkOK(d)'
<1>i. IInv /\ WorkOK(c) /\ WorkOK(d) /\ Typed /\ TypeOK
  BY DEF RInv, IInv, Typed
<1>c. /\ call'[c][kind] = n /\ \A k \in Kind \ {kind} : call'[c][k] = call[c][k]
      /\ held' = held /\ client' = client
      /\ UNCHANGED <<head, route, made, phase, ci, result>>
  BY DEF Handles, worker, pull, evidence
<1>n. NoCall.at = "idle" /\ NoCall.op = "none" /\ NoCall.lease = NoLease
  BY DEF NoCall, Request
<1>g. Grown
  BY <1>c DEF Grown
<1>k. \A e \in Claim : Kept(e)
  BY <1>i, CallTypes, TakingKeeps
<1>l. /\ HoldsLease(c, l) /\ l \in inForce /\ l # NoLease /\ l \in Uses(c)
      /\ row[c].lease = l /\ row[c].status = "running"
  BY <1>i, BoundTo DEF Owned, HoldsLease, Uses
<1>o. /\ Owned(c, l)' /\ HoldsLease(c, l)'
      /\ owner[Projection] = l => owner'[Projection] = l
  <2>1. owner'[to] = l /\ l \in inForce' /\ (owner[Projection] = l => owner'[Projection] = l)
    BY <1>i, <1>k, <1>l, Obtained DEF Kept
  <2> QED BY <1>l, <2>1 DEF Owned, HoldsLease
<1>u. Uses(c)' \subseteq Uses(c)
  <2>1. \A k \in Kind : call'[c][k].lease \in {NoLease, call[c][k].lease}
    BY <1>c, <1>n
  <2> QED BY <1>c, <2>1, Kinds DEF Uses
<1>p. \A k \in Kind : ~At(c, k, "put")
  <2> SUFFICES ASSUME NEW k \in Kind, At(c, k, "put") PROVE FALSE
    OBVIOUS
  <2>1. Landing(c, k)
    BY <1>i DEF WorkOK, CallsOK
  <2> QED BY <2>1 DEF Landing, At
<1>a. /\ call'[c]["main"].at \in {"idle", "refresh", "check", "board"}
      /\ call'[c]["main"].lease \in {NoLease, held[c]}
  <2>1. CASE kind = "main"
    BY <1>i, <1>c, <1>n, <2>1 DEF WorkOK, LeaseOK
  <2>2. CASE kind # "main"
    <3>1. call'[c]["main"] = call[c]["main"]
      BY <1>c, <2>2, Kinds
    <3>2. call[c]["main"].at \in {"idle", "claim", "recheck", "plan", "verify", "put", "done",
                                  "refresh", "check", "commit", "move", "board"}
      <4>1. call[c]["main"] \in Calls
        BY <1>i, Kinds, CallTypes
      <4> QED BY <4>1 DEF Calls
    <3>3. MainOK(c) /\ LeaseOK(c)
      BY <1>i DEF WorkOK
    <3>4. call[c]["main"].lease \in {NoLease, held[c]}
      BY <3>3 DEF LeaseOK
    <3> QED BY <3>1, <3>2, <3>3, <3>4 DEF MainOK
  <2> QED BY <2>1, <2>2
<1>1. ASSUME d # c PROVE WorkOK(d)'
  <2>1. \A e \in Claim \ {c} : Untouched(e)
    BY DEF Outcome
  <2>2. Prepared(row[d].cp.pub) /\ row[d].status = "running" => NextNotAt(c, row[d].cp.pub.to)
    BY <1>1, <1>a DEF NextNotAt
  <2>3. ~At(d, "main", "move") /\ ~Prepared(row'[c].cp.pub)
    BY <1>1
  <2>4. OthersMind(d)
    BY <1>i, <1>1, <1>u, <2>1, <2>2, <2>3, Minded
  <2> QED BY <1>i, <1>c, <1>g, <1>k, <1>1, <2>1, <2>4, OthersStay
<1>2. LeaseOK(c)'
  <2>1. \A e \in Claim \ {c} : Uses(c)' \cap Uses(e)' = {}
    <3>1. \A e \in Claim \ {c} : Uses(e)' = Uses(e)
      BY DEF Outcome, Untouched, Uses
    <3> QED BY <1>i, <1>u, <3>1 DEF WorkOK, LeaseOK
  <2>2. held[c] \in inForce' => Owned(c, held[c])'
    <3>1. SUFFICES ASSUME held[c] \in inForce' PROVE held[c] = l
      BY <1>o, <1>c DEF Owned, HoldsLease
    <3>2. held[c] \in inForce
      BY <1>i, <1>k, <3>1, Used, StillInForce
    <3> QED BY <1>i, <1>l, <3>2 DEF WorkOK, LeaseOK, Owned, HoldsLease
  <2>3. call'[c]["beat"].lease \in {NoLease, held[c]}
    BY <1>i, <1>c, <1>n, Kinds DEF WorkOK, LeaseOK
  <2> QED BY <1>c, <1>a, <2>1, <2>2, <2>3 DEF LeaseOK, At, Owned, HoldsLease
<1>3. RecoveryHolds(c)'
  <2>1. CASE kind = "recovery"
    <3>1. n.at = "check" /\ n.sha = to /\ n.cp = cp /\ n.lease = l /\ n.op = call[c][kind].op
      BY <2>1
    <3>2. call[c]["recovery"].op = "recovery" /\ owner[Projection] = l
      <4>1. ~Idle(c, "recovery")
        BY <1>i, <1>l, <2>1, <1>n DEF IInv, ClaimOK, CallOK, Idle, At
      <4>2. call[c]["recovery"].at \notin {"claim", "board"}
        BY <2>1
      <4> QED BY <1>i, <2>1, <4>1, <4>2 DEF WorkOK, RecoveryHolds, Idle, At
    <3> QED BY <1>c, <1>o, <2>1, <3>1, <3>2 DEF RecoveryHolds, Owned, HoldsLease
  <2>2. CASE kind # "recovery"
    <3>1. Idle(c, "recovery")
      BY <1>i, <1>l, <2>2, OneHolder DEF WorkOK, Kind
    <3> QED BY <1>c, <2>2, <3>1, Kinds DEF RecoveryHolds, Idle, At
  <2> QED BY <2>1, <2>2
<1>4. MainOK(c)'
  BY <1>c, <1>a DEF MainOK
<1>5. BeatOK(c)'
  <2>1. CASE kind = "beat"
    BY <1>c, <1>n, <2>1 DEF BeatOK, Prepared
  <2>2. CASE kind # "beat"
    <3>1. PICK b : b = call[c]["beat"]
      OBVIOUS
    <3>2. call'[c]["beat"] = b
      BY <1>c, <2>2, <3>1, Kinds
    <3>3. HoldsLease(c, b.lease)' => HoldsLease(c, b.lease)
      <4>1. PICK x : x = b.lease
        OBVIOUS
      <4>2. HoldsLease(c, x)' => HoldsLease(c, x)
        BY <1>l, <1>o DEF HoldsLease
      <4> QED BY <4>1, <4>2 DEF HoldsLease
    <3> QED BY <1>i, <2>2, <3>1, <3>2, <3>3 DEF WorkOK, BeatOK, HoldsLease, Prepared
  <2> QED BY <2>1, <2>2
<1>6. RowEvidence(c)'
  BY <1>c DEF RowEvidence, Evidence, Verified, QAHeadChanged
<1>7. ASSUME NEW k \in Kind PROVE CallsOK(c, k)'
  <2>1. CASE k = kind
    BY <1>i, <1>c, <1>g, <1>n, <2>1, NotWriting
  <2>2. CASE k # kind
    <3>1. CallsOK(c, k) /\ call'[c][k] = call[c][k]
      BY <1>i, <1>c, <2>2 DEF WorkOK
    <3>2. CallEvidence(c, k)' /\ WriteOK(c, k)'
      BY <1>i, <1>c, <1>g, <3>1, CallEvidenceStays, WriteStays DEF CallsOK
    <3>3. Landing(c, k)'
      BY <1>p, <3>1 DEF Landing, At
    <3> QED BY <3>2, <3>3 DEF CallsOK
  <2> QED BY <2>1, <2>2
<1>8. Declaring(c)' /\ PubOK(c)' /\ Publishing(c)' /\ Undisturbed(c)'
  BY <1>c, <1>a DEF Declaring, PubOK, Publishing, Undisturbed, Follows, Prepared
<1>9. WorkOK(c)'
  BY <1>2, <1>3, <1>4, <1>5, <1>6, <1>7, <1>8 DEF WorkOK
<1> QED BY <1>1, <1>9

LEMMA FollowedKeeps ==
    ASSUME NEW cp \in Checkpoints
    PROVE  /\ Followed(cp).adv = "none" /\ Followed(cp).rec = "none"
           /\ Followed(cp).rep = cp.rep /\ Followed(cp).dec = cp.dec
BY DEF Followed, Checkpoints

LEMMA CopyDeclared ==
    ASSUME IInv, NEW c \in Claim, NEW kind \in Kind, Prepared(call[c][kind].cp.pub)
    PROVE  LET p == call[c][kind].cp.pub
           IN /\ p.from \in made /\ p.to \in made /\ p.from # p.to /\ p.to \in Sha
              /\ phase \in CodePhases
<1>1. PICK p : p = call[c][kind].cp.pub
  OBVIOUS
<1>2. Declared(p) /\ p.status = "prepared" /\ made \subseteq Sha
  BY <1>1 DEF IInv, ClaimOK, CallOK, Prepared, Typed, TypeOK
<1>3. NoPub.status = "none"
  BY DEF NoPub
<1> QED BY <1>1, <1>2, <1>3 DEF Declared

\* What move_external_head leaves of the row.
Rebinding(c, sha, cp) == row' = [row EXCEPT ![c].sha = sha, ![c].cp = cp]

LEMMA MovedRow ==
    ASSUME TypeOK, NEW c \in Claim, NEW sha \in Sha, NEW cp \in Checkpoints,
           Rebinding(c, sha, cp)
    PROVE  /\ row'[c].cp = cp /\ row'[c].sha = sha
           /\ row'[c].status = row[c].status /\ row'[c].lease = row[c].lease
<1>1. row[c] \in Rows
  BY DEF TypeOK
<1>2. LET r == [row[c] EXCEPT !.sha = sha, !.cp = cp]
      IN /\ r.status = row[c].status /\ r.lease = row[c].lease /\ r.sha = sha /\ r.cp = cp
  BY <1>1 DEF Rows
<1>3. row'[c] = [row[c] EXCEPT !.sha = sha, !.cp = cp]
  BY DEF TypeOK, Rebinding
<1> QED BY <1>2, <1>3

\* A handler follows the commit that the claim declared.
LEMMA FollowsWork ==
    ASSUME RInv, IInv', NEW c \in Claim, NEW kind \in Kind, Outcome(c),
           NEW m, m = call[c][kind], NEW p, p = m.cp.pub,
           m.at = "refresh", Prepared(p), p.from = m.sha, Sees(p.to, {"running"}),
           Owned(c, m.lease), row[c].sha = p.from, Obtains(p.to, m.lease),
           Rebinding(c, p.to, Followed(m.cp)),
           call' = [call EXCEPT ![c][kind] = Follow(m, p.to, row'[c].cp)],
           UNCHANGED <<pull, evidence, worker>>, NEW d \in Claim
    PROVE  WorkOK(d)'
<1>i. IInv /\ WorkOK(c) /\ Typed /\ TypeOK
  BY DEF RInv, IInv, Typed
<1>t. m \in Calls /\ m.cp \in Checkpoints /\ m.lease \in Lease \cup {NoLease}
  BY <1>i, CallTypes
<1>p. /\ p.from \in made /\ p.to \in made /\ p.from # p.to /\ p.to \in Sha /\ phase \in CodePhases
  BY <1>i, CopyDeclared
<1>1. row[c].cp.pub = p
  <2>1. CASE kind = "recovery"
    BY <1>i, <2>1 DEF IInv, ClaimOK, RecoveryOK, Owned
  <2>2. CASE kind \in {"main", "beat"}
    BY <1>i, <2>2 DEF IInv, ClaimOK, CopyOK, Owned, At
  <2> QED BY <2>1, <2>2 DEF Kind
<1>a. PICK cp : cp = Followed(m.cp)
  OBVIOUS
<1>s. PICK to : to = p.to
  OBVIOUS
<1>b. PICK n : n = Follow(m, to, cp)
  OBVIOUS
<1>2. /\ cp \in Checkpoints /\ cp.pub.status = "applied" /\ cp.adv = "none" /\ cp.rec = "none"
      /\ cp.rep = m.cp.rep
  BY <1>t, <1>a, FollowedType, FollowedKeeps
<1>3. row'[c].cp = cp /\ row'[c].sha = p.to /\ row'[c].status = row[c].status
      /\ row'[c].lease = row[c].lease
  <2>1. Rebinding(c, p.to, cp)
    BY <1>a
  <2> QED BY <1>i, <1>p, <1>2, <2>1, MovedRow
<1>4. /\ n \in Calls /\ n.at = "check" /\ n.sha = p.to /\ n.cp = cp
      /\ n.lease = m.lease /\ n.op = m.op
  BY <1>t, <1>p, <1>s, <1>b, <1>2 DEF Follow, Calls
<1>5. Handles(c, kind, n)
  <2>1. call' = [call EXCEPT ![c][kind] = n]
    BY <1>b, <1>s, <1>3
  <2> QED BY <1>i, <1>4, <2>1, Handled
<1>6. Evidence(m.cp, m.sha)
  BY <1>i DEF WorkOK, CallsOK, CallEvidence, Idle, At
<1>7. Evidence(cp, p.to)
  BY <1>2, <1>6, <1>p DEF Evidence, CodePhases, ReportPhases
<1>8. head = p.to /\ route = "running" /\ row[c].sha # p.to
  BY <1>p DEF Sees
<1>9. client[c] \in {"pushed", "gone"} /\ call[c]["main"].op \in {"none", "confirm"}
  BY <1>i, <1>1, <1>8 DEF IInv, ClaimOK, RowOK, WorkOK, Declaring
<1>10. call'[c]["main"].op \in {"none", "confirm"}
  BY <1>4, <1>5, <1>9, Kinds DEF Handles
<1>11. ~At(c, "main", "recheck")
  BY <1>i, <1>9 DEF WorkOK, MainOK, At
<1>12. call[c]["beat"].at # "check" \/ ~HoldsLease(c, call[c]["beat"].lease)
  BY <1>i, <1>1 DEF WorkOK, BeatOK
<1>13. ASSUME NEW e \in Claim \ {c}
       PROVE  /\ ~At(e, "main", "move")
              /\ Prepared(row[e].cp.pub) /\ row[e].status = "running" => row[e].cp.pub.to # p.to
  <2>1. ~At(e, "main", "move")
    BY <1>i, <1>p, Kinds DEF IInv, ClaimOK, CallOK, At, CodePhases, ReportPhases
  <2>2. Prepared(row[e].cp.pub) => row[e].cp.pub.to # p.to
    BY <1>i, <1>1 DEF WorkOK, PubOK
  <2> QED BY <2>1, <2>2
<1>14. ~Prepared(cp.pub)
  BY <1>2 DEF Prepared
<1>15. /\ client[c] \notin {"new", "declared"}
       /\ kind = "recovery" => call[c][kind].at = "refresh"
       /\ \/ n = NoCall /\ kind # "recovery"
          \/ /\ n.at = "check" /\ n.sha = p.to /\ n.cp = cp /\ n.lease = m.lease
             /\ n.op = call[c][kind].op
       /\ kind = "beat" \/ call[c]["beat"].at # "check"
                        \/ ~HoldsLease(c, call[c]["beat"].lease)
  BY <1>4, <1>9, <1>12
<1> QED BY <1>p, <1>3, <1>4, <1>5, <1>7, <1>8, <1>10, <1>11, <1>13, <1>14, <1>15, RebindsWork

LEMMA RefreshHeadWork ==
    ASSUME RInv, IInv', NEW c \in Claim, NEW kind \in Kind, Outcome(c), RefreshHead(c, kind),
           NEW d \in Claim
    PROVE  WorkOK(d)'
<1>i. IInv /\ WorkOK(c) /\ Typed /\ TypeOK
  BY DEF RInv, IInv, Typed
<1>m. PICK m : m = call[c][kind]
  OBVIOUS
<1>p. PICK p : p = m.cp.pub
  OBVIOUS
<1>t. m \in Calls /\ m.cp \in Checkpoints
  BY <1>i, <1>m, CallTypes
<1>0. m.at = "refresh" /\ UNCHANGED <<pull, evidence, worker>>
  BY <1>m DEF RefreshHead
<1>1. CASE /\ p.status # "prepared" \/ head = m.sha
           /\ Goes(c, kind, "check") /\ UNCHANGED <<own, row>>
  <2> DEFINE n == [m EXCEPT !.at = "check"]
  <2>1. Handles(c, kind, n) /\ n \in Calls
    BY <1>i, <1>m, <1>1, Went
  <2>2. n.at = "check" /\ n.lease = m.lease /\ n.sha = m.sha /\ n.cp = m.cp /\ n.op = m.op
    BY <1>t DEF Calls
  <2> HIDE DEF n
  <2>3. ~Prepared(m.cp.pub) \/ head = m.sha
    BY <1>p, <1>1 DEF Prepared
  <2> QED BY <1>m, <1>0, <1>1, <2>1, <2>2, <2>3, InPlaceWork
<1>2. CASE /\ Prepared(p) /\ p.from = m.sha /\ Sees(p.to, {"running"}) /\ owner[m.sha] = m.lease
           /\ MovesHead(c, m.lease, p.from, p.to, Followed(m.cp))
           /\ call' = [call EXCEPT ![c][kind] = Follow(m, p.to, row'[c].cp)]
  <2>1. CASE row[c].sha = p.from
    <3>1. p.from # p.to
      BY <1>i, <1>m, <1>p, <1>2, CopyDeclared
    <3>2. Owned(c, m.lease)
      BY <1>2, <2>1 DEF MovesHead, Owned
    <3>3. Obtains(p.to, m.lease) /\ Rebinding(c, p.to, Followed(m.cp))
      BY <1>2, <2>1, <3>1 DEF MovesHead, Rebinding
    <3> QED BY <1>m, <1>p, <1>0, <1>2, <2>1, <3>2, <3>3, FollowsWork
  <2>2. CASE row[c].sha # p.from
    <3>1. /\ row[c].sha = p.to /\ row[c].cp.pub.status = "applied" /\ UNCHANGED <<own, row>>
      BY <1>2, <2>2 DEF MovesHead
    <3> DEFINE n == Follow(m, p.to, row[c].cp)
    <3>2. p.to \in Sha /\ row[c].cp \in Checkpoints
      BY <1>i, <1>m, <1>p, <1>2, CopyDeclared DEF TypeOK, Rows
    <3>3. /\ n \in Calls /\ n.at = "check" /\ n.sha = p.to /\ n.cp = row[c].cp
          /\ n.lease = m.lease /\ n.op = m.op
      BY <1>t, <3>2, Following
    <3>4. call' = [call EXCEPT ![c][kind] = n]
      BY <1>2, <3>1
    <3> HIDE DEF n
    <3>5. Handles(c, kind, n)
      BY <1>i, <3>3, <3>4, Handled
    <3>6. ~Prepared(row[c].cp.pub)
      BY <3>1 DEF Prepared
    <3> QED BY <1>m, <1>0, <3>1, <3>3, <3>5, <3>6, InPlaceWork
  <2> QED BY <2>1, <2>2
<1> QED BY <1>m, <1>p, <1>1, <1>2 DEF RefreshHead, Follow, Prepared

\* The service records the report commit that it made.
LEMMA ReportsMovedWork ==
    ASSUME RInv, IInv', NEW c \in Claim, Outcome(c), ReportsMove(c),
           call[c]["main"].new # call[c]["main"].sha, NEW d \in Claim
    PROVE  WorkOK(d)'
<1>i. IInv /\ WorkOK(c) /\ Typed /\ TypeOK
  BY DEF RInv, IInv, Typed
<1>m. PICK m : m = call[c]["main"]
  OBVIOUS
<1>t. m \in Calls /\ m.cp \in Checkpoints /\ m.lease \in Lease \cup {NoLease}
  BY <1>i, <1>m, Kinds, CallTypes
<1> DEFINE cp == [m.cp EXCEPT !.rep = "moved", !.adv = "none", !.advBy = NoLease, !.rec = "none"]
<1>c. /\ m.at = "move" /\ Owned(c, m.lease) /\ MovesHead(c, m.lease, m.sha, m.new, cp)
      /\ Ends(c, "main") /\ UNCHANGED <<pull, evidence, worker>> /\ m.new # m.sha
  BY <1>m DEF ReportsMove, At
<1>1. /\ cp \in Checkpoints /\ cp.pub = m.cp.pub /\ cp.adv = "none" /\ cp.rep = "moved"
      /\ cp.rec = "none"
  BY <1>t DEF Checkpoints
<1> HIDE DEF cp
<1>2. phase \in ReportPhases /\ m.new \in Sha /\ ~Prepared(m.cp.pub)
  <2>1. CallOK(c, "main") /\ made \subseteq Sha
    BY <1>i, Kinds DEF IInv, ClaimOK, TypeOK
  <2> QED BY <1>m, <1>c, <2>1, NothingDeclared DEF CallOK
<1>3. /\ m.op = "reports" /\ m.sha = row[c].sha /\ route = "running" /\ head = m.new
      /\ Idle(c, "beat") /\ m.new # Base
      /\ \A e \in Claim \ {c} : ~At(e, "main", "move")
  BY <1>i, <1>m, <1>c DEF WorkOK, MainOK, Publishing, Owned
<1>4. Obtains(m.new, m.lease) /\ Rebinding(c, m.new, cp)
  BY <1>c, <1>3 DEF MovesHead, Rebinding
<1>5. row'[c].cp = cp /\ row'[c].sha = m.new /\ row'[c].status = row[c].status
      /\ row'[c].lease = row[c].lease
  BY <1>i, <1>1, <1>2, <1>4, MovedRow
<1>6. Handles(c, "main", NoCall) /\ NoCall \in Calls /\ NoCall.op = "none"
  <2>1. Handles(c, "main", NoCall)
    BY <1>i, <1>c, Kinds, Ended
  <2> QED BY <2>1, Nulls DEF NoCall, Request
<1>7. call'[c]["main"].op = "none"
  BY <1>6 DEF Handles
<1>8. Evidence(cp, m.new)
  BY <1>1, <1>2, <1>3 DEF Evidence
<1>9. client[c] \notin {"new", "declared"} /\ ~At(c, "main", "recheck")
  BY <1>i, <1>m, <1>c, MainRequest DEF Idle, At
<1>10. \A e \in Claim \ {c} : ~Prepared(row[e].cp.pub)
  BY <1>i, <1>2, NothingDeclared DEF IInv, ClaimOK, RowOK
<1>11. ~Prepared(cp.pub) /\ call[c]["beat"].at # "check" /\ row[c].sha # m.new
  BY <1>1, <1>2, <1>3, <1>c DEF Idle, At
<1> QED BY <1>m, <1>c, <1>2, <1>3, <1>4, <1>5, <1>6, <1>7, <1>8, <1>9, <1>10, <1>11,
           Kinds, RebindsWork

-----------------------------------------------------------------------------
(* The write of the labels *)

LEMMA PutWork ==
    ASSUME RInv, IInv', NEW c \in Claim, NEW kind \in Kind, Outcome(c), Put(c, kind),
           NEW d \in Claim
    PROVE  WorkOK(d)'
<1>i. IInv /\ WorkOK(c) /\ WorkOK(d) /\ Typed /\ TypeOK
  BY DEF RInv, IInv, Typed
<1>m. PICK m : m = call[c][kind]
  OBVIOUS
<1>t. m \in Calls /\ Writes(m)
  BY <1>i, <1>m, CallTypes
<1> DEFINE n == [m EXCEPT !.at = "done"]
<1>n. Handles(c, kind, n) /\ n \in Calls
  BY <1>i, <1>m, Went DEF Put
<1>f. /\ n.at = "done" /\ n.lease = m.lease /\ n.sha = m.sha /\ n.cp = m.cp /\ n.op = m.op
  BY <1>t DEF Calls
<1> HIDE DEF n
<1>c. /\ call'[c][kind] = n /\ \A k \in Kind \ {kind} : call'[c][k] = call[c][k]
      /\ UNCHANGED <<own, head, made, phase, ci, result, row, client, held>>
      /\ route' = m.to /\ m.at = "put"
  BY <1>m, <1>n DEF Handles, Put, evidence, worker, At
<1>w. /\ WriteOK(c, kind) /\ CallEvidence(c, kind)
      /\ Owned(c, m.lease) /\ m.sha = row[c].sha /\ m.sha = head
  BY <1>i, <1>m, <1>c DEF WorkOK, CallsOK, Landing
<1>b. kind \in {"main", "recovery"}
  BY <1>m, <1>w, <1>c DEF WriteOK, Kind
<1>g. Grown
  BY <1>c DEF Grown
<1>k. \A e \in Claim : Kept(e)
  BY <1>i, <1>c, TakingKeeps
<1>r. row'[c] = row[c] /\ Bound(c)
  BY <1>c DEF Bound
<1>o. /\ kind = "main" => Idle(c, "recovery")
      /\ kind = "recovery" => ~HoldsLease(c, held[c]) /\ ~HoldsLease(c, call[c]["main"].lease)
  <2>1. HoldsLease(c, m.lease)
    BY <1>w DEF Owned
  <2>2. kind = "main" => Idle(c, "recovery")
    BY <1>i, <1>m, <2>1, OneHolder DEF WorkOK
  <2>3. kind = "recovery" => ~Idle(c, "recovery")
    BY <1>m, <1>c DEF Idle, At
  <2> QED BY <1>i, <2>2, <2>3, OneHolder DEF WorkOK
<1>u. Uses(c)' \subseteq Uses(c)
  <2>1. \A k \in Kind : call'[c][k].lease = call[c][k].lease
    BY <1>m, <1>c, <1>f
  <2> QED BY <1>c, <2>1, Kinds DEF Uses
<1>x. /\ client[c] # "declared"
      /\ kind = "recovery" => call[c]["main"].op # "reports"
      /\ kind = "recovery" => ~At(c, "main", "put")
      /\ kind = "main" => m.op \in {"start", "advance", "decision"}
  BY <1>i, <1>m, <1>c, <1>b, <1>o, Kinds
     DEF WorkOK, Declaring, Publishing, MainOK, CallsOK, Landing, Owned, Idle, At
<1>1. ASSUME d # c PROVE WorkOK(d)'
  <2>1. \A e \in Claim \ {c} : Untouched(e)
    BY DEF Outcome
  <2>2. call'[c]["main"].at = "done" \/ call'[c]["main"] = call[c]["main"]
    BY <1>b, <1>c, <1>f, Kinds
  <2>3. Modest(c)
    BY <1>c, <1>u, <2>2 DEF Modest, NotAt, NextNotAt, At
  <2>4. OthersMind(d) /\ Spares(c)
    BY <1>i, <1>1, <1>g, <1>k, <2>1, <2>3, ModestMinded DEF Spares
  <2>5. Aside(d)
    BY <1>1, <1>w, <1>c, StandsAlone
  <2> QED BY <1>1, <1>c, <2>4, <2>5, OthersAside
<1>2. LeaseOK(c)'
  <2>1. \A e \in Claim \ {c} : Uses(e)' = Uses(e)
    BY DEF Outcome, Untouched, Uses
  <2>2. LeaseOK(c) /\ held'[c] = held[c] /\ call'[c]["beat"] = call[c]["beat"]
    BY <1>i, <1>b, <1>c, Kinds DEF WorkOK
  <2>3. \/ call'[c]["main"] = call[c]["main"]
        \/ /\ call'[c]["main"].at # "recheck"
           /\ call'[c]["main"].lease \in {NoLease, held[c]}
    <3>1. CASE kind = "main"
      BY <1>m, <1>c, <1>f, <2>2, <3>1 DEF LeaseOK, At
    <3>2. CASE kind # "main"
      BY <1>c, <3>2, Kinds
    <3> QED BY <3>1, <3>2
  <2>4. call'[c]["beat"].lease \in {NoLease, held[c]}
    BY <2>2 DEF LeaseOK
  <2> QED BY <1>i, <1>k, <1>r, <1>u, <2>1, <2>2, <2>3, <2>4, LeaseStays
<1>3. RecoveryHolds(c)'
  <2>1. CASE kind = "main"
    BY <1>o, <1>c, <2>1, Kinds DEF RecoveryHolds, Idle, At
  <2>2. CASE kind = "recovery"
    BY <1>i, <1>m, <1>c, <1>f, <2>2 DEF WorkOK, RecoveryHolds, HoldsLease, own
  <2> QED BY <1>b, <2>1, <2>2
<1>4. MainOK(c)'
  <2>1. CASE kind = "main"
    BY <1>i, <1>m, <1>c, <1>f, <1>x, <2>1 DEF WorkOK, MainOK, HoldsLease, own
  <2>2. CASE kind = "recovery"
    BY <1>i, <1>c, <1>k, <2>2, Kinds, MainStays DEF WorkOK
  <2> QED BY <1>b, <2>1, <2>2
<1>5. BeatOK(c)' /\ RowEvidence(c)'
  <2>1. call'[c]["beat"] = call[c]["beat"]
    BY <1>b, <1>c, Kinds
  <2> QED BY <1>i, <1>g, <1>k, <1>r, <1>c, <2>1, BeatStays, RowEvidenceStays DEF WorkOK
<1>6. ASSUME NEW k \in Kind PROVE CallsOK(c, k)'
  <2>1. CASE k = kind
    BY <1>i, <1>m, <1>g, <1>c, <1>f, <1>w, <2>1, NotWriting DEF CallEvidence, Idle, At
  <2>2. CASE k # kind
    <3>1. CallsOK(c, k) /\ call'[c][k] = call[c][k]
      BY <1>i, <1>c, <2>2 DEF WorkOK
    <3>2. CallEvidence(c, k)' /\ WriteOK(c, k)'
      BY <1>i, <1>c, <1>g, <3>1, CallEvidenceStays, WriteStays DEF CallsOK
    <3>3. ~At(c, k, "put")
      BY <1>i, <1>b, <1>o, <1>x, <2>2 DEF WorkOK, BeatOK, Kind, Idle, At
    <3> QED BY <3>1, <3>2, <3>3 DEF CallsOK, Landing, At
  <2> QED BY <2>1, <2>2
<1>7. Declaring(c)'
  BY <1>c, <1>x DEF Declaring
<1>8. PubOK(c)'
  <2>1. Prepared(row[c].cp.pub) => row[c].cp.pub.to # row[c].cp.pub.from
    BY <1>i DEF IInv, ClaimOK, RowOK, Declared, Prepared, NoPub
  <2>2. \A e \in Claim \ {c} : \A sha : NotAt(e, sha) => NextNotAt(e, sha)
    BY <1>c DEF Outcome, Untouched, NotAt, NextNotAt, At
  <2> QED BY <1>i, <1>c, <1>w, <2>1, <2>2 DEF WorkOK, PubOK, NotAt, NextNotAt, At, Prepared
<1>9. Publishing(c)'
  <2>1. call'[c]["main"].op # "reports"
    BY <1>b, <1>c, <1>f, <1>x, Kinds
  <2> QED BY <1>4, <2>1 DEF Publishing, MainOK
<1>10. Undisturbed(c)'
  <2>1. SUFFICES ASSUME Entitled(c) PROVE row[c].cp.adv # "none" \/ row[c].cp.dec
    BY <1>c DEF Undisturbed, Entitled, own
  <2>2. HoldsLease(c, held[c])
    BY <1>i, <2>1 DEF WorkOK, LeaseOK, Entitled, Owned
  <2>3. kind = "main"
    BY <1>b, <1>o, <2>2
  <2>4. m.cp = row[c].cp /\ m.op \in {"advance", "decision"}
    BY <1>i, <1>m, <1>w, <1>x, <2>1, <2>3 DEF WorkOK, MainOK, Owned, Entitled, Executing
  <2>5. m.to # "none"
    BY <1>t, <1>c DEF Writes, Route
  <2> QED BY <1>m, <1>w, <1>c, <2>4, <2>5 DEF WriteOK
<1>11. WorkOK(c)'
  BY <1>2, <1>3, <1>4, <1>5, <1>6, <1>7, <1>8, <1>9, <1>10 DEF WorkOK
<1> QED BY <1>1, <1>11

-----------------------------------------------------------------------------
(* The steps that bring commits *)

\* A claim none of whose handlers is about to write.
LEMMA AllQuiet ==
    ASSUME Typed, Grown, NEW c \in Claim,
           \A kind \in Kind : /\ call'[c][kind] = call[c][kind] /\ CallsOK(c, kind)
                              /\ ~At(c, kind, "put"),
           call[c]["recovery"].at = "verify"
               => result'[call[c]["recovery"].sha] = result[call[c]["recovery"].sha]
    PROVE  \A kind \in Kind : CallsOK(c, kind)'
<1> SUFFICES ASSUME NEW kind \in Kind PROVE CallsOK(c, kind)'
  OBVIOUS
<1>1. CallEvidence(c, kind)' /\ WriteOK(c, kind)'
  BY CallEvidenceStays, WriteStays DEF CallsOK, At
<1> QED BY <1>1 DEF CallsOK, Landing, At

LEMMA RowDeclared ==
    ASSUME IInv, NEW c \in Claim, Prepared(row[c].cp.pub)
    PROVE  LET p == row[c].cp.pub
           IN /\ p.from \in made /\ p.to \in made /\ p.from # p.to /\ p.to \in Sha
              /\ phase \in CodePhases
<1>1. PICK p : p = row[c].cp.pub
  OBVIOUS
<1>2. Declared(p) /\ p.status = "prepared" /\ made \subseteq Sha
  BY <1>1 DEF IInv, ClaimOK, RowOK, Prepared, Typed, TypeOK
<1>3. NoPub.status = "none"
  BY DEF NoPub
<1> QED BY <1>1, <1>2, <1>3 DEF Declared

LEMMA PushWork ==
    ASSUME RInv, IInv', NEW c \in Claim, Outcome(c), Push(c), NEW d \in Claim
    PROVE  WorkOK(d)'
<1>i. IInv /\ WorkOK(c) /\ WorkOK(d) /\ Typed /\ TypeOK
  BY DEF RInv, IInv, Typed
<1>c. /\ UNCHANGED <<own, route, made, phase, ci, result, row, held, call>>
      /\ client[c] = "declared" /\ client'[c] = "pushed"
      /\ head = row[c].cp.pub.from /\ head' = row[c].cp.pub.to
  BY <1>i DEF Push, Becomes, evidence, TypeOK
<1>w. /\ Prepared(row[c].cp.pub) /\ Owned(c, held[c]) /\ head = row[c].sha /\ route = "running"
      /\ Idle(c, "main") /\ Idle(c, "beat") /\ row[c].status = "running"
      /\ head' # row[c].sha
  <2>1. /\ Prepared(row[c].cp.pub) /\ Owned(c, held[c]) /\ head = row[c].sha /\ route = "running"
        /\ Idle(c, "main") /\ Idle(c, "beat")
    BY <1>i, <1>c DEF WorkOK, Declaring
  <2>2. head' # head
    BY <1>i, <1>c, <2>1, RowDeclared
  <2> QED BY <2>1, <2>2 DEF Owned, HoldsLease
<1>g. Grown
  BY <1>c DEF Grown
<1>k. \A e \in Claim : Kept(e)
  BY <1>i, <1>c, TakingKeeps
<1>u. \A e \in Claim : Uses(e)' = Uses(e) /\ Bound(e) /\ row'[e] = row[e] /\ call'[e] = call[e]
  BY <1>c DEF Uses, Bound
<1>o. \A k \in Kind : Idle(c, k)
  BY <1>i, <1>w, OneHolder DEF WorkOK, Owned, Kind
<1>n. call[c]["main"] = NoCall /\ NoCall.op = "none" /\ NoCall.at = "idle"
  BY <1>i, <1>w, Kinds DEF IInv, ClaimOK, CallOK, Idle, At, NoCall, Request
<1>1. ASSUME d # c PROVE WorkOK(d)'
  <2>1. \A e \in Claim \ {c} : Untouched(e)
    BY DEF Outcome
  <2>2. Modest(c)
    BY <1>u DEF Modest, NotAt, NextNotAt, At
  <2>3. OthersMind(d) /\ Spares(c)
    BY <1>i, <1>1, <1>g, <1>k, <2>1, <2>2, ModestMinded DEF Spares
  <2>4. Aside(d)
    BY <1>1, <1>w, <1>c, StandsAlone
  <2> QED BY <1>1, <1>c, <2>3, <2>4, OthersAside
<1>2. LeaseOK(c)'
  BY <1>i, <1>c, <1>k, <1>u, LeaseStays DEF WorkOK, LeaseOK
<1>3. RecoveryHolds(c)' /\ RowEvidence(c)'
  BY <1>i, <1>k, <1>g, <1>u, RecoveryStays, RowEvidenceStays DEF WorkOK
<1>4. MainOK(c)' /\ BeatOK(c)'
  BY <1>u, <1>c, <1>w, <1>n DEF MainOK, BeatOK, Idle, At
<1>5. \A kind \in Kind : CallsOK(c, kind)'
  BY <1>i, <1>c, <1>g, <1>u, <1>o, AllQuiet DEF WorkOK, Idle, At
<1>6. Declaring(c)' /\ Publishing(c)'
  BY <1>u, <1>c, <1>n DEF Declaring, Publishing
<1>7. PubOK(c)'
  <2>1. \A e \in Claim \ {c} : \A sha : NotAt(e, sha) => NextNotAt(e, sha)
    BY <1>u DEF NotAt, NextNotAt, At
  <2> QED BY <1>i, <1>c, <1>u, <1>w, <2>1 DEF WorkOK, PubOK, NotAt, NextNotAt, At, Prepared
<1>8. Undisturbed(c)'
  BY <1>c, <1>u, <1>w DEF Undisturbed, Follows, Prepared
<1>9. WorkOK(c)'
  BY <1>2, <1>3, <1>4, <1>5, <1>6, <1>7, <1>8 DEF WorkOK
<1> QED BY <1>1, <1>9

\* Every commit a claim is bound to, or is about to be, exists.
LEMMA FreshElsewhere ==
    ASSUME IInv, NEW c \in Claim, NEW to \in Sha \ made
    PROVE  NotAt(c, to)
<1>1. row[c].sha # to
  <2>1. row[c] # NoRow => row[c].sha \in made
    BY DEF IInv, ClaimOK, RowOK
  <2>2. row[c] = NoRow => row[c].sha = NoSha
    BY DEF NoRow
  <2> QED BY <2>1, <2>2, NullAssumption
<1>2. At(c, "main", "claim") => call[c]["main"].sha # to
  BY Kinds DEF IInv, ClaimOK, CallOK, At
<1> QED BY <1>1, <1>2 DEF NotAt

LEMMA PrepareHeadWork ==
    ASSUME Favourable, RInv, IInv', NEW c \in Claim, Outcome(c), NEW to \in Sha,
           PrepareHead(c, to), NEW d \in Claim
    PROVE  WorkOK(d)'
<1>i. IInv /\ WorkOK(c) /\ WorkOK(d) /\ Typed /\ TypeOK
  BY DEF RInv, IInv, Typed
<1>t. row[c].cp \in Checkpoints /\ row[c].sha \in Sha \cup {NoSha}
  BY <1>i DEF TypeOK, Rows
<1>p. PICK p : p = [status |-> "prepared", from |-> row[c].sha, to |-> to]
  OBVIOUS
<1> DEFINE cp == [row[c].cp EXCEPT !.pub = p]
<1>c. /\ client[c] = "working" /\ Idle(c, "main")
      /\ QuietPublication => Idle(c, "beat")
      /\ phase \in CodePhases /\ Owned(c, held[c]) /\ Sees(row[c].sha, {"running"})
      /\ to \in Sha \ made /\ made' = made \cup {to}
      /\ Saves(c, held[c], cp) /\ client'[c] = "declared"
      /\ UNCHANGED <<own, head, route, phase, ci, result, held, call>>
  BY <1>i, <1>p DEF PrepareHead, MayPublish, Becomes, evidence, TypeOK
<1>b. Idle(c, "beat")
  BY <1>i, <1>c, Quietly
<1>1. /\ cp \in Checkpoints /\ cp.pub = p /\ cp.adv = row[c].cp.adv /\ cp.dec = row[c].cp.dec
      /\ cp.rep = row[c].cp.rep /\ cp.rec = row[c].cp.rec
  <2>1. p \in Pubs
    BY <1>t, <1>p DEF Pubs
  <2> QED BY <1>t, <2>1 DEF Checkpoints
<1> HIDE DEF cp
<1>r. Bound(c) /\ row'[c].cp = cp /\ HoldsLease(c, held[c]) /\ row[c].status = "running"
  <2>1. LET r == [row[c] EXCEPT !.cp = cp]
        IN /\ Records(c, r) /\ r.status = row[c].status /\ r.lease = row[c].lease
           /\ r.sha = row[c].sha /\ r.cp = cp
    BY <1>i, <1>c, <1>1, Saved
  <2> QED BY <1>c, <2>1 DEF Records, Bound, Saves, HoldsLease
<1>g. Grown
  BY <1>c DEF Grown
<1>k. \A e \in Claim : Kept(e)
  BY <1>i, <1>c, TakingKeeps
<1>u. \A e \in Claim : Uses(e)' = Uses(e) /\ call'[e] = call[e]
  <2>1. \A e \in Claim : row'[e].lease = row[e].lease /\ call'[e] = call[e] /\ held'[e] = held[e]
    BY <1>c, <1>r DEF Bound, Outcome, Untouched
  <2> QED BY <2>1 DEF Uses
<1>o. \A k \in Kind : Idle(c, k)
  BY <1>i, <1>c, <1>b, <1>r, OneHolder DEF WorkOK, Kind
<1>n. call[c]["main"] = NoCall /\ NoCall.op = "none" /\ NoCall.at = "idle"
  BY <1>i, <1>c, Kinds DEF IInv, ClaimOK, CallOK, Idle, At, NoCall, Request
<1>2. ASSUME d # c PROVE WorkOK(d)'
  <2>1. \A e \in Claim \ {c} : Untouched(e)
    BY DEF Outcome
  <2>2. \A sha : NotAt(c, sha) => NextNotAt(c, sha)
    BY <1>r, <1>u DEF Bound, NotAt, NextNotAt, At
  <2>3. /\ Prepared(row[d].cp.pub) /\ row[d].status = "running" => NextNotAt(c, row[d].cp.pub.to)
        /\ At(d, "main", "move") =>
               /\ call'[c]["main"].at # "move"
               /\ call[d]["main"].new # call[d]["main"].sha => NextNotAt(c, call[d]["main"].new)
    BY <1>i, <1>2, <1>n, <1>u, <2>2 DEF WorkOK, PubOK, Publishing, At
  <2>4. row'[c].cp.pub.to \notin made
    BY <1>r, <1>1, <1>p, <1>c
  <2>5. OthersMind(d)
    BY <1>i, <1>2, <1>u, <2>1, <2>3, <2>4, Minded
  <2> QED BY <1>i, <1>2, <1>c, <1>g, <1>k, <2>1, <2>5, OthersStay
<1>3. LeaseOK(c)'
  BY <1>i, <1>c, <1>k, <1>u, <1>r, LeaseStays DEF WorkOK, LeaseOK
<1>4. RecoveryHolds(c)' /\ MainOK(c)' /\ BeatOK(c)'
  BY <1>u, <1>c, <1>o, <1>n, Kinds DEF RecoveryHolds, MainOK, BeatOK, Idle, At
<1>5. RowEvidence(c)'
  BY <1>i, <1>1, <1>r, <1>c DEF WorkOK, RowEvidence, Bound, Evidence, Verified, QAHeadChanged
<1>6. \A kind \in Kind : CallsOK(c, kind)'
  BY <1>i, <1>c, <1>g, <1>u, <1>o, AllQuiet DEF WorkOK, Idle, At
<1>7. Declaring(c)'
  <2>1. Owned(c, held[c])'
    BY <1>c, <1>r DEF Owned, HoldsLease, Bound, own
  <2> QED BY <1>c, <1>r, <1>1, <1>p, <1>b, <1>u, <2>1
          DEF Declaring, Bound, Sees, Prepared, Idle, At
<1>8. PubOK(c)'
  <2>1. \A e \in Claim \ {c} : NextNotAt(e, to)
    <3>1. \A e \in Claim : NotAt(e, to)
      BY <1>i, <1>c, FreshElsewhere
    <3> QED BY <3>1, <1>u DEF Outcome, Untouched, NotAt, NextNotAt, At
  <2>2. \A e \in Claim \ {c} : Prepared(row'[e].cp.pub) => row'[e].cp.pub.to # to
    <3>1. \A e \in Claim : Prepared(row[e].cp.pub) => row[e].cp.pub.to \in made
      BY <1>i DEF IInv, ClaimOK, RowOK, Declared, Prepared, NoPub
    <3> QED BY <3>1, <1>c DEF Outcome, Untouched
  <2>3. head' # to
    BY <1>i, <1>c DEF TypeOK
  <2> QED BY <1>c, <1>r, <1>1, <1>p, <2>1, <2>2, <2>3 DEF PubOK, Bound, NotAt, NextNotAt, At
<1>9. Publishing(c)' /\ Undisturbed(c)'
  BY <1>c, <1>r, <1>u, <1>n DEF Publishing, Undisturbed, Follows, Bound, Sees
<1>10. WorkOK(c)'
  BY <1>3, <1>4, <1>5, <1>6, <1>7, <1>8, <1>9 DEF WorkOK
<1> QED BY <1>2, <1>10

LEMMA ReportsCommitWork ==
    ASSUME RInv, IInv', NEW c \in Claim, Outcome(c), NEW to \in Sha, ReportsCommit(c, to),
           NEW d \in Claim
    PROVE  WorkOK(d)'
<1>i. IInv /\ WorkOK(c) /\ WorkOK(d) /\ Typed /\ TypeOK
  BY DEF RInv, IInv, Typed
<1>m. PICK m : m = call[c]["main"]
  OBVIOUS
<1>t. m \in Calls
  BY <1>i, <1>m, Kinds, CallTypes
<1> DEFINE n == [m EXCEPT !.at = "move", !.new = to]
<1>f. /\ n \in Calls /\ n.at = "move" /\ n.new = to /\ n.lease = m.lease /\ n.sha = m.sha
      /\ n.cp = m.cp /\ n.op = m.op
  BY <1>t DEF Calls
<1>n. Handles(c, "main", n)
  <2>1. call' = [call EXCEPT ![c]["main"] = n]
    BY <1>m DEF ReportsCommit
  <2> HIDE DEF n
  <2> QED BY <1>i, <1>f, <2>1, Kinds, Handled
<1> HIDE DEF n
<1>c. /\ call'[c]["main"] = n /\ call'[c]["beat"] = call[c]["beat"]
      /\ call'[c]["recovery"] = call[c]["recovery"]
      /\ m.at = "commit" /\ head = m.sha /\ (to = m.sha \/ to \in Sha \ made)
      /\ head' = to /\ made' = made \cup {to}
      /\ UNCHANGED <<own, route, phase, ci, result, row, client, held>>
  BY <1>m, <1>n, Kinds DEF Handles, ReportsCommit, At, evidence, worker
<1>w. /\ Owned(c, m.lease) /\ route = "running" /\ row[c].cp.adv = "none" /\ m.op = "reports"
      /\ m.sha = row[c].sha /\ m.cp = row[c].cp /\ Idle(c, "beat")
  BY <1>i, <1>m, <1>c DEF WorkOK, MainOK, Publishing, Owned
<1>a. m.lease \in {NoLease, held[c]} /\ client[c] \notin {"new", "declared"}
  BY <1>i, <1>m, <1>c, MainRequest DEF Idle, At
<1>o. Idle(c, "recovery")
  BY <1>i, <1>m, <1>w, OneHolder DEF WorkOK, Owned
<1>p. phase \in ReportPhases /\ ~Prepared(row[c].cp.pub)
  <2>1. phase \in ReportPhases
    BY <1>i, <1>m, <1>c, Kinds DEF IInv, ClaimOK, CallOK
  <2> QED BY <1>i, <2>1, NothingDeclared DEF IInv, ClaimOK, RowOK
<1>g. Grown
  BY <1>c DEF Grown
<1>k. \A e \in Claim : Kept(e)
  BY <1>i, <1>c, TakingKeeps
<1>u. \A e \in Claim : Uses(e)' = Uses(e) /\ row'[e] = row[e] /\ Bound(e)
  <2>1. \A e \in Claim \ {c} : call'[e] = call[e]
    BY DEF Outcome, Untouched
  <2>2. \A e \in Claim : \A k \in Kind : call'[e][k].lease = call[e][k].lease
    BY <1>m, <1>c, <1>f, <2>1 DEF Kind
  <2> QED BY <1>c, <2>2, Kinds DEF Uses, Bound
<1>s. \A e \in Claim \ {c} : Aside(e)
  BY <1>m, <1>w, <1>c, StandsAlone
<1>1. ASSUME d # c PROVE WorkOK(d)'
  <2>1. \A e \in Claim \ {c} : Untouched(e)
    BY DEF Outcome
  <2>2. Prepared(row[d].cp.pub) /\ row[d].status = "running" => NextNotAt(c, row[d].cp.pub.to)
    BY <1>i, <1>1, <1>u, <1>c, <1>f DEF WorkOK, PubOK, NotAt, NextNotAt
  <2>3. Aside(d) /\ ~At(d, "main", "move")
    BY <1>1, <1>s DEF Aside, At
  <2>4. ~Prepared(row'[c].cp.pub)
    BY <1>p, <1>u
  <2>5. OthersMind(d) /\ Spares(c)
    BY <1>i, <1>1, <1>g, <1>k, <1>u, <2>1, <2>2, <2>3, <2>4, Minded DEF Spares
  <2> QED BY <1>1, <1>c, <2>3, <2>5, OthersAside
<1>2. LeaseOK(c)'
  <2>1. /\ LeaseOK(c) /\ held'[c] = held[c] /\ call'[c]["beat"].lease \in {NoLease, held[c]}
        /\ call'[c]["main"].at # "recheck" /\ call'[c]["main"].lease \in {NoLease, held[c]}
    BY <1>i, <1>c, <1>f, <1>a DEF WorkOK, LeaseOK
  <2> QED BY <1>i, <1>k, <1>u, <2>1, LeaseStays
<1>3. RecoveryHolds(c)' /\ BeatOK(c)'
  BY <1>c, <1>o, <1>w DEF RecoveryHolds, BeatOK, Idle, At
<1>4. MainOK(c)'
  BY <1>c, <1>f, <1>w, <1>a, <1>u DEF MainOK
<1>5. RowEvidence(c)'
  BY <1>i, <1>g, <1>u, RowEvidenceStays DEF WorkOK
<1>6. ASSUME NEW k \in Kind PROVE CallsOK(c, k)'
  <2>1. CASE k = "main"
    <3>1. Evidence(n.cp, n.sha)
      BY <1>i, <1>w, <1>f DEF WorkOK, RowEvidence
    <3> QED BY <1>i, <1>g, <1>c, <1>f, <2>1, <3>1, Kinds, NotWriting
  <2>2. CASE k # "main"
    <3>1. call'[c][k].at = "idle"
      BY <1>c, <1>o, <1>w, <2>2 DEF Kind, Idle, At
    <3> QED BY <1>i, <1>g, <3>1, NotWriting
  <2> QED BY <2>1, <2>2
<1>7. Declaring(c)' /\ PubOK(c)'
  BY <1>c, <1>a, <1>p DEF Declaring, PubOK, Prepared
<1>8. Publishing(c)'
  <2>1. Owned(c, m.lease)'
    BY <1>c, <1>w DEF Owned, HoldsLease, own
  <2>2. \A e \in Claim \ {c} : call'[e]["main"].at # "move"
    BY <1>s DEF Aside, Outcome, Untouched
  <2>3. ASSUME to # m.sha PROVE to # Base /\ \A e \in Claim : NextNotAt(e, to)
    <3>1. to \in Sha \ made /\ Base \in made
      BY <1>c, <2>3 DEF RInv
    <3>2. \A e \in Claim : NotAt(e, to)
      BY <1>i, <3>1, FreshElsewhere
    <3>3. \A e \in Claim \ {c} : call'[e] = call[e]
      BY DEF Outcome, Untouched
    <3> QED BY <1>c, <1>f, <1>u, <3>1, <3>2, <3>3 DEF NotAt, NextNotAt, At
  <2> QED BY <1>c, <1>f, <1>w, <2>1, <2>2, <2>3
          DEF Publishing, Owned, HoldsLease, NotAt, NextNotAt, Idle, At
<1>9. Undisturbed(c)'
  BY <1>c, <1>f, <1>w DEF Undisturbed, Follows, At
<1>10. WorkOK(c)'
  BY <1>2, <1>3, <1>4, <1>5, <1>6, <1>7, <1>8, <1>9 DEF WorkOK
<1> QED BY <1>1, <1>10

-----------------------------------------------------------------------------
(* Claims that come and come back *)

LEMMA NoCpEvidence ==
    ASSUME NEW sha
    PROVE  Evidence(NoCp, sha) /\ ~Prepared(NoCp.pub)
BY DEF NoCp, NoPub, Prepared, Evidence

LEMMA AcquireReadWork ==
    ASSUME RInv, IInv', NEW c \in Claim, Outcome(c), AcquireRead(c), NEW d \in Claim
    PROVE  WorkOK(d)'
<1>i. IInv /\ WorkOK(c) /\ WorkOK(d) /\ Typed /\ TypeOK
  BY DEF RInv, IInv, Typed
<1> DEFINE n == Request("acquire", "claim", NoLease, head, NoCp)
<1>f. /\ n.op = "acquire" /\ n.at = "claim" /\ n.lease = NoLease /\ n.sha = head /\ n.cp = NoCp
      /\ n \in Calls
  BY <1>i, Nulls DEF Request, Calls, TypeOK
<1>n. Handles(c, "main", n)
  <2>1. call' = [call EXCEPT ![c]["main"] = n]
    BY DEF AcquireRead
  <2> HIDE DEF n
  <2> QED BY <1>i, <1>f, <2>1, Kinds, Handled
<1> HIDE DEF n
<1>c. /\ call'[c]["main"] = n /\ client[c] = "new" /\ client'[c] = "asking" /\ route = "todo"
      /\ UNCHANGED <<own, pull, evidence, row, held>>
  BY <1>i, <1>n DEF Handles, AcquireRead, Becomes, TypeOK
<1>r. row[c] = NoRow /\ row'[c] = NoRow /\ NoRow.sha = NoSha /\ ~Prepared(NoRow.cp.pub)
      /\ held[c] = NoLease /\ Idle(c, "main")
  BY <1>i, <1>c, NoCpEvidence DEF IInv, ClaimOK, RowOK, WorkOK, MainOK, NoRow, Idle, At
<1>g. Grown
  BY <1>i, <1>c, UnchangedGrown DEF pull
<1>k. \A e \in Claim : Kept(e)
  BY <1>i, <1>c, TakingKeeps
<1>1. CallsOK(c, "main")'
  BY <1>i, <1>g, <1>c, <1>f, Kinds, NoCpEvidence, NotWriting
<1>2. RowEvidence(c)' /\ Bound(c) /\ row'[c].cp.pub = row[c].cp.pub
  BY <1>i, <1>c, <1>r, RowStays DEF WorkOK, pull
<1>3. \A e \in Claim \ {c} : Untouched(e)
  BY DEF Outcome
<1>4. Moves(c, "main", n)
  BY <1>n, <1>f, <1>c, <1>g, <1>k, <1>1, <1>2, <1>3 DEF Moves, pull, evidence
<1>5. ASSUME d # c PROVE WorkOK(d)'
  <2>1. Uses(c)' \subseteq Uses(c)
    BY <1>i, <1>4, Kinds, MoveUses
  <2>2. Prepared(row[d].cp.pub) /\ row[d].status = "running" => NextNotAt(c, row[d].cp.pub.to)
    <3>1. SUFFICES ASSUME Prepared(row[d].cp.pub), row[d].status = "running"
                   PROVE  row[d].cp.pub.to # NoSha /\ row[d].cp.pub.to # head
      BY <1>r, <1>c, <1>f DEF NextNotAt
    <3>2. row[d].cp.pub.to \in Sha
      BY <1>i, <3>1, RowDeclared
    <3> QED BY <1>i, <1>c, <3>1, <3>2, NullAssumption DEF WorkOK, PubOK
  <2>3. ~At(d, "main", "move")
    BY <1>i, <1>c DEF WorkOK, Publishing, At
  <2>4. OthersMind(d)
    BY <1>i, <1>3, <1>5, <1>r, <2>1, <2>2, <2>3, Minded
  <2> QED BY <1>i, <1>c, <1>g, <1>k, <1>3, <1>5, <2>4, OthersStay DEF pull, evidence
<1>6. MainOK(c)'
  BY <1>c, <1>f, <1>r DEF MainOK
<1>7. WorkOK(c)'
  BY <1>c, <1>f, <1>r, <1>4, <1>6, MainMoves DEF Idle, At, Executing
<1> QED BY <1>5, <1>7

\* A lease that comes into force belongs to nobody else.
LEMMA FreshLease ==
    ASSUME IInv, NEW c \in Claim, \A d \in Claim : LeaseOK(d), NEW l \in Lease, ~Known(l),
           Uses(c)' \subseteq Uses(c) \cup {l}, \A e \in Claim \ {c} : Untouched(e)
    PROVE  \A e \in Claim \ {c} : Uses(c)' \cap Uses(e)' = {}
<1> SUFFICES ASSUME NEW e \in Claim \ {c} PROVE Uses(c)' \cap Uses(e)' = {}
  OBVIOUS
<1>1. Uses(e)' = Uses(e)
  BY DEF Untouched, Uses
<1>2. l \notin Uses(e)
  BY UsesKnown
<1> QED BY <1>1, <1>2 DEF LeaseOK

LEMMA AcquireClaimWork ==
    ASSUME RInv, IInv', NEW c \in Claim, Outcome(c), NEW l \in Lease, AcquireClaim(c, l),
           NEW d \in Claim
    PROVE  WorkOK(d)'
<1>i. IInv /\ WorkOK(c) /\ WorkOK(d) /\ Typed /\ TypeOK
  BY DEF RInv, IInv, Typed
<1>m. PICK m : m = call[c]["main"]
  OBVIOUS
<1>t. m \in Calls /\ m.at = "claim"
  BY <1>i, <1>m, Kinds, CallTypes DEF AcquireClaim, At
<1>l. ~Known(l) /\ l # NoLease /\ Own!Issue(l)
  BY <1>i, Fresh DEF AcquireClaim
<1> DEFINE n == [m EXCEPT !.at = "recheck", !.lease = l]
           r == [status |-> "running", lease |-> l, sha |-> m.sha, cp |-> NoCp]
<1>f. /\ n \in Calls /\ n.at = "recheck" /\ n.lease = l /\ n.sha = m.sha /\ n.cp = m.cp
      /\ n.op = m.op
  BY <1>t DEF Calls
<1>a. call' = [call EXCEPT ![c]["main"] = n]
  BY <1>i, <1>m, Kinds DEF AcquireClaim, TypeOK
<1>n. Handles(c, "main", n)
  BY <1>i, <1>f, <1>a, Kinds, Handled
<1> HIDE DEF n
<1>r. r.lease = l /\ r.sha = m.sha /\ r.cp = NoCp /\ r.status = "running"
  OBVIOUS
<1>v. row' = [row EXCEPT ![c] = r]
  BY <1>m DEF AcquireClaim
<1> HIDE DEF r
<1>c. /\ call'[c]["main"] = n /\ call'[c]["beat"] = call[c]["beat"]
      /\ call'[c]["recovery"] = call[c]["recovery"] /\ row'[c] = r
      /\ UNCHANGED <<head, route, made, phase, ci, result, client, held>>
      /\ owner'[m.sha] = l /\ l \in inForce'
  BY <1>i, <1>m, <1>n, <1>v, <1>l, Kinds
     DEF Handles, AcquireClaim, TypeOK, pull, evidence, worker, Own!Issue
<1>w. /\ m.op = "acquire" /\ held[c] = NoLease /\ client[c] \in {"asking", "gone"}
      /\ row[c] = NoRow /\ call[c]["beat"].lease = NoLease /\ m.lease = NoLease
      /\ Idle(c, "recovery")
  <2>1. row[c] = NoRow /\ NoRow.status = "absent"
    BY <1>i, <1>m, <1>t DEF IInv, ClaimOK, RowOK, At, NoRow
  <2>2. m.op = "acquire" /\ held[c] = NoLease /\ client[c] \in {"asking", "gone"}
    BY <1>i, <1>m, <1>t DEF WorkOK, MainOK
  <2>3. call[c]["beat"].lease = NoLease /\ m.lease = NoLease
    BY <1>i, <1>m, <1>t, <2>2 DEF WorkOK, LeaseOK, At
  <2>4. Idle(c, "recovery")
    BY <1>i, <2>1 DEF WorkOK, RecoveryHolds, HoldsLease, Idle, At
  <2> QED BY <2>1, <2>2, <2>3, <2>4
<1>g. Grown
  BY <1>c DEF Grown
<1>k. \A e \in Claim : Kept(e)
  BY <1>i, <1>l, TakingKeeps
<1>u. Uses(c)' \subseteq Uses(c) \cup {l}
  BY <1>c, <1>f, <1>r, <1>l, Kinds DEF Uses
<1>1. ASSUME d # c PROVE WorkOK(d)'
  <2>1. \A e \in Claim \ {c} : Untouched(e)
    BY DEF Outcome
  <2>2. \A sha : NotAt(c, sha) => NextNotAt(c, sha)
    BY <1>m, <1>t, <1>c, <1>f, <1>r DEF NotAt, NextNotAt, At
  <2>3. /\ Prepared(row[d].cp.pub) /\ row[d].status = "running" => NextNotAt(c, row[d].cp.pub.to)
        /\ At(d, "main", "move") =>
               /\ call'[c]["main"].at # "move"
               /\ call[d]["main"].new # call[d]["main"].sha => NextNotAt(c, call[d]["main"].new)
    BY <1>i, <1>1, <1>c, <1>f, <2>2 DEF WorkOK, PubOK, Publishing, At
  <2>4. ~Prepared(row'[c].cp.pub)
    BY <1>c, <1>r, NoCpEvidence
  <2>5. Uses(c)' \subseteq Uses(c) \cup {x \in Lease : ~Known(x)}
    BY <1>u, <1>l
  <2>6. OthersMind(d)
    BY <1>i, <1>1, <2>1, <2>3, <2>4, <2>5, Minded
  <2> QED BY <1>i, <1>1, <1>c, <1>g, <1>k, <2>1, <2>6, OthersStay
<1>2. LeaseOK(c)'
  <2>1. \A e \in Claim \ {c} : Uses(c)' \cap Uses(e)' = {}
    BY <1>i, <1>l, <1>u, FreshLease DEF RInv, WorkOK, Outcome
  <2>2. Owned(c, l)'
    BY <1>c, <1>r DEF Owned, HoldsLease
  <2>3. held[c] \notin inForce'
    BY <1>w, NullAssumption DEF IInv, Typed, TypeOK
  <2> QED BY <1>c, <1>f, <1>w, <2>1, <2>2, <2>3 DEF LeaseOK, At, Owned, HoldsLease
<1>3. RecoveryHolds(c)' /\ MainOK(c)'
  BY <1>c, <1>f, <1>w DEF RecoveryHolds, MainOK, Idle, At
<1>4. BeatOK(c)'
  BY <1>i, <1>c, <1>r, <1>w, <1>l DEF WorkOK, BeatOK, HoldsLease, Prepared
<1>5. RowEvidence(c)'
  BY <1>c, <1>r DEF RowEvidence, NoCp, Evidence
<1>6. ASSUME NEW k \in Kind PROVE CallsOK(c, k)'
  <2>1. PICK x : x = call'[c][k]
    OBVIOUS
  <2>2. x.at \notin {"verify", "put"} /\ (x.at = "idle" \/ Evidence(x.cp, x.sha))
    BY <1>i, <1>m, <1>t, <1>c, <1>f, <1>w, <2>1
       DEF Kind, WorkOK, CallsOK, CallEvidence, BeatOK, Idle, At
  <2> QED BY <1>i, <1>g, <2>1, <2>2, NotWriting
<1>7. Declaring(c)' /\ PubOK(c)' /\ Publishing(c)' /\ Undisturbed(c)'
  BY <1>c, <1>f, <1>r, <1>w, NoCpEvidence
     DEF Declaring, PubOK, Publishing, Undisturbed, Entitled, Executing, Prepared
<1>8. WorkOK(c)'
  BY <1>2, <1>3, <1>4, <1>5, <1>6, <1>7 DEF WorkOK
<1> QED BY <1>1, <1>8

\* The acquisition that nothing has overtaken gives the worker its lease.
LEMMA AcquiredWork ==
    ASSUME RInv, IInv', NEW c \in Claim, Outcome(c), At(c, "main", "recheck"),
           held' = [held EXCEPT ![c] = call[c]["main"].lease],
           client' = [client EXCEPT ![c] = IF @ = "asking" THEN "acquired" ELSE @],
           UNCHANGED <<own, row, pull, evidence>>, Ends(c, "main"), NEW d \in Claim
    PROVE  WorkOK(d)'
<1>i. IInv /\ WorkOK(c) /\ Typed /\ TypeOK
  BY DEF RInv, IInv, Typed
<1>m. PICK m : m = call[c]["main"]
  OBVIOUS
<1>n. Handles(c, "main", NoCall)
  BY <1>i, Kinds, Ended
<1>z. NoCall.at = "idle" /\ NoCall.op = "none" /\ NoCall.lease = NoLease
  BY DEF NoCall, Request
<1>c. /\ call'[c]["main"] = NoCall /\ call'[c]["beat"] = call[c]["beat"]
      /\ call'[c]["recovery"] = call[c]["recovery"] /\ row'[c] = row[c] /\ Bound(c)
      /\ held'[c] = m.lease /\ client'[c] \in {"acquired", "gone"}
      /\ UNCHANGED <<owner, inForce, ended, head, route, made, phase, ci, result, row>>
  <2>1. client[c] \in {"asking", "gone"}
    BY <1>i DEF WorkOK, MainOK, At
  <2> QED BY <1>i, <1>m, <1>n, <2>1, Kinds DEF Handles, TypeOK, pull, evidence, own, Bound
<1>w. /\ held[c] = NoLease /\ call[c]["beat"].lease = NoLease
      /\ m.lease \in inForce => Owned(c, m.lease)
  BY <1>i, <1>m DEF WorkOK, LeaseOK, At
<1>g. Grown
  BY <1>c DEF Grown
<1>k. \A e \in Claim : Kept(e)
  BY <1>i, TakingKeeps
<1>u. Uses(c)' \subseteq Uses(c)
  BY <1>m, <1>c, <1>z, Kinds DEF Uses
<1>s. Spares(c) /\ Modest(c) /\ UNCHANGED <<head, route, result>>
  <2>1. \A e \in Claim \ {c} : Untouched(e)
    BY DEF Outcome
  <2>2. Modest(c)
    BY <1>c, <1>z, <1>u DEF Modest, NotAt, NextNotAt, At
  <2> QED BY <1>g, <1>k, <1>c, <2>1, <2>2 DEF Spares
<1>2. LeaseOK(c)'
  <2>1. \A e \in Claim \ {c} : Uses(c)' \cap Uses(e)' = {}
    <3>1. \A e \in Claim \ {c} : Uses(e)' = Uses(e)
      BY DEF Outcome, Untouched, Uses
    <3> QED BY <1>i, <1>u, <3>1 DEF WorkOK, LeaseOK
  <2>2. held'[c] \in inForce' => Owned(c, held[c])'
    BY <1>c, <1>w DEF Owned, HoldsLease
  <2> QED BY <1>c, <1>w, <1>z, <2>1, <2>2 DEF LeaseOK, At, Owned, HoldsLease
<1>3. RecoveryHolds(c)'
  BY <1>i, <1>c, <1>k, RecoveryStays DEF WorkOK
<1>4. MainOK(c)'
  BY <1>c, <1>z DEF MainOK
<1>5. BeatOK(c)' /\ RowEvidence(c)'
  BY <1>i, <1>c, <1>g, <1>k, BeatStays, RowEvidenceStays DEF WorkOK
<1>6. ASSUME NEW k \in Kind PROVE CallsOK(c, k)'
  <2>1. CASE k = "main"
    BY <1>i, <1>c, <1>g, <1>z, <2>1, Kinds, NotWriting
  <2>2. CASE k # "main"
    <3>1. call'[c][k] = call[c][k] /\ CallsOK(c, k)
      BY <1>i, <1>c, <2>2 DEF WorkOK, Kind
    <3> QED BY <1>i, <1>c, <1>g, <1>k, <3>1, CallStays
  <2> QED BY <2>1, <2>2
<1>7. Declaring(c)' /\ Publishing(c)' /\ Undisturbed(c)'
  BY <1>c, <1>z DEF Declaring, Publishing, Undisturbed, Entitled, Executing
<1>8. PubOK(c)'
  <2>1. ~Prepared(row[c].cp.pub)
    <3>1. m.op = "acquire"
      BY <1>i, <1>m DEF WorkOK, MainOK, At
    <3> QED BY <1>i, <1>m, <3>1 DEF IInv, ClaimOK, RowOK
  <2> QED BY <1>c, <2>1 DEF PubOK, Prepared
<1>9. WorkOK(c)'
  BY <1>2, <1>3, <1>4, <1>5, <1>6, <1>7, <1>8 DEF WorkOK
<1> QED BY <1>s, <1>9, Together

LEMMA AcquireRecheckWork ==
    ASSUME RInv, IInv', NEW c \in Claim, Outcome(c), AcquireRecheck(c), NEW d \in Claim
    PROVE  WorkOK(d)'
<1>1. CASE Sees(call[c]["main"].sha, {"todo"})
  BY <1>1, AcquiredWork DEF AcquireRecheck
<1>2. CASE ~Sees(call[c]["main"].sha, {"todo"})
  BY <1>2, RevokedWork DEF AcquireRecheck
<1> QED BY <1>1, <1>2

\* The reconciler takes a claim whose lease has ended, and which nobody holds.
LEMMA ReclaimWork ==
    ASSUME RInv, IInv', NEW c \in Claim, Outcome(c), NEW l \in Lease, Reclaim(c, l),
           NEW d \in Claim
    PROVE  WorkOK(d)'
<1>i. IInv /\ WorkOK(c) /\ Typed /\ TypeOK
  BY DEF RInv, IInv, Typed
<1>l. ~Known(l) /\ l # NoLease /\ Own!Issue(l)
  BY <1>i, Fresh DEF Reclaim
<1>n. PICK n : n = Request("recovery", "claim", l, row[c].sha, row[c].cp)
  OBVIOUS
<1>f. /\ Handles(c, "recovery", n) /\ n \in Calls /\ n.op = "recovery" /\ n.at = "claim"
      /\ n.lease = l /\ n.sha = row[c].sha /\ n.cp = row[c].cp
  <2>1. /\ TypeOK /\ l \in Lease \cup {NoLease} /\ "recovery" \in Kind
        /\ "recovery" \in {"start", "heartbeat", "confirm", "advance", "recovery"}
        /\ "claim" \in {"plan", "refresh", "check", "claim"}
        /\ Begins(c, "recovery", "recovery", "claim", l)
    BY <1>i, Kinds DEF Reclaim
  <2> QED BY <1>n, <2>1, Began
<1>c. /\ call'[c]["recovery"] = n /\ call'[c]["main"] = call[c]["main"]
      /\ call'[c]["beat"] = call[c]["beat"]
      /\ row'[c].lease = l /\ row'[c].sha = row[c].sha /\ row'[c].cp = row[c].cp
      /\ row'[c].status = "running" /\ l \in inForce'
      /\ UNCHANGED <<head, route, made, phase, ci, result, client, held>>
  BY <1>i, <1>f, <1>l, Kinds
     DEF Handles, Reclaim, TypeOK, Rows, pull, evidence, worker, Own!Issue
<1>h. \A x : ~HoldsLease(c, x)
  BY DEF RInv, Reclaim, HoldsLease
<1>x. /\ held[c] \notin inForce' /\ held[c] # l /\ call[c]["main"].lease # l
      /\ call[c]["beat"].lease # l
      /\ At(c, "main", "recheck") => call[c]["main"].lease \notin inForce'
  <2>1. Known(held[c]) /\ Known(call[c]["main"].lease) /\ Known(call[c]["beat"].lease)
    BY <1>i, Kinds DEF IInv, ClaimOK, RowOK, CallOK
  <2>2. held[c] \notin inForce
    BY <1>i, <1>h DEF WorkOK, LeaseOK, Owned
  <2>3. At(c, "main", "recheck") => call[c]["main"].lease \notin inForce
    BY <1>i, <1>h DEF WorkOK, LeaseOK, Owned
  <2>4. inForce' = inForce \cup {l}
    BY <1>l DEF Own!Issue
  <2> QED BY <1>l, <2>1, <2>2, <2>3, <2>4
<1>y. /\ \A k \in Kind \ {"recovery"} : ~At(c, k, "put")
      /\ client[c] # "declared"
      /\ call[c]["main"].at \notin {"commit", "move"} /\ call[c]["main"].op # "reports"
  BY <1>i, <1>h DEF WorkOK, CallsOK, Landing, Declaring, Publishing, MainOK, Owned, Kind, At
<1>v. \A x : HoldsLease(c, x)' <=> x = l
  BY <1>c DEF HoldsLease
<1>g. Grown
  BY <1>c DEF Grown
<1>k. \A e \in Claim : Kept(e)
  BY <1>i, <1>l, TakingKeeps
<1>u. Uses(c)' \subseteq Uses(c) \cup {l}
  BY <1>c, <1>f DEF Uses
<1>o. \A e \in Claim \ {c} : Untouched(e)
  BY DEF Outcome
<1>s. Spares(c) /\ Modest(c) /\ UNCHANGED <<head, route, result>>
  <2>1. Modest(c)
    BY <1>c, <1>u, <1>l DEF Modest, NotAt, NextNotAt, At
  <2> QED BY <1>g, <1>k, <1>c, <1>o, <2>1 DEF Spares
<1>2. LeaseOK(c)'
  <2>1. \A e \in Claim \ {c} : Uses(c)' \cap Uses(e)' = {}
    BY <1>i, <1>l, <1>u, <1>o, FreshLease DEF RInv, WorkOK
  <2> QED BY <1>i, <1>c, <1>x, <2>1 DEF WorkOK, LeaseOK, At
<1>3. RecoveryHolds(c)'
  BY <1>c, <1>f, <1>v DEF RecoveryHolds, HoldsLease
<1>4. MainOK(c)'
  <2>1. ~HoldsLease(c, call[c]["main"].lease)'
    <3>1. PICK x : x = call[c]["main"].lease
      OBVIOUS
    <3>2. ~HoldsLease(c, x)'
      BY <1>v, <1>x, <3>1
    <3> QED BY <1>c, <3>1, <3>2 DEF HoldsLease
  <2> QED BY <1>i, <1>c, <2>1 DEF WorkOK, MainOK
<1>5. BeatOK(c)'
  <2>1. ~HoldsLease(c, call[c]["beat"].lease)'
    <3>1. PICK x : x = call[c]["beat"].lease
      OBVIOUS
    <3>2. ~HoldsLease(c, x)'
      BY <1>v, <1>x, <3>1
    <3> QED BY <1>c, <3>1, <3>2 DEF HoldsLease
  <2> QED BY <1>i, <1>c, <2>1 DEF WorkOK, BeatOK, Prepared
<1>6. RowEvidence(c)'
  BY <1>i, <1>c DEF WorkOK, RowEvidence, Evidence, Verified, QAHeadChanged
<1>7. ASSUME NEW k \in Kind PROVE CallsOK(c, k)'
  <2>1. CASE k = "recovery"
    BY <1>i, <1>c, <1>f, <1>g, <2>1, Kinds, NotWriting DEF WorkOK, RowEvidence
  <2>2. CASE k # "recovery"
    <3>1. CallsOK(c, k) /\ call'[c][k] = call[c][k]
      BY <1>i, <1>c, <2>2 DEF WorkOK, Kind
    <3>2. CallEvidence(c, k)' /\ WriteOK(c, k)'
      BY <1>i, <1>c, <1>g, <3>1, CallEvidenceStays, WriteStays DEF CallsOK
    <3> QED BY <1>y, <2>2, <3>1, <3>2 DEF CallsOK, Landing, At
  <2> QED BY <2>1, <2>2
<1>8. Declaring(c)' /\ Publishing(c)' /\ Undisturbed(c)'
  BY <1>c, <1>x, <1>y DEF Declaring, Publishing, Undisturbed, Entitled
<1>9. PubOK(c)'
  <2>1. \A e \in Claim \ {c} : \A sha : NotAt(e, sha) => NextNotAt(e, sha)
    BY <1>o DEF Untouched, NotAt, NextNotAt, At
  <2>2. row[c].status = "running"
    BY DEF Reclaim
  <2> QED BY <1>i, <1>c, <1>o, <2>1, <2>2
          DEF WorkOK, PubOK, Untouched, NotAt, NextNotAt, At, Prepared
<1>10. WorkOK(c)'
  BY <1>2, <1>3, <1>4, <1>5, <1>6, <1>7, <1>8, <1>9 DEF WorkOK
<1> QED BY <1>s, <1>10, Together

-----------------------------------------------------------------------------
(* The whole service *)

\* HEAD moves only while the pull request is RUNNING, and the labels only by a write.
Projects == \/ UNCHANGED <<head, route>>
            \/ route = "running" /\ route' = "running"
            \/ \E c \in Claim, kind \in Kind : Put(c, kind)

LEMMA WorkProjects ==
    ASSUME RInv, NEW c \in Claim, Work(c)
    PROVE  Grown /\ Projects
<1> USE DEF pull, evidence, Grown, Projects
<1>i. Typed /\ TypeOK /\ WorkOK(c)
  BY DEF RInv, IInv, Typed
<1>1. CASE AcquireRead(c) \/ StartBegin(c) \/ HeartbeatBegin(c) \/ ConfirmBegin(c)
  BY <1>1 DEF AcquireRead, StartBegin, HeartbeatBegin, ConfirmBegin
<1>2. ASSUME NEW to \in Sha, PrepareHead(c, to) PROVE Grown /\ Projects
  BY <1>2 DEF PrepareHead
<1>3. CASE Push(c)
  BY <1>i, <1>3 DEF Push, WorkOK, Declaring
<1>4. CASE ReportsBegin(c) \/ AdvanceBegin(c) \/ Release(c) \/ WorkerStops(c)
  BY <1>4 DEF ReportsBegin, AdvanceBegin, Release, WorkerStops
<1>5. ASSUME NEW r \in {"passed", "failed"}, PostResult(c, r) PROVE Grown /\ Projects
  BY <1>i, <1>5 DEF PostResult, TypeOK
<1>6. ASSUME NEW to \in Route, Decide(c, to) PROVE Grown /\ Projects
  BY <1>6 DEF Decide
<1> QED BY <1>1, <1>2, <1>3, <1>4, <1>5, <1>6 DEF Work

LEMMA HandlerProjects ==
    ASSUME RInv, NEW c \in Claim, NEW kind \in Kind, Step(c, kind) \/ Abort(c, kind)
    PROVE  Grown /\ Projects
<1> USE DEF pull, evidence, Grown, Projects
<1>i. Typed /\ TypeOK /\ WorkOK(c)
  BY DEF RInv, IInv, Typed
<1>1. CASE WriteVerify(c, kind) \/ RefreshHead(c, kind) \/ Abort(c, kind)
  BY <1>1 DEF WriteVerify, RefreshHead, Abort
<1>2. CASE Put(c, kind)
  BY <1>2 DEF Put
<1>3. ASSUME NEW l \in Lease, AcquireClaim(c, l) PROVE Grown /\ Projects
  BY <1>3 DEF AcquireClaim
<1>4. CASE AcquireRecheck(c) \/ StartPlan(c) \/ StartDone(c) \/ ConfirmDone(c)
  BY <1>4 DEF AcquireRecheck, StartPlan, StartDone, ConfirmDone
<1>5. ASSUME NEW to \in Sha, ReportsCommit(c, to) PROVE Grown /\ Projects
  BY <1>i, <1>5 DEF ReportsCommit, WorkOK, Publishing, At
<1>6. CASE ReportsMove(c) \/ AdvancePlan(c) \/ AdvanceDone(c) \/ DecisionDone(c)
  BY <1>6 DEF ReportsMove, AdvancePlan, AdvanceDone, DecisionDone
<1>7. CASE HeartbeatCheck(c)
  BY <1>7 DEF HeartbeatCheck
<1>8. CASE RecoverClaim(c) \/ RecoverBoard(c) \/ RecoverMismatch(c)
  BY <1>8 DEF RecoverClaim, RecoverBoard, RecoverMismatch
<1>9. CASE RecoverForeign(c) \/ RecoverPlan(c) \/ RecoverDone(c)
  BY <1>9 DEF RecoverForeign, RecoverPlan, RecoverDone
<1> QED BY <1>1, <1>2, <1>3, <1>4, <1>5, <1>6, <1>7, <1>8, <1>9 DEF Step

LEMMA NextProjects == Favourable /\ RInv /\ [Next]_vars => Grown /\ Projects
<1> SUFFICES ASSUME Favourable, RInv, [Next]_vars PROVE Grown /\ Projects
  OBVIOUS
<1>1. ASSUME NEW c \in Claim, Work(c) PROVE Grown /\ Projects
  BY <1>1, WorkProjects
<1>2. ASSUME NEW c \in Claim, NEW kind \in Kind, Step(c, kind) \/ Abort(c, kind)
      PROVE  Grown /\ Projects
  BY <1>2, HandlerProjects
<1>3. ASSUME NEW c \in Claim, NEW l \in Lease, Reclaim(c, l) PROVE Grown /\ Projects
  BY <1>3 DEF Reclaim, pull, evidence, Grown, Projects
<1>4. ASSUME NEW l \in Lease, Expire(l) PROVE Grown /\ Projects
  BY <1>4 DEF Expire, pull, evidence, Grown, Projects
<1>5. CASE CIPasses \/ UNCHANGED vars
  BY <1>5 DEF CIPasses, vars, pull, evidence, Grown, Projects
<1>6. ASSUME NEW to \in Sha, OwnerPush(to) PROVE FALSE
  BY <1>6 DEF Favourable, OwnerPush
<1> QED BY <1>1, <1>2, <1>3, <1>4, <1>5, <1>6 DEF Next

\* A write finds the pull request where its handler last saw it, in the phase.
LEMMA PutFinds ==
    ASSUME RInv, NEW c \in Claim, NEW kind \in Kind, Put(c, kind)
    PROVE  LET m == call[c][kind] IN
           /\ route \in {"todo", "running"} /\ route' = m.to
           /\ UNCHANGED <<head, own, row, evidence>>
           /\ m.to = "next" => Verified(head)
           /\ m.to = "review-again" => head \in ci
           /\ m.to = "todo" => result[head] = "none" \/ row[c].cp.dec
<1> DEFINE m == call[c][kind]
<1>1. m.at = "put" /\ route' = m.to /\ UNCHANGED <<head, own, row, evidence>>
  BY DEF Put, At
<1>2. WriteOK(c, kind) /\ Landing(c, kind) /\ MainOK(c) /\ RecoveryHolds(c)
  BY DEF RInv, WorkOK, CallsOK
<1>3. /\ m.sha = head /\ route = m.seen /\ HoldsLease(c, m.lease)
      /\ m.seen \in {"todo", "running"}
  BY <1>1, <1>2 DEF Landing, WriteOK, Owned
<1>4. m.to = "todo" => m.op = "decision" \/ result[head] = "none"
  BY <1>1, <1>2, <1>3 DEF WriteOK
<1>5. m.op = "decision" => row[c].cp.dec
  <2>1. m.op = "decision" => kind = "main" /\ m.cp.dec
    BY <1>1, <1>2 DEF WriteOK, RecoveryHolds, Kind
  <2> QED BY <1>2, <1>3, <2>1 DEF MainOK
<1> QED BY <1>1, <1>2, <1>3, <1>4, <1>5 DEF WriteOK, Verified

LEMMA EvidenceNext == Favourable /\ RInv /\ [Next]_vars => AdvancedOnEvidence'
<1> SUFFICES ASSUME Favourable, RInv, [Next]_vars PROVE AdvancedOnEvidence'
  OBVIOUS
<1>1. Grown /\ Projects /\ Typed /\ AdvancedOnEvidence
  BY NextProjects DEF RInv, IInv
<1>2. CASE UNCHANGED <<head, route>>
  <2>1. PICK sha : sha = head
    OBVIOUS
  <2>2. Verified(sha) => Verified(sha)'
    BY <1>1, VerifiedStays
  <2> QED BY <1>1, <1>2, <2>1, <2>2 DEF AdvancedOnEvidence, Verified, Grown
<1>3. CASE route' = "running"
  BY <1>3 DEF AdvancedOnEvidence
<1>4. ASSUME NEW c \in Claim, NEW kind \in Kind, Put(c, kind) PROVE AdvancedOnEvidence'
  BY <1>4, PutFinds DEF AdvancedOnEvidence, Verified, evidence
<1> QED BY <1>1, <1>2, <1>3, <1>4 DEF Projects

\* A lease that ended stays ended.
LEMMA EndedStays ==
    ASSUME Typed, [Own!Next]_own, inForce \cap ended = {}
    PROVE  inForce' \cap ended' = {}
<1>1. ASSUME NEW l \in Lease, Own!Issue(l) PROVE inForce' \cap ended' = {}
  BY <1>1 DEF Own!Issue
<1>2. ASSUME NEW k \in Sha \cup {Projection}, NEW l \in Lease, Own!Take(k, l)
      PROVE  inForce' \cap ended' = {}
  BY <1>2 DEF Own!Take
<1>3. ASSUME NEW L \in SUBSET Lease, Own!End(L) PROVE inForce' \cap ended' = {}
  BY <1>3 DEF Own!End
<1>4. CASE UNCHANGED own
  BY <1>4 DEF own
<1> QED BY <1>1, <1>2, <1>3, <1>4 DEF Own!Next

LEMMA WorkerWork ==
    ASSUME Favourable, RInv, IInv', NEW c \in Claim, Outcome(c), Work(c), NEW d \in Claim
    PROVE  WorkOK(d)'
<1>1. CASE AcquireRead(c)
  BY <1>1, AcquireReadWork
<1>2. CASE StartBegin(c)
  BY <1>2, StartBeginWork
<1>3. CASE HeartbeatBegin(c)
  BY <1>3, HeartbeatBeginWork
<1>4. ASSUME NEW to \in Sha, PrepareHead(c, to) PROVE WorkOK(d)'
  BY <1>4, PrepareHeadWork
<1>5. CASE Push(c)
  BY <1>5, PushWork
<1>6. CASE ConfirmBegin(c)
  BY <1>6, ConfirmBeginWork
<1>7. CASE ReportsBegin(c)
  BY <1>7, ReportsBeginWork
<1>8. ASSUME NEW r \in {"passed", "failed"}, PostResult(c, r) PROVE WorkOK(d)'
  BY <1>8, PostResultWork
<1>9. CASE AdvanceBegin(c)
  BY <1>9, AdvanceBeginWork
<1>10. ASSUME NEW to \in Route, Decide(c, to) PROVE WorkOK(d)'
  BY <1>10, DecideWork
<1>11. CASE Release(c)
  BY <1>11, ReleaseWork
<1>12. CASE WorkerStops(c)
  BY <1>12, WorkerStopsWork
<1> QED BY <1>1, <1>2, <1>3, <1>4, <1>5, <1>6, <1>7, <1>8, <1>9, <1>10, <1>11, <1>12 DEF Work

LEMMA HandlerWork ==
    ASSUME Favourable, RInv, IInv', NEW c \in Claim, NEW kind \in Kind, Outcome(c),
           Step(c, kind) \/ Abort(c, kind), NEW d \in Claim
    PROVE  WorkOK(d)'
<1>1. CASE WriteVerify(c, kind)
  BY <1>1, WriteVerifyWork
<1>2. CASE Put(c, kind)
  BY <1>2, PutWork
<1>3. CASE RefreshHead(c, kind)
  BY <1>3, RefreshHeadWork
<1>4. ASSUME NEW l \in Lease, AcquireClaim(c, l) PROVE WorkOK(d)'
  BY <1>4, AcquireClaimWork
<1>5. CASE AcquireRecheck(c)
  BY <1>5, AcquireRecheckWork
<1>6. CASE StartPlan(c)
  BY <1>6, StartPlanWork
<1>7. CASE StartDone(c)
  BY <1>7, StartDoneWork
<1>8. CASE ConfirmDone(c)
  BY <1>8, ConfirmDoneWork
<1>9. ASSUME NEW to \in Sha, ReportsCommit(c, to) PROVE WorkOK(d)'
  BY <1>9, ReportsCommitWork
<1>10. CASE ReportsMove(c)
  <2>1. CASE call[c]["main"].new = call[c]["main"].sha
    BY <1>10, <2>1, ReportsKeptWork
  <2>2. CASE call[c]["main"].new # call[c]["main"].sha
    BY <1>10, <2>2, ReportsMovedWork
  <2> QED BY <2>1, <2>2
<1>11. CASE AdvancePlan(c)
  BY <1>11, AdvancePlanWork
<1>12. CASE AdvanceDone(c) \/ DecisionDone(c)
  BY <1>12, DoneWork
<1>13. CASE HeartbeatCheck(c)
  BY <1>13, HeartbeatCheckWork
<1>14. CASE RecoverClaim(c)
  <2>1. CASE Refused(call[c]["recovery"].sha, call[c]["recovery"].lease)
    BY <1>14, <2>1, RecoverEndsWork
  <2>2. CASE ~Refused(call[c]["recovery"].sha, call[c]["recovery"].lease)
    BY <1>14, <2>2, RecoverBoardWork
  <2> QED BY <2>1, <2>2
<1>15. CASE RecoverBoard(c)
  BY <1>15, RecoverBoardWork
<1>16. CASE RecoverMismatch(c) \/ RecoverForeign(c) \/ RecoverDone(c)
  BY <1>16, RecoverEndsWork
<1>17. CASE RecoverPlan(c)
  BY <1>17, RecoverPlanWork
<1>18. CASE Abort(c, kind)
  BY <1>18, AbortWork
<1> QED BY <1>1, <1>2, <1>3, <1>4, <1>5, <1>6, <1>7, <1>8, <1>9, <1>10, <1>11, <1>12, <1>13,
           <1>14, <1>15, <1>16, <1>17, <1>18 DEF Step

LEMMA InitRoute == Init => RInv
<1> SUFFICES ASSUME Init PROVE RInv
  OBVIOUS
<1> USE NullAssumption DEF Init
<1>1. /\ \A c \in Claim : row[c] = NoRow /\ client[c] = "new" /\ held[c] = NoLease
      /\ \A c \in Claim, kind \in Kind : call[c][kind] = NoCall
  OBVIOUS
<1>2. /\ NoRow.lease = NoLease /\ NoRow.status = "absent" /\ NoRow.sha = NoSha /\ NoRow.cp = NoCp
      /\ ~Prepared(NoCp.pub) /\ NoCall.at = "idle" /\ NoCall.lease = NoLease
      /\ NoCall.op = "none"
  BY DEF NoRow, NoCp, NoPub, Prepared, NoCall, Request
<1>3. IInv /\ Base \in made /\ inForce \cap ended = {} /\ AdvancedOnEvidence
  BY InitInv DEF Own!Init, AdvancedOnEvidence
<1>4. ASSUME NEW c \in Claim PROVE WorkOK(c)
  <2>1. LeaseOK(c)
    <3>1. \A d \in Claim : Uses(d) = {}
      BY <1>1, <1>2, Kinds DEF Uses
    <3>2. inForce = {}
      BY DEF Own!Init
    <3> QED BY <1>1, <1>2, <3>1, <3>2, Kinds DEF LeaseOK, At
  <2>2. RecoveryHolds(c) /\ MainOK(c) /\ BeatOK(c)
    BY <1>1, <1>2, Kinds DEF RecoveryHolds, MainOK, BeatOK
  <2>3. RowEvidence(c)
    BY <1>1, <1>2 DEF RowEvidence, Evidence, NoCp
  <2>4. \A kind \in Kind : CallsOK(c, kind)
    BY <1>1, <1>2 DEF CallsOK, CallEvidence, WriteOK, Landing, Idle, At
  <2>5. Declaring(c) /\ PubOK(c) /\ Publishing(c) /\ Undisturbed(c)
    BY <1>1, <1>2, Kinds
       DEF Declaring, PubOK, Publishing, Undisturbed, Entitled, Executing
  <2> QED BY <2>1, <2>2, <2>3, <2>4, <2>5 DEF WorkOK
<1> QED BY <1>3, <1>4 DEF RInv

LEMMA NextRoute == Favourable /\ RInv /\ [Next]_vars => RInv'
<1> SUFFICES ASSUME Favourable, RInv, [Next]_vars PROVE RInv'
  OBVIOUS
<1>1. IInv /\ Typed /\ \A c \in Claim : ClaimOK(c)
  BY DEF RInv, IInv
<1>2. IInv' /\ AdvancedOnEvidence' /\ [Own!Next]_own
  BY <1>1, NextInv, EvidenceNext, OwnStep
<1>3. Base \in made' /\ inForce' \cap ended' = {}
  BY <1>1, <1>2, NextProjects, EndedStays DEF RInv, Grown
<1>4. LeasesGrow
  BY <1>1, <1>2, LeasesStep
<1>5. ASSUME NEW d \in Claim PROVE WorkOK(d)'
  <2>1. ASSUME NEW c \in Claim, Work(c) PROVE WorkOK(d)'
    <3>1. Outcome(c)
      BY <1>1, <1>4, <2>1, WorkOutcome
    <3> QED BY <1>2, <2>1, <3>1, WorkerWork
  <2>2. ASSUME NEW c \in Claim, NEW kind \in Kind, Step(c, kind) \/ Abort(c, kind)
        PROVE  WorkOK(d)'
    <3>1. Outcome(c)
      BY <1>1, <1>4, <2>2, HandlerOutcome
    <3> QED BY <1>2, <2>2, <3>1, HandlerWork
  <2>3. ASSUME NEW c \in Claim, NEW l \in Lease, Reclaim(c, l) PROVE WorkOK(d)'
    <3>1. Outcome(c)
      BY <1>1, <1>4, <2>3, ReclaimOutcome
    <3> QED BY <1>2, <2>3, <3>1, ReclaimWork
  <2>4. ASSUME NEW l \in Lease, Expire(l) PROVE WorkOK(d)'
    BY <1>2, <2>4, ExpireWork
  <2>5. CASE CIPasses \/ UNCHANGED vars
    BY <1>2, <2>5, CIPassesWork
  <2>6. ASSUME NEW to \in Sha, OwnerPush(to) PROVE FALSE
    BY <2>6 DEF Favourable, OwnerPush
  <2> QED BY <2>1, <2>2, <2>3, <2>4, <2>5, <2>6 DEF Next
<1> QED BY <1>2, <1>3, <1>5 DEF RInv

\* The pull request leaves the phase forwards only on green CI and a passed record for the
\* very HEAD it has, and goes back to review only on green CI for the report commit, however
\* the handlers of advance, of the reconciler and of heartbeats interleave with publications.
THEOREM EvidenceAdvances == ASSUME Favourable PROVE Spec => []AdvancedOnEvidence
<1>1. Init => RInv
  BY InitRoute
<1>2. RInv /\ [Next]_vars => RInv'
  BY NextRoute
<1>3. RInv => AdvancedOnEvidence
  BY DEF RInv
<1> QED BY <1>1, <1>2, <1>3, PTL DEF Spec

\* A worker that was told to execute and whose lease is in force finds the pull request
\* RUNNING at the HEAD its claim follows until it asks to advance or to decide: no other
\* claim's start, late write or recovery takes the work from under it.
THEOREM WorkerUndisturbed == ASSUME Favourable PROVE Spec => []UndisturbedWorker
<1>1. Init => RInv
  BY InitRoute
<1>2. RInv /\ [Next]_vars => RInv'
  BY NextRoute
<1>3. RInv => UndisturbedWorker
  BY DEF RInv, WorkOK, Undisturbed, UndisturbedWorker
<1> QED BY <1>1, <1>2, <1>3, PTL DEF Spec

\* Once the pull request has left the phase, no write of the phase that was already on its
\* way, no repeated request and no recovery of a claim left behind changes its route again.
THEOREM EndsOnce == ASSUME Favourable PROVE Spec => PhaseEndsOnce
<1>1. Init => RInv
  BY InitRoute
<1>2. RInv /\ [Next]_vars => RInv'
  BY NextRoute
<1>3. RInv /\ [Next]_vars => [(route \notin {"todo", "running"}) => route' = route]_vars
  <2> SUFFICES ASSUME RInv, [Next]_vars, route \notin {"todo", "running"} PROVE route' = route
    OBVIOUS
  <2> QED BY NextProjects, PutFinds DEF Projects
<1> QED BY <1>1, <1>2, <1>3, PTL DEF Spec, PhaseEndsOnce

\* Work whose result is on record is not sent back from RUNNING to READY, unless its own
\* worker asked for that with a decision: a recovery that found no result when it planned
\* does not write over one published since.
THEOREM CompletedWorkKept == ASSUME Favourable PROVE Spec => CompletedWorkIsKept
<1>1. Init => RInv
  BY InitRoute
<1>2. RInv /\ [Next]_vars => RInv'
  BY NextRoute
<1>3. RInv /\ [Next]_vars
        => [(route = "running" /\ route' = "todo")
              => result[head] = "none" \/ \E c \in Claim : row[c].cp.dec]_vars
  <2> SUFFICES ASSUME RInv, [Next]_vars, route = "running", route' = "todo"
               PROVE  result[head] = "none" \/ \E c \in Claim : row[c].cp.dec
    OBVIOUS
  <2>1. PICK c \in Claim, kind \in Kind : Put(c, kind)
    BY NextProjects DEF Projects
  <2>2. result[head] = "none" \/ row[c].cp.dec
    BY <2>1, PutFinds
  <2> QED BY <2>2
<1> QED BY <1>1, <1>2, <1>3, PTL DEF Spec, CompletedWorkIsKept

-----------------------------------------------------------------------------
(***************************************************************************)
(* 3. RUNNING does not get stuck: a pull request labelled RUNNING always   *)
(* has a claim that the reconciler will visit, and on whose record it will *)
(* act.                                                                    *)
(*                                                                         *)
(* The argument is about keys.  A claim that lost its lease lost its key   *)
(* with it, and a recovery that finds the key with another claim closes    *)
(* its own as superseded.  So the claim that the pull request needs must   *)
(* never be the one that is found out: there is one claim without its key  *)
(* at a time, and while an acquisition may take a key the claim that       *)
(* RUNNING needs has its own.                                              *)
(***************************************************************************)

\* The environment in which that holds.
Attentive == Favourable /\ Attended /\ ~EarlyRelease

-----------------------------------------------------------------------------
(* The invariant *)

Recorded(cp) == cp.start # "none" \/ cp.adv # "none"

\* Whoever declares a commit or publishes reports has started, and only a start writes
\* RUNNING.
AfterStart(cp) == Prepared(cp.pub) \/ cp.starter # NoLease => cp.start # "none"
Grounded(m) ==
    /\ AfterStart(m.cp)
    /\ m.op = "reports" => m.at \in {"commit", "move"} /\ m.cp.start # "none"
    /\ m.at \in {"verify", "put", "done"} /\ m.to = "running"
           => m.op = "start" /\ m.cp.start # "none"

StartOK(c) == /\ AfterStart(row[c].cp)
              /\ row[c].status = "running" => row[c].lease # NoLease
              /\ \A kind \in Kind : Grounded(call[c][kind])

\* A claim that its worker or its acquisition may still give up has recorded nothing.
FreshOK(c) ==
    /\ client[c] = "acquired" =>
           Idle(c, "main") /\ (HoldsLease(c, held[c]) => ~Recorded(row[c].cp))
    /\ At(c, "main", "recheck") /\ HoldsLease(c, call[c]["main"].lease)
           => ~Recorded(row[c].cp)

\* A recovery that takes the pull request for what it is has followed the declared commit.
Checked(m) == m.at = "check" /\ Prepared(m.cp.pub) => head # m.cp.pub.to
CheckOK == \A c \in Claim : Checked(call[c]["recovery"])

OwnersInForce == \A k \in Sha \cup {Projection} : owner[k] \in inForce \cup {NoLease}

\* An unfinished claim that does not own the key of its commit: its lease has run out, or
\* the reconciler has just taken it over.  There is one at a time, since no lease runs out
\* before the reconciler has taken the key or closed the claim.
Loose(c) == row[c].status = "running" /\ owner[row[c].sha] # row[c].lease
LooseOK == /\ \A c \in Claim : Loose(c) => \/ row[c].lease \in ended
                                           \/ At(c, "recovery", "claim")
           /\ \A c, d \in Claim : Loose(c) /\ Loose(d) => c = d

\* A claim that will bring the pull request out of RUNNING, and whose key no other claim
\* has taken, nor can take while an acquisition is under way.
Standing(c) == /\ row[c].status = "running" /\ Recorded(row[c].cp) /\ Follows(c)
               /\ owner[row[c].sha] \in {NoLease, row[c].lease}
               /\ (\E d \in Claim : At(d, "main", "claim")) => owner[row[c].sha] = row[c].lease
StandOK == route = "running" => \E c \in Claim : Standing(c)

RunInv == /\ RInv /\ OwnersInForce
          /\ \A c \in Claim : StartOK(c) /\ FreshOK(c)
          /\ CheckOK /\ LooseOK /\ StandOK

-----------------------------------------------------------------------------
(* Claims that a step leaves alone *)

LEMMA Opened == ASSUME RunInv PROVE RInv /\ IInv /\ Typed /\ TypeOK
BY DEF RunInv, RInv, IInv, Typed

\* The lease that an unfinished claim is held with is in force before it is in force after.
LEMMA HeldBefore ==
    ASSUME IInv, LeasesGrow, NEW c \in Claim, NEW l,
           row'[c].status = "running" =>
               row[c].status = "running" /\ row'[c].lease = row[c].lease,
           HoldsLease(c, l)'
    PROVE  HoldsLease(c, l)
<1>1. Known(row[c].lease) /\ NoLease \notin inForce'
  BY NullAssumption DEF IInv, ClaimOK, RowOK, LeasesGrow
<1> QED BY <1>1 DEF HoldsLease, LeasesGrow, Known

LEMMA BasisStays ==
    ASSUME IInv, LeasesGrow, NEW c \in Claim, StartOK(c), FreshOK(c),
           row'[c].status = "running" =>
               row[c].status = "running" /\ row'[c].lease = row[c].lease,
           AfterStart(row'[c].cp), \A kind \in Kind : Grounded(call'[c][kind]),
           held'[c] = held[c],
           client'[c] = "acquired" =>
               /\ client[c] = "acquired" /\ call'[c]["main"] = call[c]["main"]
               /\ row'[c].cp = row[c].cp \/ ~HoldsLease(c, held[c]),
           call'[c]["main"].at = "recheck" =>
               /\ call'[c]["main"] = call[c]["main"]
               /\ row'[c].cp = row[c].cp \/ ~HoldsLease(c, call[c]["main"].lease)
    PROVE  StartOK(c)' /\ FreshOK(c)'
<1>1. \A l : HoldsLease(c, l)' => HoldsLease(c, l)
  BY HeldBefore
<1>2. StartOK(c)'
  BY DEF StartOK, Grounded, AfterStart, Prepared
<1>3. ASSUME client'[c] = "acquired"
      PROVE  Idle(c, "main")' /\ (HoldsLease(c, held[c])' => ~Recorded(row'[c].cp))
  BY <1>1, <1>3 DEF FreshOK, Idle, At
<1>4. ASSUME At(c, "main", "recheck")', HoldsLease(c, call[c]["main"].lease)'
      PROVE  ~Recorded(row'[c].cp)
  BY <1>1, <1>4 DEF FreshOK, At
<1>5. At(c, "main", "recheck")' => call'[c]["main"].lease = call[c]["main"].lease
  BY DEF At
<1> QED BY <1>2, <1>3, <1>4, <1>5 DEF FreshOK, Recorded, HoldsLease

LEMMA BasisElsewhere ==
    ASSUME IInv, LeasesGrow, NEW c \in Claim, StartOK(c), FreshOK(c), Untouched(c)
    PROVE  StartOK(c)' /\ FreshOK(c)'
BY BasisStays DEF Untouched, StartOK

-----------------------------------------------------------------------------
(* What a step leaves of the keys *)

LEMMA RunningIsBound ==
    ASSUME IInv, NEW c \in Claim
    PROVE  row[c].status = "running" => row[c].sha \in Sha
<1>1. row[c] # NoRow => row[c].sha \in made /\ made \subseteq Sha
  BY DEF IInv, ClaimOK, RowOK, Typed, TypeOK
<1>2. NoRow.status # "running"
  BY DEF NoRow
<1> QED BY <1>1, <1>2

\* No claim comes loose, and one that is loose is on its way as before.
Shrinks ==
    /\ ended \subseteq ended'
    /\ \A d \in Claim : Loose(d)' =>
           /\ Loose(d) /\ row'[d].lease = row[d].lease
           /\ At(d, "recovery", "claim") => call'[d]["recovery"].at = "claim"

LEMMA LooseStays == LooseOK /\ Shrinks => LooseOK'
BY DEF LooseOK, Shrinks, At

\* A step that leaves the keys of commits, the binding and HEAD alone, and keeps what the
\* claim has recorded.
Quiet(c) ==
    /\ \A d \in Claim \ {c} : Untouched(d)
    /\ row'[c].status = row[c].status /\ row'[c].lease = row[c].lease
    /\ row'[c].sha = row[c].sha
    /\ \A k \in Sha : owner'[k] = owner[k]
    /\ ended \subseteq ended' /\ head' = head
    /\ At(c, "recovery", "claim") => call'[c]["recovery"].at = "claim"

LEMMA QuietShrinks == ASSUME IInv, NEW c \in Claim, Quiet(c) PROVE Shrinks
<1>1. ASSUME NEW d \in Claim
      PROVE  /\ row'[d].status = row[d].status /\ row'[d].lease = row[d].lease
             /\ row'[d].sha = row[d].sha
             /\ At(d, "recovery", "claim") => call'[d]["recovery"].at = "claim"
  BY DEF Quiet, Untouched, At
<1>2. ASSUME NEW d \in Claim, Loose(d)' PROVE Loose(d)
  BY <1>1, <1>2, RunningIsBound DEF Loose, Quiet
<1> QED BY <1>1, <1>2 DEF Shrinks, Quiet

\* A claim that stands, stands on after such a step.
LEMMA QuietStands ==
    ASSUME RunInv, NEW c \in Claim, Quiet(c),
           route' = "running" => route = "running",
           call'[c]["main"].at = "claim" => At(c, "main", "claim") \/ route # "running",
           Recorded(row[c].cp) => Recorded(row'[c].cp),
           \/ row[c].sha = head
           \/ /\ row'[c].cp.pub = row[c].cp.pub
              /\ At(c, "main", "move") => call'[c]["main"] = call[c]["main"]
    PROVE  StandOK'
<1>i. IInv
  BY Opened
<1> SUFFICES ASSUME route' = "running" PROVE \E w \in Claim : Standing(w)'
  BY DEF StandOK, Standing
<1>1. PICK w \in Claim : Standing(w)
  BY DEF RunInv, StandOK
<1>2. /\ row'[w].status = row[w].status /\ row'[w].lease = row[w].lease
      /\ row'[w].sha = row[w].sha /\ Recorded(row'[w].cp)
  BY <1>1 DEF Quiet, Untouched, Standing
<1>3. Follows(w)'
  <2>1. CASE w # c
    BY <1>1, <2>1 DEF Quiet, Untouched, Standing, Follows, At
  <2>2. CASE w = c
    BY <1>1, <2>2 DEF Quiet, Standing, Follows, At
  <2> QED BY <2>1, <2>2
<1>4. (\E d \in Claim : At(d, "main", "claim")') => \E d \in Claim : At(d, "main", "claim")
  <2>1. ASSUME NEW d \in Claim, call'[d]["main"].at = "claim" PROVE At(d, "main", "claim")
    BY <2>1 DEF Quiet, Untouched, At
  <2> QED BY <2>1 DEF At
<1>5. owner'[row[w].sha] = owner[row[w].sha]
  BY <1>i, <1>1, RunningIsBound DEF Standing, Quiet
<1>6. /\ row'[w].status = "running" /\ owner'[row'[w].sha] \in {NoLease, row'[w].lease}
      /\ (\E d \in Claim : At(d, "main", "claim")') => owner'[row'[w].sha] = row'[w].lease
  BY <1>1, <1>2, <1>4, <1>5 DEF Standing
<1> QED BY <1>2, <1>3, <1>6 DEF Standing, Recorded, Follows, At

-----------------------------------------------------------------------------
(* A claim that is finished, or takes a key *)

\* A claim that does not stand ends with its keys.
LEMMA ClosedStands ==
    ASSUME RunInv, NEW c \in Claim, NEW kind \in Kind, NEW l, Closes(c, kind, l),
           route = "running" => ~Standing(c)
    PROVE  Shrinks /\ StandOK'
<1>i. IInv /\ LeaseOK(c)
  BY Opened DEF RInv, WorkOK
<1>f. l \in Uses(c) /\ row[c].lease = l
  BY <1>i, CloseFrees
<1>1. /\ \A k \in Sha : owner'[k] = owner[k] \/ (owner[k] = l /\ owner'[k] = NoLease)
      /\ ended \subseteq ended' /\ UNCHANGED <<head, route>>
      /\ \A d \in Claim \ {c} : row'[d] = row[d] /\ call'[d] = call[d]
      /\ row'[c].status # "running"
  BY <1>i DEF Closes, Own!End, Untouched, pull, IInv, Typed, TypeOK
<1>2. ASSUME NEW d \in Claim \ {c}, row[d].status = "running"
      PROVE  row[d].lease # l /\ row[d].sha \in Sha
  <2>1. row[d].lease # NoLease
    BY <1>2 DEF RunInv, StartOK
  <2>2. row[d].lease \in Uses(d)
    BY <2>1 DEF Uses
  <2> QED BY <1>i, <1>f, <1>2, <2>2, RunningIsBound DEF LeaseOK
<1>3. Shrinks
  <2>1. ASSUME NEW d \in Claim, Loose(d)'
        PROVE  /\ Loose(d) /\ row'[d].lease = row[d].lease
               /\ At(d, "recovery", "claim") => call'[d]["recovery"].at = "claim"
    <3>1. d # c /\ row'[d] = row[d] /\ call'[d] = call[d]
      BY <1>1, <2>1 DEF Loose
    <3> QED BY <1>1, <1>2, <2>1, <3>1 DEF Loose, At
  <2> QED BY <1>1, <2>1 DEF Shrinks
<1>4. StandOK'
  <2> SUFFICES ASSUME route' = "running" PROVE \E w \in Claim : Standing(w)'
    BY DEF StandOK, Standing
  <2>1. PICK w \in Claim : Standing(w) /\ w # c
    BY <1>1 DEF RunInv, StandOK
  <2>2. row'[w] = row[w] /\ call'[w] = call[w]
    BY <1>1, <2>1
  <2>3. owner'[row[w].sha] = owner[row[w].sha]
        \/ (owner'[row[w].sha] = NoLease /\ owner[row[w].sha] \notin {NoLease, row[w].lease})
    BY <1>1, <1>2, <2>1, <1>i, NoNull DEF Standing, Closes, HoldsLease, IInv
  <2>4. call'[c]["main"].at = "claim" => At(c, "main", "claim")
    BY Kinds, NoCallIdle DEF Closes, Handles, At
  <2>5. (\E d \in Claim : At(d, "main", "claim")') => \E d \in Claim : At(d, "main", "claim")
    BY <1>1, <2>4 DEF At
  <2>6. owner'[row'[w].sha] = owner[row[w].sha]
    BY <2>1, <2>2, <2>3 DEF Standing
  <2> QED BY <1>1, <2>1, <2>2, <2>5, <2>6 DEF Standing, Recorded, Follows, At
<1> QED BY <1>3, <1>4

\* A lease takes keys that nobody owned: nobody else's.
Takes(l) == /\ l \in Lease
            /\ \A k \in Sha : owner'[k] = owner[k] \/ (owner[k] = NoLease /\ owner'[k] = l)
            /\ ended' = ended

LEMMA TakesShrinks ==
    ASSUME IInv, NEW c \in Claim, NEW l, Takes(l), \A d \in Claim \ {c} : Untouched(d),
           \A d \in Claim : row[d].status = "running" => row[d].lease # NoLease,
           row'[c].status = "running" => owner'[row'[c].sha] = row'[c].lease
    PROVE  Shrinks
<1>1. ASSUME NEW d \in Claim, Loose(d)'
      PROVE  /\ Loose(d) /\ row'[d].lease = row[d].lease
             /\ At(d, "recovery", "claim") => call'[d]["recovery"].at = "claim"
  <2>1. d # c /\ row'[d] = row[d] /\ call'[d] = call[d]
    BY <1>1 DEF Loose, Untouched
  <2>2. row[d].status = "running" /\ row[d].sha \in Sha /\ row[d].lease # NoLease
    BY <1>1, <2>1, RunningIsBound DEF Loose
  <2> QED BY <1>1, <2>1, <2>2 DEF Loose, Takes, At
<1> QED BY <1>1 DEF Shrinks, Takes

LEMMA ObtainsTakes ==
    ASSUME Typed, NEW k \in Sha \cup {Projection}, NEW l \in Lease, Obtains(k, l)
    PROVE  Takes(l)
BY DEF Takes, Obtains, Own!Take, own, Typed, TypeOK

\* A claim that owns the key of HEAD, with a start recorded, stands.
LEMMA OwnerStands ==
    ASSUME NEW c \in Claim, row'[c].status = "running", Recorded(row'[c].cp), Follows(c)',
           owner'[row'[c].sha] = row'[c].lease
    PROVE  StandOK'
<1>1. Standing(c)'
  BY DEF Standing, Recorded
<1> QED BY <1>1 DEF StandOK

-----------------------------------------------------------------------------
(* The steps of requests and heartbeats that only read and record *)

\* What all of them leave of the invariant, but for what is recorded.
RunOK(c) == StartOK(c)' /\ FreshOK(c)' /\ CheckOK' /\ Shrinks /\ StandOK'

LEMMA ChecksStay ==
    ASSUME RunInv, NEW c \in Claim, \A d \in Claim \ {c} : Untouched(d), head' = head,
           call'[c]["recovery"] = call[c]["recovery"] \/ Checked(call'[c]["recovery"])
    PROVE  CheckOK'
<1>1. ASSUME NEW d \in Claim PROVE Checked(call'[d]["recovery"])
  BY <1>1 DEF RunInv, CheckOK, Untouched
<1> QED BY <1>1 DEF CheckOK, Checked

\* A handler that goes on, or ends, and perhaps saves a checkpoint.
Carries(c, kind, n) ==
    /\ Handles(c, kind, n) /\ \A d \in Claim \ {c} : Untouched(d)
    /\ Bound(c) /\ held'[c] = held[c] /\ head' = head
    /\ \A k \in Sha : owner'[k] = owner[k]
    /\ ended \subseteq ended'
    /\ route' = "running" => route = "running"
    /\ Grounded(n) /\ AfterStart(row'[c].cp)
    /\ client'[c] = "acquired" => client[c] = "acquired" /\ kind # "main"
    /\ kind = "main" => n.at # "recheck" /\ (n.at = "claim" => route # "running")
    /\ kind = "recovery" => ~At(c, "recovery", "claim") /\ Checked(n)

LEMMA CarriesOn ==
    ASSUME RunInv, LeasesGrow, NEW c \in Claim, NEW kind \in Kind, NEW n, Carries(c, kind, n),
           Recorded(row[c].cp) => Recorded(row'[c].cp),
           \/ row'[c].cp = row[c].cp
           \/ kind = "main"
           \/ ~HoldsLease(c, held[c]) /\ ~HoldsLease(c, call[c]["main"].lease),
           \/ row[c].sha = head
           \/ row'[c].cp.pub = row[c].cp.pub /\ (kind = "main" => ~At(c, "main", "move"))
    PROVE  RunOK(c)
<1>i. IInv /\ StartOK(c) /\ FreshOK(c)
  BY Opened DEF RunInv
<1>c. /\ call'[c][kind] = n /\ \A k \in Kind \ {kind} : call'[c][k] = call[c][k]
      /\ row'[c].status = row[c].status /\ row'[c].lease = row[c].lease
      /\ row'[c].sha = row[c].sha
  BY DEF Carries, Handles, Bound
<1>m. kind # "main" => call'[c]["main"] = call[c]["main"]
  BY <1>c, Kinds
<1>1. \A k \in Kind : Grounded(call'[c][k])
  BY <1>i, <1>c DEF Carries, StartOK
<1>2. StartOK(c)' /\ FreshOK(c)'
  <2>1. client'[c] = "acquired" =>
            /\ client[c] = "acquired" /\ call'[c]["main"] = call[c]["main"]
            /\ row'[c].cp = row[c].cp \/ ~HoldsLease(c, held[c])
    BY <1>m DEF Carries
  <2>2. call'[c]["main"].at = "recheck" =>
            /\ call'[c]["main"] = call[c]["main"]
            /\ row'[c].cp = row[c].cp \/ ~HoldsLease(c, call[c]["main"].lease)
    BY <1>c, <1>m DEF Carries
  <2> QED BY <1>i, <1>c, <1>1, <2>1, <2>2, BasisStays DEF Carries
<1>3. Quiet(c)
  <2>1. At(c, "recovery", "claim") => call'[c]["recovery"].at = "claim"
    BY <1>c, Kinds DEF Carries, At
  <2> QED BY <1>c, <2>1 DEF Quiet, Carries
<1>4. StandOK'
  <2>1. call'[c]["main"].at = "claim" => At(c, "main", "claim") \/ route # "running"
    BY <1>c, <1>m DEF Carries, At
  <2>2. \/ row[c].sha = head
        \/ /\ row'[c].cp.pub = row[c].cp.pub
           /\ At(c, "main", "move") => call'[c]["main"] = call[c]["main"]
    BY <1>m
  <2>3. route' = "running" => route = "running"
    BY DEF Carries
  <2> QED BY <1>3, <2>1, <2>2, <2>3, QuietStands
<1>5. CheckOK'
  BY <1>c, Kinds, ChecksStay DEF Carries
<1> QED BY <1>i, <1>2, <1>3, <1>4, <1>5, QuietShrinks DEF RunOK

\* ... and saves nothing.
LEMMA GoesOnRunning ==
    ASSUME RunInv, LeasesGrow, NEW c \in Claim, NEW kind \in Kind, NEW n,
           Handles(c, kind, n), \A d \in Claim \ {c} : Untouched(d),
           UNCHANGED <<row, held, head>>,
           \A k \in Sha : owner'[k] = owner[k], ended \subseteq ended',
           route' = "running" => route = "running",
           Grounded(n), client'[c] = "acquired" => client[c] = "acquired" /\ kind # "main",
           kind = "main" => /\ n.at # "recheck" /\ (n.at = "claim" => route # "running")
                            /\ ~At(c, "main", "move"),
           kind = "recovery" => ~At(c, "recovery", "claim") /\ Checked(n)
    PROVE  RunOK(c)
<1>1. AfterStart(row'[c].cp)
  BY DEF RunInv, StartOK
<1>2. Carries(c, kind, n)
  BY <1>1 DEF Carries, Bound
<1> QED BY <1>2, CarriesOn

LEMMA IdleGrounded == Grounded(NoCall)
BY DEF Grounded, AfterStart, Prepared, NoCall, NoCp, NoPub, Request

LEMMA KeepsOwn ==
    ASSUME Typed, \/ UNCHANGED own
                  \/ \E l : Obtains(Projection, l)
    PROVE  (\A k \in Sha : owner'[k] = owner[k]) /\ ended' = ended
BY NullAssumption DEF Obtains, Own!Take, own, Typed, TypeOK

\* A handler begins with what the row has.
LEMMA BeginsRunning ==
    ASSUME RunInv, LeasesGrow, NEW c \in Claim, NEW kind \in {"main", "beat"}, Outcome(c),
           NEW op \in {"start", "heartbeat", "confirm", "advance"},
           NEW step \in {"plan", "refresh", "check"},
           Begins(c, kind, op, step, held[c]), held[c] \in Lease \cup {NoLease},
           \/ UNCHANGED own
           \/ \E l : Obtains(Projection, l),
           UNCHANGED <<pull, evidence, row, held>>,
           client'[c] = "acquired" => client[c] = "acquired" /\ kind # "main"
    PROVE  RunOK(c)
<1>i. TypeOK /\ Typed /\ kind \in Kind
  BY Opened DEF Kind
<1>n. PICK n : n = Request(op, step, held[c], row[c].sha, row[c].cp)
  OBVIOUS
<1>1. /\ Handles(c, kind, n) /\ n.op = op /\ n.at = step /\ n.cp = row[c].cp
  BY <1>i, <1>n, Began
<1>2. Grounded(n)
  BY <1>1 DEF Grounded, RunInv, StartOK
<1>3. (\A k \in Sha : owner'[k] = owner[k]) /\ ended' = ended
  BY <1>i, KeepsOwn
<1>4. \A d \in Claim \ {c} : Untouched(d)
  BY DEF Outcome
<1>5. ~At(c, kind, "move")
  BY DEF Begins, Idle, At
<1>6. kind # "recovery"
  OBVIOUS
<1> QED BY <1>i, <1>1, <1>2, <1>3, <1>4, <1>5, <1>6, GoesOnRunning DEF pull

\* A handler ends without having done anything to the row.
LEMMA EndsRunning ==
    ASSUME RunInv, LeasesGrow, NEW c \in Claim, NEW kind \in Kind, Outcome(c), Ends(c, kind),
           UNCHANGED <<own, pull, row, held>>,
           client'[c] = "acquired" => client[c] = "acquired" /\ kind # "main",
           kind = "main" => ~At(c, "main", "move"),
           kind = "recovery" => ~At(c, "recovery", "claim")
    PROVE  RunOK(c)
<1>1. Handles(c, kind, NoCall) /\ Grounded(NoCall) /\ NoCall.at = "idle"
  BY Opened, Ended, IdleGrounded, NoCallIdle
<1>2. \A d \in Claim \ {c} : Untouched(d)
  BY DEF Outcome
<1> QED BY <1>1, <1>2, GoesOnRunning DEF own, pull, Checked

LEMMA BusyWorker ==
    ASSUME RunInv, NEW c \in Claim, ~Idle(c, "main")
    PROVE  client[c] # "acquired"
BY DEF RunInv, FreshOK

LEMMA AbortRunning ==
    ASSUME Attentive, RunInv, LeasesGrow, NEW c \in Claim, NEW kind \in Kind, Outcome(c),
           Abort(c, kind)
    PROVE  RunOK(c)
<1>1. kind = "main" => ~At(c, "main", "move")
  <2>1. Phases \cap (CodePhases \cup ReportPhases) = {} => ~At(c, "main", "move")
    BY Opened, Kinds DEF IInv, ClaimOK, CallOK, At, Typed, TypeOK
  <2> QED BY <2>1 DEF Attentive, Favourable, Abort
<1>2. client[c] = "acquired" => kind # "main"
  BY BusyWorker DEF Abort
<1>3. kind = "recovery" => ~At(c, "recovery", "claim")
  BY DEF Abort, Attentive
<1> QED BY <1>1, <1>2, <1>3, EndsRunning DEF Abort, worker

\* A handler of the worker or of the reconciler goes to its next step.
LEMMA GoesRunning ==
    ASSUME RunInv, LeasesGrow, NEW c \in Claim, NEW kind \in Kind, Outcome(c),
           NEW step \in {"refresh", "check", "put", "done"},
           Goes(c, kind, step), UNCHANGED <<row, worker, head>>,
           \/ UNCHANGED own
           \/ \E l : Obtains(Projection, l),
           route' = "running" => route = "running",
           step \in {"put", "done"} => call[c][kind].at \in {"verify", "put"},
           call[c][kind].at \notin {"idle", "commit", "move", "claim"},
           kind = "recovery" /\ step = "check" /\ Prepared(call[c][kind].cp.pub)
               => head # call[c][kind].cp.pub.to
    PROVE  RunOK(c)
<1>i. TypeOK /\ Typed
  BY Opened
<1>m. PICK m : m = call[c][kind]
  OBVIOUS
<1>g. m \in Calls /\ Grounded(m)
  BY <1>i, <1>m DEF TypeOK, RunInv, StartOK
<1>n. PICK n : n = [m EXCEPT !.at = step]
  OBVIOUS
<1>1. Handles(c, kind, n)
  BY <1>i, <1>m, <1>n, Went
<1>2. n.at = step /\ n.cp = m.cp /\ n.op = m.op /\ n.to = m.to
  BY <1>g, <1>n DEF Calls
<1>3. Grounded(n)
  BY <1>m, <1>g, <1>2 DEF Grounded
<1>4. (\A k \in Sha : owner'[k] = owner[k]) /\ ended' = ended
  BY <1>i, KeepsOwn
<1>5. \A d \in Claim \ {c} : Untouched(d)
  BY DEF Outcome
<1>6. client'[c] = "acquired" => client[c] = "acquired" /\ kind # "main"
  BY BusyWorker DEF worker, Idle, At
<1>7. kind = "recovery" => ~At(c, "recovery", "claim") /\ Checked(n)
  BY <1>m, <1>2 DEF At, Checked
<1>8. kind = "main" => /\ n.at # "recheck" /\ (n.at = "claim" => route # "running")
                       /\ ~At(c, "main", "move")
  BY <1>2 DEF At
<1> QED BY <1>1, <1>2, <1>3, <1>4, <1>5, <1>6, <1>7, <1>8, GoesOnRunning DEF worker

LEMMA WriteVerifyRunning ==
    ASSUME RunInv, LeasesGrow, NEW c \in Claim, NEW kind \in Kind, Outcome(c),
           WriteVerify(c, kind)
    PROVE  RunOK(c)
BY GoesRunning DEF WriteVerify, pull, Idle, At

-----------------------------------------------------------------------------
(* Handlers that record what they plan, or what they did, at HEAD *)

LEMMA SavesRunning ==
    ASSUME RunInv, LeasesGrow, NEW c \in Claim, NEW kind \in {"main", "recovery"}, Outcome(c),
           NEW n, Handles(c, kind, n), NEW l, NEW cp \in Checkpoints, Saves(c, l, cp),
           UNCHANGED <<head, route, held>>, row[c].sha = head,
           \/ UNCHANGED own
           \/ \E x : Obtains(Projection, x),
           AfterStart(cp), Recorded(row[c].cp) => Recorded(cp), Grounded(n),
           client'[c] # "acquired" \/ (kind = "recovery" /\ client'[c] = client[c]),
           n.at \notin {"recheck", "claim", "check"},
           kind = "recovery" => ~Idle(c, "recovery") /\ ~At(c, "recovery", "claim")
    PROVE  RunOK(c)
<1>i. TypeOK /\ Typed /\ IInv /\ WorkOK(c) /\ kind \in Kind
  BY Opened DEF Kind, RInv
<1>1. /\ row'[c].cp = cp /\ row'[c].status = row[c].status /\ row'[c].lease = row[c].lease
      /\ row'[c].sha = row[c].sha
  <2>1. PICK r : r = [row[c] EXCEPT !.cp = cp]
    OBVIOUS
  <2>2. /\ Records(c, r) /\ r.status = row[c].status /\ r.lease = row[c].lease
        /\ r.sha = row[c].sha /\ r.cp = cp
    BY <1>i, <2>1, Saved
  <2> QED BY <2>2 DEF Records
<1>2. (\A k \in Sha : owner'[k] = owner[k]) /\ ended' = ended
  BY <1>i, KeepsOwn
<1>3. Carries(c, kind, n)
  BY <1>1, <1>2 DEF Carries, Bound, Outcome, Checked
<1>4. \/ kind = "main"
      \/ ~HoldsLease(c, held[c]) /\ ~HoldsLease(c, call[c]["main"].lease)
  BY <1>i, OneHolder DEF WorkOK
<1> QED BY <1>i, <1>1, <1>3, <1>4, CarriesOn

LEMMA StartPlanRunning ==
    ASSUME RunInv, LeasesGrow, NEW c \in Claim, Outcome(c), StartPlan(c)
    PROVE  RunOK(c)
<1>i. TypeOK /\ Typed /\ WorkOK(c)
  BY Opened DEF RInv
<1>m. PICK m : m = call[c]["main"]
  OBVIOUS
<1>t. m \in Calls /\ m.cp \in Checkpoints /\ m.lease \in Lease \cup {NoLease} /\ Grounded(m)
  BY <1>i, <1>m, Kinds DEF TypeOK, Calls, RunInv, StartOK
<1>c. PICK cp : cp = IF m.cp.starter = m.lease THEN m.cp
                     ELSE [m.cp EXCEPT !.start = "planned", !.starter = m.lease]
  OBVIOUS
<1>0. /\ m.op = "start" /\ m.at = "plan" /\ head = m.sha /\ Saves(c, m.lease, cp)
      /\ call' = [call EXCEPT ![c]["main"] = Plan(m, cp, route, "running")]
      /\ UNCHANGED <<own, pull, evidence, worker>>
  BY <1>m, <1>c DEF StartPlan, Plan, Sees
<1>1. m.cp = row[c].cp /\ m.sha = row[c].sha
  BY <1>i, <1>m, <1>0 DEF WorkOK, MainOK, Saves
<1>2. cp \in Checkpoints /\ cp.start # "none"
  <2>1. cp \in Checkpoints /\ (m.cp.starter = m.lease \/ cp.start = "planned")
        /\ (m.cp.starter = m.lease => cp.start = m.cp.start)
    BY <1>t, <1>c DEF Checkpoints
  <2>2. m.lease # NoLease
    BY <1>i, <1>0, NoNull DEF Saves, HoldsLease
  <2> QED BY <1>t, <2>1, <2>2 DEF Grounded, AfterStart
<1>3. AfterStart(cp) /\ Recorded(cp)
  BY <1>2 DEF AfterStart, Recorded
<1>n. PICK n : n = Plan(m, cp, route, "running")
  OBVIOUS
<1>4. n \in Calls /\ n.at = "verify" /\ n.cp = cp /\ n.op = "start"
  <2>1. route \in Route /\ "running" \in Route
    BY <1>i DEF TypeOK, Route
  <2> QED BY <1>t, <1>0, <1>2, <1>n, <2>1 DEF Plan, Calls
<1>5. Handles(c, "main", n) /\ Grounded(n)
  <2>1. Handles(c, "main", n)
    BY <1>i, <1>0, <1>n, <1>4, Kinds, Handled
  <2> QED BY <1>2, <1>3, <1>4, <2>1 DEF Grounded
<1>6. client'[c] # "acquired"
  BY <1>0, <1>m, BusyWorker DEF Idle, At, worker
<1> QED BY <1>0, <1>1, <1>2, <1>3, <1>4, <1>5, <1>6, SavesRunning DEF pull, worker

LEMMA AdvancePlanRunning ==
    ASSUME RunInv, LeasesGrow, NEW c \in Claim, Outcome(c), AdvancePlan(c)
    PROVE  RunOK(c)
<1>i. TypeOK /\ Typed /\ WorkOK(c)
  BY Opened DEF RInv
<1>m. PICK m : m = call[c]["main"]
  OBVIOUS
<1>t. m \in Calls /\ m.cp \in Checkpoints /\ m.lease \in Lease \cup {NoLease} /\ Grounded(m)
  BY <1>i, <1>m, Kinds DEF TypeOK, Calls, RunInv, StartOK
<1>p. PICK to \in Advances(m.sha, m.cp) :
          LET cp == [m.cp EXCEPT !.adv = to, !.advBy = m.lease] IN
          /\ Saves(c, m.lease, cp)
          /\ call' = [call EXCEPT ![c]["main"] = Plan(m, cp, route, to)]
  BY <1>m DEF AdvancePlan, Plan
<1>c. PICK cp : cp = [m.cp EXCEPT !.adv = to, !.advBy = m.lease]
  OBVIOUS
<1>0. /\ m.op = "advance" /\ m.at = "plan" /\ head = m.sha /\ Saves(c, m.lease, cp)
      /\ call' = [call EXCEPT ![c]["main"] = Plan(m, cp, route, to)]
      /\ UNCHANGED <<own, pull, evidence, worker>>
  BY <1>m, <1>p, <1>c DEF AdvancePlan, Sees
<1>1. m.cp = row[c].cp /\ m.sha = row[c].sha
  BY <1>i, <1>m, <1>0 DEF WorkOK, MainOK, Saves
<1>r. to \in {"next", "review-again"} /\ to \in Route
  BY DEF Advances, Route
<1>2. cp \in Checkpoints /\ cp.pub = m.cp.pub /\ cp.adv = to /\ cp.start = m.cp.start
      /\ cp.starter = m.cp.starter
  BY <1>t, <1>c, <1>r DEF Checkpoints
<1>3. AfterStart(cp) /\ Recorded(cp)
  BY <1>t, <1>r, <1>2 DEF Grounded, AfterStart, Recorded, Prepared
<1>n. PICK n : n = Plan(m, cp, route, to)
  OBVIOUS
<1>4. n \in Calls /\ n.at = "verify" /\ n.cp = cp /\ n.op = "advance" /\ n.to = to
  <2>1. route \in Route
    BY <1>i DEF TypeOK
  <2> QED BY <1>t, <1>0, <1>2, <1>n, <1>r, <2>1 DEF Plan, Calls
<1>5. Handles(c, "main", n) /\ Grounded(n)
  <2>1. Handles(c, "main", n)
    BY <1>i, <1>0, <1>n, <1>4, Kinds, Handled
  <2> QED BY <1>3, <1>4, <1>r, <2>1 DEF Grounded
<1>6. client'[c] # "acquired"
  BY <1>0, <1>m, BusyWorker DEF Idle, At, worker
<1> QED BY <1>0, <1>1, <1>2, <1>3, <1>4, <1>5, <1>6, SavesRunning DEF pull, worker

LEMMA RecoverPlanRunning ==
    ASSUME RunInv, LeasesGrow, NEW c \in Claim, Outcome(c), RecoverPlan(c)
    PROVE  RunOK(c)
<1>i. TypeOK /\ Typed /\ WorkOK(c)
  BY Opened DEF RInv
<1>m. PICK m : m = call[c]["recovery"]
  OBVIOUS
<1>t. m \in Calls /\ m.cp \in Checkpoints /\ Grounded(m)
  BY <1>i, <1>m, Kinds DEF TypeOK, Calls, RunInv, StartOK
<1>p. PICK to \in Recovers(m.sha) :
          LET cp == [m.cp EXCEPT !.rec = to] IN
          /\ Saves(c, m.lease, cp)
          /\ call' = [call EXCEPT ![c]["recovery"] = Plan(m, cp, route, to)]
  BY <1>m DEF RecoverPlan, Plan
<1>c. PICK cp : cp = [m.cp EXCEPT !.rec = to]
  OBVIOUS
<1>0. /\ m.at = "check" /\ head = m.sha /\ Saves(c, m.lease, cp)
      /\ call' = [call EXCEPT ![c]["recovery"] = Plan(m, cp, route, to)]
      /\ UNCHANGED <<own, pull, evidence, worker>>
  BY <1>m, <1>p, <1>c DEF RecoverPlan, Foreign, Sees, At
<1>1. m.cp = row[c].cp /\ m.sha = row[c].sha /\ m.op = "recovery"
  BY <1>i, <1>m, <1>0 DEF WorkOK, RecoveryHolds
<1>r. to \in {"next", "todo"} /\ to \in Route
  BY DEF Recovers, Route
<1>2. cp \in Checkpoints /\ cp.pub = m.cp.pub /\ cp.adv = m.cp.adv /\ cp.start = m.cp.start
      /\ cp.starter = m.cp.starter
  BY <1>t, <1>c, <1>r DEF Checkpoints
<1>3. AfterStart(cp) /\ (Recorded(row[c].cp) => Recorded(cp))
  BY <1>t, <1>1, <1>2 DEF Grounded, AfterStart, Recorded, Prepared
<1>n. PICK n : n = Plan(m, cp, route, to)
  OBVIOUS
<1>4. n \in Calls /\ n.at = "verify" /\ n.cp = cp /\ n.op = "recovery" /\ n.to = to
  <2>1. route \in Route
    BY <1>i DEF TypeOK
  <2> QED BY <1>t, <1>1, <1>2, <1>n, <1>r, <2>1 DEF Plan, Calls
<1>5. Handles(c, "recovery", n) /\ Grounded(n)
  <2>1. Handles(c, "recovery", n)
    BY <1>i, <1>0, <1>n, <1>4, Kinds, Handled
  <2> QED BY <1>3, <1>4, <1>r, <2>1 DEF Grounded
<1>6. ~Idle(c, "recovery") /\ ~At(c, "recovery", "claim")
  BY <1>0, <1>m DEF Idle, At
<1> QED BY <1>0, <1>1, <1>2, <1>3, <1>4, <1>5, <1>6, SavesRunning DEF pull, worker

LEMMA StartDoneRunning ==
    ASSUME RunInv, LeasesGrow, NEW c \in Claim, Outcome(c), StartDone(c)
    PROVE  RunOK(c)
<1>i. TypeOK /\ Typed /\ WorkOK(c)
  BY Opened DEF RInv
<1>m. PICK m : m = call[c]["main"]
  OBVIOUS
<1>t. m \in Calls /\ m.cp \in Checkpoints
  BY <1>i, <1>m, Kinds DEF TypeOK, Calls
<1>c. PICK cp : cp = [m.cp EXCEPT !.start = "applied"]
  OBVIOUS
<1>0. /\ m.op = "start" /\ m.at = "done" /\ head = m.sha /\ Saves(c, m.lease, cp)
      /\ Ends(c, "main") /\ UNCHANGED <<own, pull, evidence, held>>
  BY <1>m, <1>c DEF StartDone, Sees
<1>1. m.cp = row[c].cp /\ m.sha = row[c].sha
  BY <1>i, <1>m, <1>0 DEF WorkOK, MainOK, Saves
<1>2. cp \in Checkpoints /\ cp.start = "applied"
  BY <1>t, <1>c DEF Checkpoints
<1>3. AfterStart(cp) /\ Recorded(cp)
  BY <1>2 DEF AfterStart, Recorded
<1>4. Handles(c, "main", NoCall) /\ Grounded(NoCall) /\ NoCall.at = "idle"
  BY <1>i, <1>0, Kinds, Ended, IdleGrounded, NoCallIdle
<1>5. client'[c] # "acquired"
  <2>1. client[c] # "acquired"
    BY <1>0, <1>m, BusyWorker DEF Idle, At
  <2> QED BY <1>i, <2>1 DEF StartDone, TypeOK
<1> QED BY <1>0, <1>1, <1>2, <1>3, <1>4, <1>5, SavesRunning DEF pull

LEMMA ReportsKeptRunning ==
    ASSUME RunInv, LeasesGrow, NEW c \in Claim, Outcome(c), ReportsMove(c),
           call[c]["main"].new = call[c]["main"].sha
    PROVE  RunOK(c)
<1>i. TypeOK /\ Typed /\ WorkOK(c)
  BY Opened DEF RInv
<1>m. PICK m : m = call[c]["main"]
  OBVIOUS
<1>t. m \in Calls /\ m.cp \in Checkpoints /\ Grounded(m)
  BY <1>i, <1>m, Kinds DEF TypeOK, Calls, RunInv, StartOK
<1>c. PICK cp : cp = [m.cp EXCEPT !.rep = "kept"]
  OBVIOUS
<1>0. /\ m.at = "move" /\ m.new = m.sha /\ Saves(c, m.lease, cp)
      /\ Ends(c, "main") /\ UNCHANGED <<own, pull, evidence, worker>>
  BY <1>m, <1>c DEF ReportsMove, At
<1>1. m.op = "reports" /\ head = m.sha /\ m.cp = row[c].cp /\ m.sha = row[c].sha
  BY <1>i, <1>m, <1>0 DEF WorkOK, MainOK, Publishing, Saves
<1>2. cp \in Checkpoints /\ cp.start = m.cp.start
  BY <1>t, <1>c DEF Checkpoints
<1>3. AfterStart(cp) /\ Recorded(cp)
  BY <1>t, <1>1, <1>2 DEF Grounded, AfterStart, Recorded
<1>4. Handles(c, "main", NoCall) /\ Grounded(NoCall) /\ NoCall.at = "idle"
  BY <1>i, <1>0, Kinds, Ended, IdleGrounded, NoCallIdle
<1>5. client'[c] # "acquired"
  BY <1>0, <1>m, BusyWorker DEF Idle, At, worker
<1> QED BY <1>0, <1>1, <1>2, <1>3, <1>4, <1>5, SavesRunning DEF pull, worker

LEMMA DecideRunning ==
    ASSUME RunInv, LeasesGrow, NEW c \in Claim, Outcome(c), NEW to \in Route, Decide(c, to)
    PROVE  RunOK(c)
<1>i. TypeOK /\ Typed
  BY Opened
<1>t. row[c].cp \in Checkpoints /\ row[c].sha \in Sha \cup {NoSha}
      /\ held[c] \in Lease \cup {NoLease}
  BY <1>i DEF TypeOK, Rows
<1>c. PICK cp : cp = [row[c].cp EXCEPT !.dec = TRUE]
  OBVIOUS
<1>n. PICK n : n = [Request("decision", "verify", held[c], row[c].sha, row'[c].cp)
                        EXCEPT !.seen = "running", !.to = to]
  OBVIOUS
<1>0. /\ client[c] = "working" /\ head = row[c].sha /\ to \in Decisions
      /\ Saves(c, held[c], cp) /\ Obtains(Projection, held[c])
      /\ call' = [call EXCEPT ![c]["main"] = n] /\ UNCHANGED <<pull, evidence, worker>>
  BY <1>c, <1>n DEF Decide, Sees
<1>1. cp \in Checkpoints /\ cp.pub = row[c].cp.pub /\ cp.adv = row[c].cp.adv
      /\ cp.start = row[c].cp.start /\ cp.starter = row[c].cp.starter
  BY <1>t, <1>c DEF Checkpoints
<1>2. row'[c].cp = cp
  <2>1. PICK r : r = [row[c] EXCEPT !.cp = cp]
    OBVIOUS
  <2>2. Records(c, r) /\ r.cp = cp
    BY <1>i, <1>0, <1>1, <2>1, Saved
  <2> QED BY <2>2 DEF Records
<1>3. /\ n \in Calls /\ n.op = "decision" /\ n.at = "verify" /\ n.cp = cp /\ n.to = to
  BY <1>t, <1>n, <1>1, <1>2 DEF Request, Calls, Route
<1>4. AfterStart(cp) /\ (Recorded(row[c].cp) => Recorded(cp))
  BY <1>1 DEF RunInv, StartOK, AfterStart, Recorded, Prepared
<1>5. Handles(c, "main", n) /\ Grounded(n)
  <2>1. Handles(c, "main", n)
    BY <1>i, <1>0, <1>3, Kinds, Handled
  <2>2. to # "running"
    BY <1>0 DEF Decisions
  <2> QED BY <1>3, <1>4, <2>1, <2>2 DEF Grounded
<1>6. client'[c] # "acquired"
  BY <1>0 DEF worker
<1> QED BY <1>0, <1>1, <1>3, <1>4, <1>5, <1>6, SavesRunning DEF pull, worker

\* A claim about to publish has started, at HEAD.
LEMMA ReportsBeginRunning ==
    ASSUME RunInv, LeasesGrow, NEW c \in Claim, Outcome(c), ReportsBegin(c)
    PROVE  RunOK(c)
<1>i. TypeOK /\ Typed
  BY Opened
<1>t. row[c].cp \in Checkpoints /\ row[c].sha \in Sha \cup {NoSha}
      /\ held[c] \in Lease \cup {NoLease}
  BY <1>i DEF TypeOK, Rows
<1>c. PICK cp : cp = [row[c].cp EXCEPT !.rep = "prepared"]
  OBVIOUS
<1>n. PICK n : n = Request("reports", "commit", held[c], row[c].sha, row'[c].cp)
  OBVIOUS
<1>0. /\ client[c] = "working" /\ head = row[c].sha /\ row[c].cp.start = "applied"
      /\ Saves(c, held[c], cp)
      /\ call' = [call EXCEPT ![c]["main"] = n] /\ UNCHANGED <<own, pull, evidence, worker>>
  BY <1>c, <1>n DEF ReportsBegin, MayPublish, Sees
<1>1. cp \in Checkpoints /\ cp.start = "applied"
  BY <1>t, <1>c, <1>0 DEF Checkpoints
<1>2. row'[c].cp = cp
  <2>1. PICK r : r = [row[c] EXCEPT !.cp = cp]
    OBVIOUS
  <2>2. Records(c, r) /\ r.cp = cp
    BY <1>i, <1>0, <1>1, <2>1, Saved
  <2> QED BY <2>2 DEF Records
<1>3. /\ n \in Calls /\ n.op = "reports" /\ n.at = "commit" /\ n.cp = cp
  BY <1>t, <1>n, <1>1, <1>2 DEF Request, Calls
<1>4. AfterStart(cp) /\ Recorded(cp)
  BY <1>1 DEF AfterStart, Recorded
<1>5. Handles(c, "main", n) /\ Grounded(n)
  <2>1. Handles(c, "main", n)
    BY <1>i, <1>0, <1>3, Kinds, Handled
  <2> QED BY <1>1, <1>3, <1>4, <2>1 DEF Grounded
<1>6. client'[c] # "acquired"
  BY <1>0 DEF worker
<1> QED BY <1>0, <1>1, <1>3, <1>4, <1>5, <1>6, SavesRunning DEF pull, worker

LEMMA PrepareHeadRunning ==
    ASSUME RunInv, LeasesGrow, NEW c \in Claim, Outcome(c), NEW to \in Sha, PrepareHead(c, to)
    PROVE  RunOK(c)
<1>i. TypeOK /\ Typed
  BY Opened
<1>t. row[c].cp \in Checkpoints /\ row[c].sha \in Sha \cup {NoSha}
  BY <1>i DEF TypeOK, Rows
<1>p. PICK p : p = [status |-> "prepared", from |-> row[c].sha, to |-> to]
  OBVIOUS
<1>c. PICK cp : cp = [row[c].cp EXCEPT !.pub = p]
  OBVIOUS
<1>n. PICK n : n = call[c]["main"]
  OBVIOUS
<1>0. /\ Idle(c, "main") /\ head = row[c].sha /\ row[c].cp.start = "applied"
      /\ Saves(c, held[c], cp)
      /\ UNCHANGED <<own, head, route, held, call>>
  BY <1>c, <1>p DEF PrepareHead, MayPublish, Sees
<1>1. cp \in Checkpoints /\ cp.start = "applied"
  <2>1. p \in Pubs
    BY <1>t, <1>p DEF Pubs
  <2> QED BY <1>t, <1>c, <1>0, <2>1 DEF Checkpoints
<1>4. AfterStart(cp) /\ Recorded(cp)
  BY <1>1 DEF AfterStart, Recorded
<1>5. Handles(c, "main", n) /\ Grounded(n) /\ n.at = "idle"
  <2>1. Handles(c, "main", n)
    BY <1>i, <1>0, <1>n DEF Handles, TypeOK
  <2> QED BY <1>0, <1>n, <2>1, Kinds DEF Idle, At, RunInv, StartOK
<1>6. client'[c] = "declared"
  BY <1>i DEF PrepareHead, Becomes, TypeOK
<1> QED BY <1>0, <1>1, <1>4, <1>5, <1>6, SavesRunning

-----------------------------------------------------------------------------
(* Handlers that follow HEAD *)

\* A claim that follows the commit it declared, or that was made for it, stands: it
\* started, its lease has the key of HEAD.
LEMMA RebindsRunning ==
    ASSUME RunInv, LeasesGrow, NEW c \in Claim, NEW kind \in Kind, Outcome(c), NEW n,
           Handles(c, kind, n), NEW l \in Lease, HoldsLease(c, l), NEW to \in Sha,
           NEW cp \in Checkpoints, Obtains(to, l), Rebinding(c, to, cp), head = to,
           UNCHANGED <<head, held>>, cp.start # "none", Grounded(n), ~Prepared(n.cp.pub),
           n.at \notin {"recheck", "claim"}, ~At(c, "main", "recheck"),
           client[c] # "acquired", client'[c] # "acquired"
    PROVE  RunOK(c)
<1>i. TypeOK /\ Typed /\ IInv /\ StartOK(c) /\ FreshOK(c)
  BY Opened DEF RunInv
<1>1. /\ row'[c].cp = cp /\ row'[c].sha = to /\ row'[c].status = "running" /\ row'[c].lease = l
      /\ row[c].status = "running" /\ row[c].lease = l
  BY <1>i, MovedRow DEF HoldsLease
<1>2. owner'[to] = l
  BY <1>i, Obtained
<1>3. Shrinks
  <2>1. Takes(l)
    BY <1>i, ObtainsTakes
  <2>2. \A d \in Claim : row[d].status = "running" => row[d].lease # NoLease
    BY DEF RunInv, StartOK
  <2>3. \A d \in Claim \ {c} : Untouched(d)
    BY DEF Outcome
  <2> QED BY <1>i, <1>1, <1>2, <2>1, <2>2, <2>3, TakesShrinks
<1>4. AfterStart(cp) /\ Recorded(cp)
  BY DEF AfterStart, Recorded
<1>5. StandOK'
  BY <1>1, <1>2, <1>4, OwnerStands DEF Follows
<1>6. \A k \in Kind : Grounded(call'[c][k])
  BY <1>i DEF Handles, StartOK
<1>7. call'[c]["main"].at # "recheck"
  BY Kinds DEF Handles, At
<1>8. StartOK(c)' /\ FreshOK(c)'
  BY <1>i, <1>1, <1>4, <1>6, <1>7, BasisStays
<1>9. CheckOK'
  <2>1. \A d \in Claim \ {c} : Untouched(d)
    BY DEF Outcome
  <2>2. call'[c]["recovery"] = call[c]["recovery"] \/ Checked(call'[c]["recovery"])
    BY Kinds DEF Handles, Checked
  <2> QED BY <2>1, <2>2, ChecksStay
<1> QED BY <1>3, <1>5, <1>8, <1>9 DEF RunOK

\* What to ask of the row before a copy of a declared commit is followed.
LEMMA FollowsPub ==
    ASSUME RInv, NEW c \in Claim, NEW kind \in Kind, At(c, kind, "refresh"),
           Prepared(call[c][kind].cp.pub), HoldsLease(c, call[c][kind].lease),
           row[c].sha = call[c][kind].cp.pub.from
    PROVE  row[c].cp.pub = call[c][kind].cp.pub
<1>i. ClaimOK(c)
  BY DEF RInv, IInv
<1>1. CASE kind = "recovery"
  BY <1>i, <1>1 DEF ClaimOK, RecoveryOK, At
<1>2. CASE kind \in {"main", "beat"}
  BY <1>i, <1>2 DEF ClaimOK, CopyOK
<1> QED BY <1>1, <1>2 DEF Kind

LEMMA RefreshHeadRunning ==
    ASSUME RunInv, LeasesGrow, NEW c \in Claim, NEW kind \in Kind, Outcome(c),
           RefreshHead(c, kind)
    PROVE  RunOK(c)
<1>i. RInv /\ IInv /\ TypeOK /\ Typed
  BY Opened
<1>m. PICK m : m = call[c][kind]
  OBVIOUS
<1>p. PICK p : p = m.cp.pub
  OBVIOUS
<1>t. m \in Calls /\ m.cp \in Checkpoints /\ m.lease \in Lease \cup {NoLease} /\ Grounded(m)
  BY <1>i, <1>m DEF TypeOK, Calls, RunInv, StartOK
<1>0. m.at = "refresh" /\ UNCHANGED <<pull, evidence, worker>>
  BY <1>m DEF RefreshHead
<1>b. kind = "main" => client[c] # "acquired"
  BY <1>0, <1>m, BusyWorker DEF Idle, At
<1>1. CASE /\ p.status # "prepared" \/ head = m.sha
           /\ Goes(c, kind, "check") /\ UNCHANGED <<own, row>>
  <2>1. ASSUME kind = "recovery", Prepared(p) PROVE head # p.to
    <3>1. head = m.sha /\ m.sha = row[c].sha /\ m.cp = row[c].cp
      BY <1>i, <1>m, <1>0, <1>1, <2>1 DEF Prepared, RInv, WorkOK, RecoveryHolds
    <3>2. p.from = m.sha
      BY <1>i, <1>p, <2>1, <3>1 DEF RInv, WorkOK, PubOK
    <3> QED BY <1>i, <1>m, <1>p, <2>1, <3>1, <3>2, CopyDeclared
  <2> QED BY <1>m, <1>p, <1>0, <1>1, <2>1, GoesRunning DEF pull
<1>2. CASE /\ Prepared(p) /\ p.from = m.sha /\ Sees(p.to, {"running"}) /\ owner[m.sha] = m.lease
           /\ MovesHead(c, m.lease, p.from, p.to, Followed(m.cp))
           /\ call' = [call EXCEPT ![c][kind] = Follow(m, p.to, row'[c].cp)]
  <2>0. p.to \in Sha /\ p.from # p.to
    BY <1>i, <1>m, <1>p, <1>2, CopyDeclared
  <2>1. CASE row[c].sha = p.from
    <3>1. /\ Obtains(p.to, m.lease) /\ Rebinding(c, p.to, Followed(m.cp))
          /\ HoldsLease(c, m.lease) /\ m.lease \in Lease
      BY <1>i, <1>t, <1>2, <2>0, <2>1, BoundTo DEF MovesHead, Rebinding
    <3>2. row[c].cp.pub = p
      BY <1>i, <1>m, <1>p, <1>0, <1>2, <2>1, <3>1, FollowsPub DEF At
    <3>3. client[c] # "acquired" /\ ~At(c, "main", "recheck")
      <4>1. client[c] \in {"declared", "pushed", "gone"}
            /\ call[c]["main"].op \in {"none", "confirm"}
        BY <1>i, <1>2, <3>2 DEF IInv, ClaimOK, RowOK
      <4> QED BY <1>i, <4>1 DEF RInv, WorkOK, MainOK, At
    <3>4. PICK cp : cp = Followed(m.cp)
      OBVIOUS
    <3>5. cp \in Checkpoints /\ cp.start # "none"
      <4>1. cp \in Checkpoints
        BY <1>t, <3>4, FollowedType
      <4>2. m.cp.start # "none"
        BY <1>t, <1>p, <1>2 DEF Grounded, AfterStart
      <4>3. cp.start = m.cp.start
        BY <1>t, <3>4 DEF Followed, Checkpoints
      <4> QED BY <4>1, <4>2, <4>3
    <3>6. row'[c].cp = cp
      BY <1>i, <2>0, <3>1, <3>4, <3>5, MovedRow
    <3>7. PICK n : n = Follow(m, p.to, cp)
      OBVIOUS
    <3>8. n \in Calls /\ n.at = "check" /\ n.cp = cp /\ n.op = m.op
      BY <1>t, <2>0, <3>5, <3>7, Following
    <3>9. Handles(c, kind, n)
      BY <1>i, <1>2, <3>6, <3>7, <3>8, Handled
    <3>10. Grounded(n)
      BY <1>t, <1>0, <3>5, <3>8 DEF Grounded, AfterStart
    <3>11. head = p.to /\ UNCHANGED <<head, held>> /\ client'[c] # "acquired"
      BY <1>0, <1>2, <3>3 DEF Sees, pull, worker
    <3>12. Rebinding(c, p.to, cp)
      BY <3>1, <3>4
    <3>13. ~Prepared(n.cp.pub)
      BY <1>t, <3>4, <3>8, FollowedType DEF Prepared
    <3> QED BY <2>0, <3>1, <3>3, <3>5, <3>8, <3>9, <3>10, <3>11, <3>12, <3>13, RebindsRunning
  <2>2. CASE row[c].sha # p.from
    <3>1. UNCHANGED <<own, row>>
      BY <1>2, <2>2 DEF MovesHead
    <3>2. PICK n : n = Follow(m, p.to, row[c].cp)
      OBVIOUS
    <3>3. row[c].cp \in Checkpoints
      BY <1>i DEF TypeOK, Rows
    <3>4. n \in Calls /\ n.at = "check" /\ n.cp = row[c].cp /\ n.op = m.op
      BY <1>t, <2>0, <3>2, <3>3, Following
    <3>5. Handles(c, kind, n)
      BY <1>i, <1>2, <3>1, <3>2, <3>4, Handled
    <3>6. Grounded(n)
      BY <1>t, <1>0, <3>4 DEF Grounded, RunInv, StartOK
    <3>7. \A d \in Claim \ {c} : Untouched(d)
      BY DEF Outcome
    <3>8. Checked(n)
      BY <1>2, <2>2, <3>4 DEF MovesHead, Checked, Prepared
    <3> QED BY <1>m, <1>0, <1>b, <3>1, <3>4, <3>5, <3>6, <3>7, <3>8, GoesOnRunning
            DEF own, pull, worker, At
  <2> QED BY <2>1, <2>2
<1> QED BY <1>m, <1>p, <1>1, <1>2 DEF RefreshHead, Follow, Prepared

LEMMA ReportsMovedRunning ==
    ASSUME RunInv, LeasesGrow, NEW c \in Claim, Outcome(c), ReportsMove(c),
           call[c]["main"].new # call[c]["main"].sha
    PROVE  RunOK(c)
<1>i. IInv /\ TypeOK /\ Typed /\ WorkOK(c)
  BY Opened DEF RInv
<1>m. PICK m : m = call[c]["main"]
  OBVIOUS
<1>t. m \in Calls /\ m.cp \in Checkpoints /\ m.lease \in Lease \cup {NoLease} /\ Grounded(m)
  BY <1>i, <1>m, Kinds DEF TypeOK, Calls, RunInv, StartOK
<1>c. PICK cp : cp = [m.cp EXCEPT !.rep = "moved", !.adv = "none", !.advBy = NoLease,
                                  !.rec = "none"]
  OBVIOUS
<1>0. /\ m.at = "move" /\ Owned(c, m.lease) /\ MovesHead(c, m.lease, m.sha, m.new, cp)
      /\ Ends(c, "main") /\ UNCHANGED <<pull, evidence, worker>> /\ m.new # m.sha
  BY <1>m, <1>c DEF ReportsMove, At
<1>1. m.op = "reports" /\ m.sha = row[c].sha /\ head = m.new /\ m.new \in Sha
  <2>1. m.op = "reports" /\ m.sha = row[c].sha /\ head = m.new
    BY <1>i, <1>m, <1>0 DEF WorkOK, MainOK, Publishing, Owned
  <2> QED BY <1>i, <2>1 DEF TypeOK
<1>2. cp \in Checkpoints /\ cp.start # "none"
  <2>1. cp \in Checkpoints /\ cp.start = m.cp.start
    BY <1>t, <1>c DEF Checkpoints
  <2> QED BY <1>t, <1>1, <2>1 DEF Grounded
<1>3. /\ Obtains(m.new, m.lease) /\ Rebinding(c, m.new, cp)
      /\ HoldsLease(c, m.lease) /\ m.lease \in Lease
  BY <1>i, <1>t, <1>0, <1>1, BoundTo DEF MovesHead, Rebinding, Owned
<1>4. Handles(c, "main", NoCall) /\ Grounded(NoCall) /\ NoCall.at = "idle"
  BY <1>i, <1>0, Kinds, Ended, IdleGrounded, NoCallIdle
<1>5. client[c] # "acquired" /\ client'[c] # "acquired" /\ ~At(c, "main", "recheck")
  BY <1>0, <1>m, BusyWorker DEF Idle, At, worker
<1>6. UNCHANGED <<head, held>> /\ ~Prepared(NoCall.cp.pub)
  BY <1>0, Nulls DEF pull, worker, Prepared, NoPub
<1> QED BY <1>1, <1>2, <1>3, <1>4, <1>5, <1>6, Kinds, RebindsRunning

-----------------------------------------------------------------------------
(* Claims that end *)

LEMMA ClosesRunning ==
    ASSUME RunInv, LeasesGrow, NEW c \in Claim, NEW kind \in Kind, NEW l, Closes(c, kind, l),
           route = "running" => ~Standing(c),
           client'[c] = "acquired" => client[c] = "acquired"
    PROVE  RunOK(c)
<1>i. IInv /\ StartOK(c) /\ FreshOK(c)
  BY Opened DEF RunInv
<1>1. /\ call'[c][kind] = NoCall /\ \A k \in Kind \ {kind} : call'[c][k] = call[c][k]
      /\ row'[c].status # "running" /\ row'[c].cp = row[c].cp /\ held'[c] = held[c]
  BY DEF Closes, Handles
<1>2. \A k \in Kind : Grounded(call'[c][k])
  BY <1>i, <1>1, IdleGrounded DEF StartOK
<1>3. call'[c]["main"] \in {NoCall, call[c]["main"]} /\ NoCall.at = "idle"
  BY <1>1, Kinds, NoCallIdle
<1>4. client'[c] = "acquired" =>
          /\ client[c] = "acquired" /\ call'[c]["main"] = call[c]["main"]
          /\ row'[c].cp = row[c].cp \/ ~HoldsLease(c, held[c])
  <2>1. client[c] = "acquired" => call[c]["main"] = NoCall
    BY <1>i, Kinds DEF FreshOK, IInv, ClaimOK, CallOK, Idle, At
  <2> QED BY <1>1, <1>3, <2>1
<1>5. StartOK(c)' /\ FreshOK(c)'
  BY <1>i, <1>1, <1>2, <1>3, <1>4, BasisStays DEF StartOK
<1>6. Shrinks /\ StandOK'
  BY ClosedStands
<1>7. CheckOK'
  <2>1. call'[c]["recovery"] = call[c]["recovery"] \/ call'[c]["recovery"] = NoCall
    BY <1>1, Kinds
  <2>2. (\A d \in Claim \ {c} : Untouched(d)) /\ head' = head
    BY DEF Closes, pull
  <2> QED BY <1>3, <2>1, <2>2, ChecksStay DEF Checked
<1> QED BY <1>5, <1>6, <1>7 DEF RunOK

\* finish() with a lease that is held, by a handler that ends.
LEMMA FinishesRunning ==
    ASSUME RunInv, LeasesGrow, NEW c \in Claim, NEW kind \in Kind, Outcome(c), NEW l,
           NEW status \in {"done", "superseded"}, Finishes(c, l, status), HoldsLease(c, l),
           Ends(c, kind) \/ (kind = "main" /\ UNCHANGED call /\ call[c]["main"] = NoCall),
           UNCHANGED <<pull, evidence, held>>,
           route = "running" => ~Standing(c),
           client'[c] = "acquired" => client[c] = "acquired"
    PROVE  RunOK(c)
<1>1. Closes(c, kind, l)
  BY Opened, FinishesCloses DEF Outcome
<1> QED BY <1>1, ClosesRunning

\* A worker that gives up, or is sent away, before it started gives up nothing RUNNING needs.
LEMMA ReleaseRunning ==
    ASSUME Attentive, RunInv, LeasesGrow, NEW c \in Claim, Outcome(c), Release(c)
    PROVE  RunOK(c)
<1>1. /\ client[c] = "acquired" /\ Idle(c, "main") /\ Owned(c, held[c])
      /\ Finishes(c, held[c], "done") /\ UNCHANGED <<pull, evidence, held, call>>
  BY DEF Release, Attentive
<1>2. call[c]["main"] = NoCall
  BY <1>1, Opened, Kinds DEF IInv, ClaimOK, CallOK, Idle, At
<1>3. ~Standing(c) /\ HoldsLease(c, held[c])
  BY <1>1 DEF RunInv, FreshOK, Standing, Owned
<1>4. client'[c] = "finished"
  BY Opened DEF Release, Becomes, TypeOK
<1> QED BY <1>1, <1>2, <1>3, <1>4, Kinds, FinishesRunning

LEMMA AcquireRecheckRunning ==
    ASSUME RunInv, LeasesGrow, NEW c \in Claim, Outcome(c), AcquireRecheck(c)
    PROVE  RunOK(c)
<1>i. IInv /\ TypeOK /\ Typed /\ WorkOK(c) /\ StartOK(c) /\ FreshOK(c)
  BY Opened DEF RInv, RunInv
<1>m. PICK m : m = call[c]["main"]
  OBVIOUS
<1>0. At(c, "main", "recheck") /\ Ends(c, "main") /\ UNCHANGED <<pull, evidence>>
  BY DEF AcquireRecheck
<1>b. client[c] # "acquired" /\ ~At(c, "main", "move")
  BY <1>0, BusyWorker DEF Idle, At
<1>1. CASE /\ held' = [held EXCEPT ![c] = m.lease]
           /\ client' = [client EXCEPT ![c] = IF @ = "asking" THEN "acquired" ELSE @]
           /\ UNCHANGED <<own, row>>
  <2>1. Handles(c, "main", NoCall) /\ Grounded(NoCall) /\ NoCall.at = "idle"
    BY <1>i, <1>0, Kinds, Ended, IdleGrounded, NoCallIdle
  <2>2. /\ call'[c]["main"] = NoCall /\ \A k \in Kind \ {"main"} : call'[c][k] = call[c][k]
        /\ held'[c] = m.lease /\ row'[c] = row[c]
    BY <1>i, <1>1, <2>1 DEF Handles, TypeOK
  <2>3. StartOK(c)'
    BY <1>i, <2>1, <2>2 DEF StartOK
  <2>4. FreshOK(c)'
    <3>1. HoldsLease(c, m.lease)' => HoldsLease(c, m.lease)
      BY <1>i, <2>2, HeldBefore
    <3>2. HoldsLease(c, m.lease)' => ~Recorded(row'[c].cp)
      BY <1>i, <1>m, <1>0, <2>2, <3>1 DEF FreshOK
    <3> QED BY <2>1, <2>2, <3>2 DEF FreshOK, Idle, At, HoldsLease, Recorded
  <2>5. Quiet(c)
    BY <1>0, <1>1, <2>2, Kinds DEF Quiet, Outcome, own, pull, At
  <2>6. StandOK'
    BY <1>0, <1>b, <2>1, <2>2, <2>5, QuietStands DEF pull
  <2>7. CheckOK'
    BY <1>0, <2>2, Kinds, ChecksStay DEF Outcome, pull
  <2> QED BY <1>i, <2>3, <2>4, <2>5, <2>6, <2>7, QuietShrinks DEF RunOK
<1>2. CASE Finishes(c, m.lease, "superseded") /\ UNCHANGED worker
  <2>1. CASE HoldsLease(c, m.lease)
    <3>1. ~Standing(c)
      BY <1>i, <1>m, <1>0, <2>1 DEF FreshOK, Standing
    <3> QED BY <1>0, <1>2, <2>1, <3>1, Kinds, FinishesRunning DEF worker
  <2>2. CASE ~HoldsLease(c, m.lease)
    <3>1. UNCHANGED <<own, row>>
      BY <1>2, <2>2 DEF Finishes
    <3> QED BY <1>0, <1>b, <1>2, <3>1, Kinds, EndsRunning DEF worker
  <2> QED BY <2>1, <2>2
<1> QED BY <1>m, <1>1, <1>2 DEF AcquireRecheck

-----------------------------------------------------------------------------
(* Requests that begin, and other steps of workers *)

LEMMA AcquireReadRunning ==
    ASSUME RunInv, LeasesGrow, NEW c \in Claim, Outcome(c), AcquireRead(c)
    PROVE  RunOK(c)
<1>i. TypeOK /\ Typed /\ WorkOK(c)
  BY Opened DEF RInv
<1>n. PICK n : n = Request("acquire", "claim", NoLease, head, NoCp)
  OBVIOUS
<1>0. /\ client[c] = "new" /\ route = "todo" /\ call' = [call EXCEPT ![c]["main"] = n]
      /\ UNCHANGED <<own, pull, evidence, row, held>>
  BY <1>n DEF AcquireRead
<1>1. n \in Calls /\ n.op = "acquire" /\ n.at = "claim" /\ n.cp = NoCp
  <2>1. head \in Sha
    BY <1>i DEF TypeOK
  <2> QED BY <1>n, <2>1, Nulls DEF Request, Calls
<1>2. Handles(c, "main", n)
  BY <1>i, <1>0, <1>1, Kinds, Handled
<1>3. Grounded(n)
  BY <1>1, IdleGrounded DEF Grounded, NoCall, Request
<1>4. client'[c] = "asking"
  BY <1>i DEF AcquireRead, Becomes, TypeOK
<1>5. ~At(c, "main", "move")
  BY <1>i, <1>0 DEF WorkOK, MainOK, At
<1>6. \A d \in Claim \ {c} : Untouched(d)
  BY DEF Outcome
<1> QED BY <1>0, <1>1, <1>2, <1>3, <1>4, <1>5, <1>6, Kinds, GoesOnRunning DEF own, pull

LEMMA WorkBeginsRunning ==
    ASSUME RunInv, LeasesGrow, NEW c \in Claim, Outcome(c),
           \/ StartBegin(c) \/ AdvanceBegin(c) \/ ConfirmBegin(c) \/ HeartbeatBegin(c)
    PROVE  RunOK(c)
<1>i. TypeOK /\ Typed /\ held[c] \in Lease \cup {NoLease}
  BY Opened DEF TypeOK
<1>1. CASE StartBegin(c)
  <2>1. client'[c] = "starting"
    BY <1>i, <1>1 DEF StartBegin, Becomes, TypeOK
  <2> QED BY <1>i, <1>1, <2>1, BeginsRunning DEF StartBegin
<1>2. CASE AdvanceBegin(c)
  <2>1. client'[c] = "working"
    BY <1>2 DEF AdvanceBegin, worker
  <2> QED BY <1>i, <1>2, <2>1, BeginsRunning DEF AdvanceBegin, worker
<1>3. CASE ConfirmBegin(c)
  <2>1. client'[c] = "pushed"
    BY <1>3 DEF ConfirmBegin, worker
  <2> QED BY <1>i, <1>3, <2>1, BeginsRunning DEF ConfirmBegin, worker
<1>4. CASE HeartbeatBegin(c)
  <2>1. client'[c] # "acquired"
    BY <1>4 DEF HeartbeatBegin, worker, Executing
  <2>2. PICK step \in {"refresh", "check"} : Begins(c, "beat", "heartbeat", step, held[c])
    BY <1>4 DEF HeartbeatBegin
  <2> QED BY <1>i, <1>4, <2>1, <2>2, BeginsRunning DEF HeartbeatBegin, worker
<1> QED BY <1>1, <1>2, <1>3, <1>4

LEMMA ConfirmDoneRunning ==
    ASSUME RunInv, LeasesGrow, NEW c \in Claim, Outcome(c), ConfirmDone(c)
    PROVE  RunOK(c)
<1>1. call[c]["main"].at = "check"
  BY DEF ConfirmDone
<1>2. client[c] # "acquired"
  BY <1>1, BusyWorker DEF Idle, At
<1>3. client'[c] # "acquired"
  BY <1>2, Opened DEF ConfirmDone, TypeOK
<1> QED BY <1>1, <1>3, Kinds, EndsRunning DEF ConfirmDone, At

\* Steps that only the worker takes: its heartbeat, if there is one, is where it was.
LEMMA AloneRunning ==
    ASSUME RunInv, LeasesGrow, NEW c \in Claim, Outcome(c),
           \/ \E r \in {"passed", "failed"} : PostResult(c, r)
           \/ WorkerStops(c)
    PROVE  RunOK(c)
<1>i. TypeOK
  BY Opened
<1>n. PICK n : n = call[c]["beat"]
  OBVIOUS
<1>1. Handles(c, "beat", n) /\ Grounded(n)
  <2>1. UNCHANGED call
    BY DEF PostResult, WorkerStops
  <2> QED BY <1>i, <1>n, <2>1, Kinds DEF Handles, TypeOK, RunInv, StartOK
<1>2. UNCHANGED <<own, pull, row, held>>
  BY DEF PostResult, WorkerStops, worker
<1>3. client'[c] # "acquired" \/ client'[c] = client[c]
  BY <1>i DEF PostResult, WorkerStops, Becomes, worker, TypeOK
<1>4. \A d \in Claim \ {c} : Untouched(d)
  BY DEF Outcome
<1> QED BY <1>1, <1>2, <1>3, <1>4, Kinds, GoesOnRunning DEF own, pull

\* The projection key is free, or the recovery ends until the lease runs out.
LEMMA RecoverBoardRunning ==
    ASSUME RunInv, LeasesGrow, NEW c \in Claim, Outcome(c), RecoverBoard(c)
    PROVE  RunOK(c)
<1>0. At(c, "recovery", "board") /\ UNCHANGED <<pull, evidence, row, worker>>
  BY DEF RecoverBoard
<1>1. CASE Ends(c, "recovery") /\ UNCHANGED own
  BY <1>0, <1>1, Kinds, EndsRunning DEF worker, At
<1>2. CASE Obtains(Projection, call[c]["recovery"].lease) /\ Goes(c, "recovery", "refresh")
  BY <1>0, <1>2, Kinds, GoesRunning DEF pull, At
<1> QED BY <1>1, <1>2 DEF RecoverBoard

-----------------------------------------------------------------------------
(* Requests that finish the claim, heartbeats and recoveries that give it up *)

LEMMA DoneRunning ==
    ASSUME RunInv, LeasesGrow, NEW c \in Claim, Outcome(c),
           AdvanceDone(c) \/ DecisionDone(c) \/ RecoverDone(c)
    PROVE  RunOK(c)
<1>i. TypeOK /\ StartOK(c) /\ WorkOK(c)
  BY Opened DEF RInv, RunInv
<1>1. CASE AdvanceDone(c) \/ DecisionDone(c)
  <2>m. PICK m : m = call[c]["main"]
    OBVIOUS
  <2>1. /\ m.op \in {"advance", "decision"} /\ m.at = "done" /\ route = m.to
        /\ HoldsLease(c, m.lease) /\ Finishes(c, m.lease, "done") /\ Ends(c, "main")
        /\ UNCHANGED <<pull, evidence, held>>
        /\ client' = [client EXCEPT ![c] = IF @ = "working" THEN "finished" ELSE @]
    BY <1>1, <2>m DEF AdvanceDone, DecisionDone, Sees
  <2>2. route # "running"
    BY <1>i, <2>m, <2>1, Kinds DEF StartOK, Grounded
  <2>3. client'[c] = "acquired" => client[c] = "acquired"
    BY <1>i, <2>1 DEF TypeOK
  <2> QED BY <2>1, <2>2, <2>3, Kinds, FinishesRunning
<1>2. CASE RecoverDone(c)
  <2>m. PICK m : m = call[c]["recovery"]
    OBVIOUS
  <2>1. /\ m.at = "done" /\ route = m.to
        /\ HoldsLease(c, m.lease) /\ Finishes(c, m.lease, "done") /\ Ends(c, "recovery")
        /\ UNCHANGED <<pull, evidence, worker>>
    BY <1>2, <2>m DEF RecoverDone, Sees, At
  <2>2. m.op = "recovery"
    BY <1>i, <2>m, <2>1 DEF WorkOK, RecoveryHolds
  <2>3. route # "running"
    BY <1>i, <2>m, <2>1, <2>2, Kinds DEF StartOK, Grounded
  <2> QED BY <2>1, <2>3, Kinds, FinishesRunning DEF worker
<1> QED BY <1>1, <1>2

\* A heartbeat gives up no claim that follows HEAD.
LEMMA HeartbeatCheckRunning ==
    ASSUME RunInv, LeasesGrow, NEW c \in Claim, Outcome(c), HeartbeatCheck(c)
    PROVE  RunOK(c)
<1>i. TypeOK /\ WorkOK(c)
  BY Opened DEF RInv
<1>m. PICK m : m = call[c]["beat"]
  OBVIOUS
<1>1. m.at = "check" /\ Ends(c, "beat") /\ UNCHANGED <<pull, evidence, held>>
  BY <1>m DEF HeartbeatCheck, At
<1>2. CASE UNCHANGED <<own, row, client>>
  BY <1>1, <1>2, Kinds, EndsRunning
<1>3. CASE /\ ~Sees(m.sha, {"todo", "running"})
           /\ Finishes(c, m.lease, "superseded")
           /\ client' = [client EXCEPT ![c] = IF @ \in Executing THEN "gone" ELSE @]
  <2>1. client'[c] = "acquired" => client[c] = "acquired"
    BY <1>i, <1>3 DEF TypeOK
  <2>2. CASE ~HoldsLease(c, m.lease)
    <3>1. UNCHANGED <<own, row>>
      BY <1>3, <2>2 DEF Finishes
    <3> QED BY <1>1, <2>1, <3>1, Kinds, EndsRunning
  <2>3. CASE HoldsLease(c, m.lease)
    <3>1. ASSUME route = "running" PROVE ~Standing(c)
      <4>1. head # row[c].sha
        BY <1>i, <1>m, <1>1, <1>3, <2>3, <3>1 DEF WorkOK, BeatOK, Sees
      <4>2. ~Prepared(row[c].cp.pub)
        BY <1>i, <1>m, <1>1, <2>3 DEF WorkOK, BeatOK
      <4>3. ~At(c, "main", "move")
        BY <1>i, <1>m, <1>1 DEF WorkOK, MainOK, Publishing, Idle, At
      <4> QED BY <4>1, <4>2, <4>3 DEF Standing, Follows, Prepared
    <3> QED BY <1>1, <1>3, <2>1, <2>3, <3>1, Kinds, FinishesRunning
  <2> QED BY <2>2, <2>3
<1> QED BY <1>m, <1>2, <1>3 DEF HeartbeatCheck, Sees

\* A recovery gives up no claim whose key is free or its own, that has recorded its start
\* and that follows HEAD.
LEMMA RecoverGivesUpRunning ==
    ASSUME RunInv, LeasesGrow, NEW c \in Claim, Outcome(c),
           \/ RecoverMismatch(c)
           \/ RecoverForeign(c)
           \/ /\ RecoverClaim(c)
              /\ Refused(call[c]["recovery"].sha, call[c]["recovery"].lease)
    PROVE  RunOK(c)
<1>i. IInv /\ TypeOK /\ Typed /\ WorkOK(c)
  BY Opened DEF RInv
<1>m. PICK m : m = call[c]["recovery"]
  OBVIOUS
<1>0. /\ m.at # "idle" /\ Finishes(c, m.lease, "superseded") /\ Ends(c, "recovery")
      /\ UNCHANGED <<pull, evidence, worker>>
  BY <1>m DEF RecoverMismatch, RecoverForeign, RecoverClaim, At
<1>1. HoldsLease(c, m.lease) /\ m.sha = row[c].sha /\ m.cp = row[c].cp
  BY <1>i, <1>m, <1>0 DEF WorkOK, RecoveryHolds
<1>2. ~At(c, "main", "move")
  <2>1. At(c, "main", "move") => HoldsLease(c, call[c]["main"].lease)
    BY <1>i DEF WorkOK, Publishing, Owned, At
  <2> QED BY <1>i, <1>m, <1>0, <1>1, <2>1, OneHolder DEF WorkOK, Idle, At
<1>3. ASSUME route = "running" PROVE ~Standing(c)
  <2>1. CASE RecoverMismatch(c)
    BY <1>m, <1>1, <1>2, <1>3, <2>1 DEF RecoverMismatch, Standing, Follows, Sees
  <2>2. CASE RecoverForeign(c)
    <3>1. Recorded(row[c].cp) => head # row[c].sha
      BY <1>m, <1>1, <1>3, <2>2 DEF RecoverForeign, Foreign, Recorded, Sees, Accepted
    <3>2. Prepared(row[c].cp.pub) => head # row[c].cp.pub.to
      <4>1. m.at = "check" /\ Checked(m)
        BY <1>m, <2>2 DEF RecoverForeign, RunInv, CheckOK
      <4> QED BY <1>1, <4>1 DEF Checked
    <3> QED BY <1>2, <3>1, <3>2 DEF Standing, Follows, Prepared
  <2>3. CASE Refused(m.sha, m.lease)
    BY <1>1, <2>3 DEF Refused, Standing, HoldsLease
  <2> QED BY <1>m, <2>1, <2>2, <2>3
<1> QED BY <1>0, <1>1, <1>3, Kinds, FinishesRunning DEF worker

-----------------------------------------------------------------------------
(* Writes, pushes and report commits: the claim has the key of HEAD *)

LEMMA PutRunning ==
    ASSUME RunInv, LeasesGrow, NEW c \in Claim, NEW kind \in Kind, Outcome(c), Put(c, kind)
    PROVE  RunOK(c)
<1>i. IInv /\ TypeOK /\ Typed /\ WorkOK(c) /\ StartOK(c) /\ FreshOK(c)
  BY Opened DEF RInv, RunInv
<1>m. PICK m : m = call[c][kind]
  OBVIOUS
<1>0. /\ m.at = "put" /\ route' = m.to /\ Goes(c, kind, "done")
      /\ UNCHANGED <<own, head, made, evidence, row, worker>>
  BY <1>m DEF Put, At
<1>1. CASE route' # "running"
  BY <1>0, <1>1, <1>m, GoesRunning DEF worker
<1>2. CASE route' = "running"
  <2>t. m \in Calls /\ m.cp.start # "none" /\ m.op = "start" /\ Grounded(m)
    BY <1>i, <1>m, <1>0, <1>2 DEF StartOK, Grounded, TypeOK
  <2>k. kind = "main"
    BY <1>i, <1>m, <1>0, <2>t, Kinds DEF WorkOK, CallsOK, WriteOK, RecoveryHolds, Kind
  <2>1. /\ Owned(c, m.lease) /\ m.sha = row[c].sha /\ m.sha = head /\ m.cp = row[c].cp
    BY <1>i, <1>m, <1>0, <2>t, <2>k DEF WorkOK, CallsOK, Landing, MainOK, Owned
  <2>2. row' = row
    BY <1>0
  <2>n. PICK n : n = [m EXCEPT !.at = "done"]
    OBVIOUS
  <2>3. Handles(c, kind, n)
    BY <1>i, <1>0, <1>m, <2>n, Went
  <2>4. n.at = "done" /\ n.cp = m.cp /\ n.op = m.op /\ n.to = m.to
    BY <2>t, <2>n DEF Calls
  <2>5. \A k \in Kind : Grounded(call'[c][k])
    BY <1>i, <2>t, <2>3, <2>4, <1>0 DEF Grounded, Handles, StartOK
  <2>6. client[c] # "acquired" /\ client'[c] = client[c] /\ held'[c] = held[c]
    BY <1>0, <1>m, <2>k, BusyWorker DEF Idle, At, worker
  <2>7. call'[c]["main"].at = "done" /\ call'[c]["recovery"] = call[c]["recovery"]
    BY <2>3, <2>4, <2>k, Kinds DEF Handles
  <2>8. StartOK(c)' /\ FreshOK(c)'
    BY <1>i, <2>2, <2>5, <2>6, <2>7, BasisStays DEF StartOK
  <2>9. StandOK'
    BY <2>1, <2>2, <2>t, <1>0, OwnerStands DEF Recorded, Follows, Owned, HoldsLease, own
  <2>10. \A d \in Claim \ {c} : Untouched(d)
    BY DEF Outcome
  <2>11. CheckOK'
    BY <1>0, <2>7, <2>10, ChecksStay
  <2>12. Quiet(c)
    BY <1>0, <2>2, <2>7, <2>10 DEF Quiet, own, At
  <2> QED BY <1>i, <2>8, <2>9, <2>11, <2>12, QuietShrinks DEF RunOK
<1> QED BY <1>1, <1>2

\* The branch moves under no recovery of a claim that declared the commit.
LEMMA PushRunning ==
    ASSUME RunInv, LeasesGrow, NEW c \in Claim, Outcome(c), Push(c)
    PROVE  RunOK(c)
<1>i. IInv /\ TypeOK /\ Typed /\ WorkOK(c) /\ StartOK(c) /\ FreshOK(c)
  BY Opened DEF RInv, RunInv
<1>p. PICK p : p = row[c].cp.pub
  OBVIOUS
<1>0. /\ client[c] = "declared" /\ head' = p.to
      /\ UNCHANGED <<own, route, made, evidence, row, held, call>>
  BY <1>p DEF Push
<1>1. Prepared(p) /\ Owned(c, held[c]) /\ p.from = row[c].sha
  BY <1>i, <1>p, <1>0 DEF WorkOK, Declaring, PubOK
<1>2. client'[c] = "pushed"
  BY <1>i DEF Push, Becomes, TypeOK
<1>3. \A k \in Kind : Grounded(call'[c][k])
  BY <1>i, <1>0 DEF StartOK
<1>4. StartOK(c)' /\ FreshOK(c)'
  <2>1. row'[c] = row[c] /\ held'[c] = held[c] /\ call'[c] = call[c]
    BY <1>0
  <2> QED BY <1>i, <1>2, <1>3, <2>1, BasisStays DEF StartOK
<1>5. StandOK'
  <2>1. Recorded(row[c].cp)
    BY <1>i, <1>p, <1>1 DEF StartOK, AfterStart, Recorded
  <2>2. Follows(c)'
    BY <1>p, <1>0, <1>1 DEF Follows, Prepared
  <2> QED BY <1>0, <1>1, <2>1, <2>2, OwnerStands DEF Owned, HoldsLease, own, Recorded
<1>6. CheckOK'
  <2>1. ASSUME NEW d \in Claim PROVE Checked(call[d]["recovery"])'
    <3>m. PICK m : m = call[d]["recovery"]
      OBVIOUS
    <3>1. SUFFICES ASSUME m.at = "check", Prepared(m.cp.pub) PROVE p.to # m.cp.pub.to
      BY <1>0, <3>m DEF Checked
    <3>2. m.cp = row[d].cp /\ HoldsLease(d, m.lease)
      BY <3>m, <3>1 DEF RunInv, RInv, WorkOK, RecoveryHolds
    <3>3. d # c
      BY <1>i, <1>1, <3>m, <3>1, <3>2, OneHolder DEF WorkOK, Idle, At, Owned
    <3> QED BY <1>i, <1>p, <1>1, <3>1, <3>2, <3>3 DEF WorkOK, PubOK
  <2> QED BY <2>1 DEF CheckOK, Checked
<1>7. Shrinks
  BY <1>0 DEF Shrinks, Loose, own, At
<1> QED BY <1>4, <1>5, <1>6, <1>7 DEF RunOK

LEMMA ReportsCommitRunning ==
    ASSUME RunInv, LeasesGrow, NEW c \in Claim, Outcome(c), NEW to \in Sha, ReportsCommit(c, to)
    PROVE  RunOK(c)
<1>i. IInv /\ TypeOK /\ Typed /\ WorkOK(c) /\ StartOK(c) /\ FreshOK(c)
  BY Opened DEF RInv, RunInv
<1>m. PICK m : m = call[c]["main"]
  OBVIOUS
<1>n. PICK n : n = [m EXCEPT !.at = "move", !.new = to]
  OBVIOUS
<1>0. /\ m.at = "commit" /\ head = m.sha /\ (to = m.sha \/ to \in Sha \ made) /\ head' = to
      /\ call' = [call EXCEPT ![c]["main"] = n]
      /\ UNCHANGED <<own, route, evidence, row, worker>>
  BY <1>m, <1>n DEF ReportsCommit, At
<1>1. /\ m \in Calls /\ Owned(c, m.lease) /\ m.op = "reports" /\ Grounded(m)
      /\ m.sha = row[c].sha /\ m.cp = row[c].cp /\ m.cp.start # "none"
  <2>1. m \in Calls /\ Grounded(m)
    BY <1>i, <1>m, Kinds DEF TypeOK, StartOK
  <2>2. Owned(c, m.lease) /\ m.op = "reports"
    BY <1>i, <1>m, <1>0 DEF WorkOK, MainOK, Publishing
  <2>3. m.sha = row[c].sha /\ m.cp = row[c].cp
    BY <1>i, <1>m, <2>2 DEF WorkOK, MainOK, Owned
  <2> QED BY <2>1, <2>2, <2>3 DEF Grounded
<1>2. n \in Calls /\ n.at = "move" /\ n.new = to /\ n.op = m.op /\ n.cp = m.cp /\ n.sha = m.sha
  BY <1>n, <1>1 DEF Calls
<1>3. Handles(c, "main", n)
  BY <1>i, <1>0, <1>2, Kinds, Handled
<1>4. \A k \in Kind : Grounded(call'[c][k])
  BY <1>i, <1>1, <1>2, <1>3 DEF Grounded, Handles, StartOK
<1>5. client[c] # "acquired" /\ client' = client /\ held' = held
  BY <1>0, <1>m, BusyWorker DEF Idle, At, worker
<1>6. call'[c]["main"] = n /\ call'[c]["recovery"] = call[c]["recovery"] /\ row' = row
      /\ \A d \in Claim \ {c} : call'[d] = call[d]
  BY <1>0, <1>3, Kinds DEF Handles
<1>7. StartOK(c)' /\ FreshOK(c)'
  BY <1>i, <1>2, <1>4, <1>5, <1>6, BasisStays DEF StartOK
<1>8. StandOK'
  <2>1. Follows(c)'
    BY <1>0, <1>1, <1>2, <1>6 DEF Follows, At
  <2> QED BY <1>0, <1>1, <1>6, <2>1, OwnerStands DEF Owned, HoldsLease, own, Recorded
<1>9. CheckOK'
  <2>1. ASSUME NEW d \in Claim PROVE Checked(call[d]["recovery"])'
    <3>r. PICK r : r = call[d]["recovery"] /\ call'[d]["recovery"] = r
      BY <1>6
    <3>1. SUFFICES ASSUME r.at = "check", Prepared(r.cp.pub) PROVE to # r.cp.pub.to
      BY <1>0, <3>r DEF Checked
    <3>2. r.cp = row[d].cp /\ head # r.cp.pub.to
      BY <3>r, <3>1 DEF RunInv, RInv, WorkOK, RecoveryHolds, CheckOK, Checked
    <3>3. r.cp.pub.to \in made
      BY <1>i, <3>1, <3>2, RowDeclared
    <3> QED BY <1>0, <3>2, <3>3
  <2> QED BY <2>1 DEF CheckOK, Checked
<1>10. Shrinks
  BY <1>0, <1>6 DEF Shrinks, Loose, own, At
<1> QED BY <1>7, <1>8, <1>9, <1>10 DEF RunOK

-----------------------------------------------------------------------------
(* Claims that take the key of a commit *)

LEMMA AcquireClaimRunning ==
    ASSUME RunInv, LeasesGrow, NEW c \in Claim, Outcome(c), NEW l \in Lease, AcquireClaim(c, l)
    PROVE  RunOK(c)
<1>i. IInv /\ TypeOK /\ Typed /\ WorkOK(c) /\ StartOK(c) /\ FreshOK(c)
  BY Opened DEF RInv, RunInv
<1>m. PICK m : m = call[c]["main"]
  OBVIOUS
<1>t. m \in Calls /\ m.at = "claim" /\ Grounded(m) /\ m.op = "acquire"
  BY <1>i, <1>m, Kinds DEF TypeOK, StartOK, AcquireClaim, At, WorkOK, MainOK
<1>n. PICK n : n = [m EXCEPT !.at = "recheck", !.lease = l]
  OBVIOUS
<1>1. n \in Calls /\ n.at = "recheck" /\ n.lease = l /\ n.cp = m.cp /\ n.op = m.op
  BY <1>t, <1>n DEF Calls
<1>2. Handles(c, "main", n)
  <2>1. call' = [call EXCEPT ![c]["main"] = n]
    BY <1>i, <1>m, <1>n, Kinds DEF AcquireClaim, TypeOK
  <2> QED BY <1>i, <1>1, <2>1, Kinds, Handled
<1>r. PICK r : r = [status |-> "running", lease |-> l, sha |-> m.sha, cp |-> NoCp]
  OBVIOUS
<1>3. /\ row' = [row EXCEPT ![c] = r] /\ r.status = "running" /\ r.lease = l
      /\ r.sha = m.sha /\ r.cp = NoCp
  BY <1>m, <1>r DEF AcquireClaim
<1>4. /\ row'[c] = r /\ Own!Issue(l) /\ owner'[m.sha] = l /\ UNCHANGED <<pull, evidence, worker>>
  BY <1>i, <1>m, <1>3 DEF AcquireClaim, TypeOK
<1>5. l # NoLease /\ ~Known(l)
  BY <1>i, <1>4, Fresh
<1>6. row[c] = NoRow /\ client[c] # "acquired" /\ NoRow.status = "absent"
  BY <1>i, <1>m, <1>t, BusyWorker DEF IInv, ClaimOK, RowOK, At, Idle, NoRow
<1>7. \A d \in Claim \ {c} : Untouched(d)
  BY DEF Outcome
<1>8. StartOK(c)' /\ FreshOK(c)'
  <2>1. AfterStart(NoCp) /\ ~Recorded(NoCp)
    BY IdleGrounded DEF Grounded, NoCall, Request, Recorded, NoCp
  <2>2. \A k \in Kind : Grounded(call'[c][k])
    BY <1>i, <1>t, <1>1, <1>2 DEF Grounded, Handles, StartOK
  <2>3. client'[c] # "acquired"
    BY <1>4, <1>6 DEF worker
  <2> QED BY <1>3, <1>4, <1>5, <2>1, <2>2, <2>3 DEF StartOK, FreshOK, Recorded, AfterStart
<1>9. Takes(l)
  <2>1. \A k \in Sha : owner'[k] = owner[k] \/ (owner[k] = NoLease /\ owner'[k] = l)
    BY <1>i, <1>4 DEF Own!Issue, TypeOK
  <2> QED BY <1>4, <2>1 DEF Takes, Own!Issue
<1>10. Shrinks
  <2>1. \A d \in Claim : row[d].status = "running" => row[d].lease # NoLease
    BY DEF RunInv, StartOK
  <2> QED BY <1>i, <1>3, <1>4, <1>7, <1>9, <2>1, TakesShrinks
<1>11. StandOK'
  <2> SUFFICES ASSUME route' = "running" PROVE \E w \in Claim : Standing(w)'
    BY DEF StandOK, Standing
  <2>1. PICK w \in Claim : Standing(w)
    BY <1>4 DEF RunInv, StandOK, pull
  <2>2. w # c /\ row'[w] = row[w] /\ call'[w] = call[w]
    BY <1>6, <1>7, <2>1 DEF Standing, Untouched
  <2>3. /\ row[w].status = "running" /\ Recorded(row[w].cp) /\ Follows(w)
        /\ owner[row[w].sha] = row[w].lease
    BY <1>m, <1>t, <2>1 DEF Standing, At
  <2>4. row[w].sha \in Sha /\ row[w].lease # NoLease
    BY <1>i, <2>3, RunningIsBound DEF RunInv, StartOK
  <2>5. owner'[row[w].sha] = row[w].lease
    BY <1>9, <2>3, <2>4 DEF Takes
  <2>6. head' = head
    BY <1>4 DEF pull
  <2> QED BY <2>2, <2>3, <2>5, <2>6 DEF Standing, Follows, At, Recorded
<1>12. CheckOK'
  BY <1>2, <1>4, <1>7, Kinds, ChecksStay DEF Handles, pull
<1> QED BY <1>8, <1>10, <1>11, <1>12 DEF RunOK

\* The one claim that was loose gets its key back, and takes it from no other.
LEMMA RecoverTakesRunning ==
    ASSUME RunInv, LeasesGrow, NEW c \in Claim, Outcome(c), RecoverClaim(c),
           ~Refused(call[c]["recovery"].sha, call[c]["recovery"].lease)
    PROVE  RunOK(c)
<1>i. IInv /\ TypeOK /\ Typed /\ WorkOK(c) /\ StartOK(c) /\ FreshOK(c)
  BY Opened DEF RInv, RunInv
<1>m. PICK m : m = call[c]["recovery"]
  OBVIOUS
<1>0. /\ m.at = "claim" /\ Obtains(m.sha, m.lease) /\ Goes(c, "recovery", "board")
      /\ UNCHANGED <<pull, evidence, row, worker>>
  BY <1>m DEF RecoverClaim, At
<1>1. /\ m \in Calls /\ Grounded(m) /\ HoldsLease(c, m.lease) /\ m.sha = row[c].sha
      /\ m.sha \in Sha /\ m.lease \in Lease
  <2>1. m \in Calls /\ Grounded(m)
    BY <1>i, <1>m, Kinds DEF TypeOK, StartOK
  <2>2. HoldsLease(c, m.lease) /\ m.sha = row[c].sha
    BY <1>i, <1>m, <1>0 DEF WorkOK, RecoveryHolds
  <2> QED BY <1>i, <2>1, <2>2, BoundTo DEF TypeOK
<1>n. PICK n : n = [m EXCEPT !.at = "board"]
  OBVIOUS
<1>2. n.at = "board" /\ n.cp = m.cp /\ n.op = m.op
  BY <1>1, <1>n DEF Calls
<1>3. Handles(c, "recovery", n)
  BY <1>i, <1>m, <1>n, <1>0, Kinds, Went
<1>4. /\ call'[c]["recovery"] = n /\ call'[c]["main"] = call[c]["main"]
      /\ row'[c] = row[c] /\ held'[c] = held[c] /\ client'[c] = client[c] /\ head' = head
  BY <1>0, <1>3, Kinds DEF Handles, worker, pull
<1>5. \A d \in Claim \ {c} : Untouched(d)
  BY DEF Outcome
<1>6. StartOK(c)' /\ FreshOK(c)'
  <2>1. \A k \in Kind : Grounded(call'[c][k])
    BY <1>i, <1>0, <1>1, <1>2, <1>3 DEF Grounded, Handles, StartOK
  <2>2. AfterStart(row'[c].cp)
    BY <1>i, <1>4 DEF StartOK
  <2> QED BY <1>i, <1>4, <2>1, <2>2, BasisStays
<1>7. Takes(m.lease) /\ owner'[m.sha] = m.lease
  BY <1>i, <1>0, <1>1, ObtainsTakes, Obtained
<1>8. \A d \in Claim : row[d].status = "running" => row[d].lease # NoLease
  BY DEF RunInv, StartOK
<1>9. Shrinks
  BY <1>i, <1>1, <1>4, <1>5, <1>7, <1>8, TakesShrinks DEF HoldsLease
<1>10. StandOK'
  <2> SUFFICES ASSUME route' = "running" PROVE \E w \in Claim : Standing(w)'
    BY DEF StandOK, Standing
  <2>1. PICK w \in Claim : Standing(w)
    BY <1>0 DEF RunInv, StandOK, pull
  <2>2. /\ row'[w] = row[w] /\ \A d \in Claim : call'[d]["main"] = call[d]["main"]
    BY <1>4, <1>5 DEF Untouched
  <2>3. CASE w = c
    <3>1. row[c].status = "running" /\ Recorded(row[c].cp) /\ Follows(c)
      BY <2>1, <2>3 DEF Standing
    <3>2. owner'[row'[c].sha] = row'[c].lease
      BY <1>1, <1>4, <1>7 DEF HoldsLease
    <3>3. Follows(c)'
      BY <1>4, <3>1 DEF Follows, At
    <3> QED BY <1>4, <3>1, <3>2, <3>3 DEF Standing, Recorded
  <2>4. CASE w # c
    <3>1. row[w].sha \in Sha /\ row[w].lease # NoLease /\ row[w].status = "running"
      BY <1>i, <1>8, <2>1, RunningIsBound DEF Standing
    <3>2. owner'[row[w].sha] = owner[row[w].sha]
      <4>1. CASE owner[m.sha] = m.lease
        BY <1>0, <4>1 DEF Obtains, own
      <4>2. CASE owner[m.sha] # m.lease
        <5>1. Loose(c)
          BY <1>1, <4>2 DEF Loose, HoldsLease
        <5>2. ~Loose(w)
          BY <2>4, <5>1 DEF RunInv, LooseOK
        <5> QED BY <1>7, <3>1, <5>2 DEF Loose, Takes
      <4> QED BY <4>1, <4>2
    <3> QED BY <1>4, <2>1, <2>2, <3>2 DEF Standing, Follows, At, Recorded
  <2> QED BY <2>3, <2>4
<1>11. CheckOK'
  BY <1>2, <1>4, <1>5, ChecksStay DEF Checked
<1> QED BY <1>6, <1>9, <1>10, <1>11 DEF RunOK

-----------------------------------------------------------------------------
(* A claim that is taken over, a lease that runs out, and what GitHub does *)

\* What a step of a claim leaves of the invariant, once nobody's key was lost on the way.
Steady(c) == StartOK(c)' /\ FreshOK(c)' /\ CheckOK' /\ LooseOK' /\ StandOK'

LEMMA RunSteady ==
    ASSUME RunInv, NEW c \in Claim, RunOK(c)
    PROVE  Steady(c)
BY LooseStays DEF RunInv, RunOK, Steady

\* The lease of the claim ended before, so that it was the loose one, and it stays it.
LEMMA ReclaimRunning ==
    ASSUME RunInv, LeasesGrow, NEW c \in Claim, Outcome(c), NEW l \in Lease, Reclaim(c, l)
    PROVE  Steady(c)
<1>i. IInv /\ TypeOK /\ Typed /\ WorkOK(c) /\ StartOK(c) /\ FreshOK(c)
  BY Opened DEF RInv, RunInv
<1>0. /\ row[c].status = "running" /\ row[c].lease \in ended /\ Own!Issue(l) /\ owner' = owner
      /\ row' = [row EXCEPT ![c].lease = l] /\ Begins(c, "recovery", "recovery", "claim", l)
      /\ UNCHANGED <<pull, evidence, worker>>
  BY DEF Reclaim
<1>1. ~Known(l) /\ l # NoLease
  BY <1>i, <1>0, Fresh
<1>2. /\ row'[c].lease = l /\ row'[c].status = "running" /\ row'[c].sha = row[c].sha
      /\ row'[c].cp = row[c].cp
  BY <1>i, <1>0 DEF TypeOK, Rows
<1>n. PICK n : n = Request("recovery", "claim", l, row[c].sha, row[c].cp)
  OBVIOUS
<1>3. Handles(c, "recovery", n) /\ n.op = "recovery" /\ n.at = "claim" /\ n.cp = row[c].cp
  <2>1. /\ l \in Lease \cup {NoLease} /\ "recovery" \in Kind
        /\ "recovery" \in {"start", "heartbeat", "confirm", "advance", "recovery"}
        /\ "claim" \in {"plan", "refresh", "check", "claim"}
    BY Kinds
  <2> QED BY <1>i, <1>0, <1>n, <2>1, Began
<1>4. /\ call'[c]["recovery"] = n /\ call'[c]["main"] = call[c]["main"]
      /\ held' = held /\ client' = client /\ head' = head /\ route' = route
  BY <1>0, <1>3, Kinds DEF Handles, worker, pull
<1>5. \A d \in Claim \ {c} : Untouched(d)
  BY DEF Outcome
<1>6. Loose(c) /\ row[c].sha \in Sha /\ owner[row[c].sha] \notin {l, row[c].lease}
  <2>1. row[c].sha \in Sha
    BY <1>i, <1>0, RunningIsBound
  <2>2. owner[row[c].sha] \in inForce \cup {NoLease} /\ row[c].lease \notin inForce
    BY <1>0, <2>1 DEF RunInv, OwnersInForce, RInv
  <2>3. row[c].lease # NoLease
    BY <1>i, <1>0 DEF StartOK
  <2> QED BY <1>0, <1>1, <2>1, <2>2, <2>3 DEF Loose, Known
<1>7. StartOK(c)'
  <2>1. \A k \in Kind : Grounded(call'[c][k])
    BY <1>i, <1>3 DEF Grounded, Handles, StartOK
  <2> QED BY <1>i, <1>1, <1>2, <2>1 DEF StartOK, AfterStart, Prepared
<1>8. FreshOK(c)'
  <2>1. held[c] # l /\ call[c]["main"].lease # l
    BY <1>i, <1>1, Kinds DEF IInv, ClaimOK, RowOK, CallOK
  <2>2. client'[c] = "acquired" => Idle(c, "main")'
    BY <1>i, <1>4 DEF FreshOK, Idle, At
  <2>3. \A x : HoldsLease(c, x)' => x = l
    BY <1>2 DEF HoldsLease
  <2> QED BY <1>2, <1>4, <2>1, <2>2 DEF FreshOK, HoldsLease
<1>9. CheckOK'
  BY <1>3, <1>4, <1>5, ChecksStay DEF Checked
<1>10. ASSUME NEW d \in Claim, Loose(d)' PROVE d = c
  <2>1. d # c => Loose(d)
    BY <1>0, <1>5, <1>10 DEF Loose, Untouched
  <2> QED BY <1>6, <2>1 DEF RunInv, LooseOK
<1>11. LooseOK'
  BY <1>3, <1>4, <1>10 DEF LooseOK, At
<1>12. StandOK'
  <2> SUFFICES ASSUME route' = "running" PROVE \E w \in Claim : Standing(w)'
    BY DEF StandOK, Standing
  <2>1. PICK w \in Claim : Standing(w)
    BY <1>4 DEF RunInv, StandOK
  <2>2. /\ row'[w].status = "running" /\ row'[w].sha = row[w].sha /\ row'[w].cp = row[w].cp
        /\ row'[w].lease = IF w = c THEN l ELSE row[w].lease
        /\ \A d \in Claim : call'[d]["main"] = call[d]["main"]
    BY <1>2, <1>4, <1>5, <2>1 DEF Untouched, Standing
  <2>3. Follows(w)' /\ Recorded(row'[w].cp)
    BY <1>4, <2>1, <2>2 DEF Standing, Follows, At
  <2>4. CASE w = c
    <3>1. owner[row[c].sha] = NoLease /\ ~(\E d \in Claim : At(d, "main", "claim"))
      BY <1>6, <2>1, <2>4 DEF Standing
    <3> QED BY <1>0, <2>2, <2>3, <2>4, <3>1 DEF Standing, At, Recorded
  <2>5. CASE w # c
    BY <1>0, <2>1, <2>2, <2>3, <2>5 DEF Standing, At, Recorded
  <2> QED BY <2>4, <2>5
<1> QED BY <1>7, <1>8, <1>9, <1>11, <1>12 DEF Steady

\* What no claim takes part in.
AllSteady == (\A c \in Claim : StartOK(c)' /\ FreshOK(c)') /\ CheckOK' /\ LooseOK' /\ StandOK'

\* Every claim had its key, so that the one whose lease runs out is the only one without.
LEMMA ExpireRunning ==
    ASSUME Attentive, RunInv, LeasesGrow, NEW l \in Lease, Expire(l)
    PROVE  AllSteady
<1>i. IInv /\ TypeOK /\ Typed
  BY Opened
<1>0. /\ Own!End({l}) /\ ~InFlight(l) /\ \A c \in Claim : ~Unattended(c)
      /\ UNCHANGED <<head, route, row, client, held, call>>
  BY DEF Expire, Attentive, Favourable, pull, worker
<1>1. /\ l \in inForce /\ l # NoLease /\ l \in ended'
      /\ \A k \in Sha : owner'[k] = IF owner[k] = l THEN NoLease ELSE owner[k]
  BY <1>i, <1>0, NullAssumption DEF Own!End
<1>2. \A d \in Claim : ~At(d, "main", "claim") /\ Idle(d, "recovery")
  BY <1>0 DEF InFlight
<1>3. ASSUME NEW c \in Claim PROVE ~Loose(c)
  BY <1>0, <1>2 DEF RunInv, LooseOK, Loose, Unattended, Idle, At
<1>4. ASSUME NEW c \in Claim PROVE StartOK(c)' /\ FreshOK(c)'
  BY <1>i, <1>0, BasisElsewhere DEF RunInv, Untouched
<1>5. CheckOK'
  BY <1>0 DEF RunInv, CheckOK, Checked, Prepared
<1>6. ASSUME NEW c \in Claim, Loose(c)' PROVE row[c].status = "running" /\ row[c].lease = l
  <2>1. row[c].status = "running" /\ row[c].sha \in Sha
    BY <1>i, <1>0, <1>6, RunningIsBound DEF Loose
  <2>2. owner[row[c].sha] = row[c].lease
    BY <1>3, <2>1 DEF Loose
  <2> QED BY <1>0, <1>1, <1>6, <2>1, <2>2 DEF Loose
<1>7. LooseOK'
  <2>1. ASSUME NEW c \in Claim, NEW d \in Claim, Loose(c)', Loose(d)' PROVE c = d
    <3>1. l \in Uses(c) /\ l \in Uses(d)
      BY <1>1, <1>6, <2>1 DEF Uses
    <3> QED BY <3>1 DEF RunInv, RInv, WorkOK, LeaseOK
  <2>2. ASSUME NEW c \in Claim, Loose(c)' PROVE row'[c].lease \in ended'
    BY <1>0, <1>1, <1>6, <2>2
  <2> QED BY <2>1, <2>2 DEF LooseOK
<1>8. StandOK'
  <2> SUFFICES ASSUME route' = "running" PROVE \E w \in Claim : Standing(w)'
    BY DEF StandOK, Standing
  <2>1. PICK w \in Claim : Standing(w)
    BY <1>0 DEF RunInv, StandOK
  <2>2. row[w].sha \in Sha
    BY <1>i, <2>1, RunningIsBound DEF Standing
  <2> QED BY <1>0, <1>1, <1>2, <2>1, <2>2 DEF Standing, Follows, At, Recorded
<1> QED BY <1>4, <1>5, <1>7, <1>8 DEF AllSteady

LEMMA CIPassesRunning ==
    ASSUME RunInv, LeasesGrow, CIPasses \/ UNCHANGED vars
    PROVE  AllSteady
<1>1. UNCHANGED <<owner, ended, head, route, row, client, held, call>>
  BY DEF CIPasses, vars, own, pull, worker
<1>2. ASSUME NEW c \in Claim PROVE StartOK(c)' /\ FreshOK(c)'
  BY <1>1, Opened, BasisElsewhere DEF RunInv, Untouched
<1>3. CheckOK' /\ LooseOK'
  BY <1>1 DEF RunInv, CheckOK, Checked, Prepared, LooseOK, Loose, At
<1>4. StandOK'
  BY <1>1 DEF RunInv, StandOK, Standing, Follows, At, Recorded
<1> QED BY <1>2, <1>3, <1>4 DEF AllSteady

-----------------------------------------------------------------------------
(* The whole service *)

\* Only leases in force own keys, since a lease that ends gives up what it owns.
LEMMA OwnersStay ==
    ASSUME Typed, [Own!Next]_own, OwnersInForce
    PROVE  OwnersInForce'
<1> USE DEF OwnersInForce, Typed, TypeOK
<1>1. ASSUME NEW l \in Lease, Own!Issue(l) PROVE OwnersInForce'
  BY <1>1 DEF Own!Issue
<1>2. ASSUME NEW k \in Sha \cup {Projection}, NEW l \in Lease, Own!Take(k, l)
      PROVE  OwnersInForce'
  BY <1>2 DEF Own!Take
<1>3. ASSUME NEW L \in SUBSET Lease, Own!End(L) PROVE OwnersInForce'
  BY <1>3 DEF Own!End
<1>4. CASE UNCHANGED own
  BY <1>4 DEF own
<1> QED BY <1>1, <1>2, <1>3, <1>4 DEF Own!Next

LEMMA WorkerRunning ==
    ASSUME Attentive, RunInv, LeasesGrow, NEW c \in Claim, Outcome(c), Work(c)
    PROVE  RunOK(c)
<1>1. CASE AcquireRead(c)
  BY <1>1, AcquireReadRunning
<1>2. CASE StartBegin(c) \/ AdvanceBegin(c) \/ ConfirmBegin(c) \/ HeartbeatBegin(c)
  BY <1>2, WorkBeginsRunning
<1>3. ASSUME NEW to \in Sha, PrepareHead(c, to) PROVE RunOK(c)
  BY <1>3, PrepareHeadRunning
<1>4. CASE Push(c)
  BY <1>4, PushRunning
<1>5. CASE ReportsBegin(c)
  BY <1>5, ReportsBeginRunning
<1>6. CASE (\E r \in {"passed", "failed"} : PostResult(c, r)) \/ WorkerStops(c)
  BY <1>6, AloneRunning
<1>7. ASSUME NEW to \in Route, Decide(c, to) PROVE RunOK(c)
  BY <1>7, DecideRunning
<1>8. CASE Release(c)
  BY <1>8, ReleaseRunning
<1> QED BY <1>1, <1>2, <1>3, <1>4, <1>5, <1>6, <1>7, <1>8 DEF Work

LEMMA HandlerRunning ==
    ASSUME Attentive, RunInv, LeasesGrow, NEW c \in Claim, NEW kind \in Kind, Outcome(c),
           Step(c, kind) \/ Abort(c, kind)
    PROVE  RunOK(c)
<1>1. CASE WriteVerify(c, kind)
  BY <1>1, WriteVerifyRunning
<1>2. CASE Put(c, kind)
  BY <1>2, PutRunning
<1>3. CASE RefreshHead(c, kind)
  BY <1>3, RefreshHeadRunning
<1>4. ASSUME NEW l \in Lease, AcquireClaim(c, l) PROVE RunOK(c)
  BY <1>4, AcquireClaimRunning
<1>5. CASE AcquireRecheck(c)
  BY <1>5, AcquireRecheckRunning
<1>6. CASE StartPlan(c)
  BY <1>6, StartPlanRunning
<1>7. CASE StartDone(c)
  BY <1>7, StartDoneRunning
<1>8. CASE ConfirmDone(c)
  BY <1>8, ConfirmDoneRunning
<1>9. ASSUME NEW to \in Sha, ReportsCommit(c, to) PROVE RunOK(c)
  BY <1>9, ReportsCommitRunning
<1>10. CASE ReportsMove(c)
  BY <1>10, ReportsKeptRunning, ReportsMovedRunning
<1>11. CASE AdvancePlan(c)
  BY <1>11, AdvancePlanRunning
<1>12. CASE AdvanceDone(c) \/ DecisionDone(c) \/ RecoverDone(c)
  BY <1>12, DoneRunning
<1>13. CASE HeartbeatCheck(c)
  BY <1>13, HeartbeatCheckRunning
<1>14. CASE RecoverClaim(c) \/ RecoverMismatch(c) \/ RecoverForeign(c)
  BY <1>14, RecoverGivesUpRunning, RecoverTakesRunning
<1>15. CASE RecoverBoard(c)
  BY <1>15, RecoverBoardRunning
<1>16. CASE RecoverPlan(c)
  BY <1>16, RecoverPlanRunning
<1>17. CASE Abort(c, kind)
  BY <1>17, AbortRunning
<1> QED BY <1>1, <1>2, <1>3, <1>4, <1>5, <1>6, <1>7, <1>8, <1>9, <1>10, <1>11, <1>12, <1>13,
           <1>14, <1>15, <1>16, <1>17 DEF Step

LEMMA InitRunning == Init => RunInv
<1> SUFFICES ASSUME Init PROVE RunInv
  OBVIOUS
<1> USE NullAssumption DEF Init
<1>1. RInv
  BY InitRoute
<1>2. OwnersInForce
  BY DEF OwnersInForce, Own!Init
<1>3. /\ \A c \in Claim : row[c] = NoRow /\ client[c] = "new"
      /\ \A c \in Claim, kind \in Kind : call[c][kind] = NoCall
  OBVIOUS
<1>4. NoRow.status = "absent" /\ NoRow.cp = NoCp /\ NoCall.at = "idle" /\ NoCall.cp = NoCp
  BY DEF NoRow, NoCall, Request
<1>5. \A c \in Claim : StartOK(c) /\ FreshOK(c)
  <2>1. AfterStart(NoCp)
    BY <1>4, IdleGrounded DEF Grounded
  <2> QED BY <1>3, <1>4, <2>1, IdleGrounded, Kinds DEF StartOK, FreshOK, At
<1>6. CheckOK /\ LooseOK
  BY <1>3, <1>4, Kinds DEF CheckOK, Checked, LooseOK, Loose
<1> QED BY <1>1, <1>2, <1>5, <1>6 DEF RunInv, StandOK

LEMMA NextRunning == Attentive /\ RunInv /\ [Next]_vars => RunInv'
<1> SUFFICES ASSUME Attentive, RunInv, [Next]_vars PROVE RunInv'
  OBVIOUS
<1>1. RInv /\ IInv /\ Typed /\ \A c \in Claim : ClaimOK(c)
  BY Opened DEF IInv
<1>2. [Own!Next]_own
  BY <1>1, OwnStep
<1>r. RInv'
  <2>1. Favourable
    BY DEF Attentive
  <2> QED BY <1>1, <2>1, NextRoute
<1>3. LeasesGrow /\ OwnersInForce'
  <2>1. OwnersInForce
    BY DEF RunInv
  <2> QED BY <1>1, <1>2, <2>1, LeasesStep, OwnersStay
<1>4. ASSUME NEW c \in Claim, Outcome(c), Steady(c) PROVE AllSteady
  <2>1. ASSUME NEW d \in Claim PROVE StartOK(d)' /\ FreshOK(d)'
    <3>1. CASE d = c
      BY <1>4, <3>1 DEF Steady
    <3>2. CASE d # c
      BY <1>1, <1>3, <1>4, <3>2, BasisElsewhere DEF RunInv, Outcome
    <3> QED BY <3>1, <3>2
  <2> QED BY <1>4, <2>1 DEF Steady, AllSteady
<1>5. ASSUME NEW c \in Claim, Work(c) PROVE AllSteady
  <2>1. Outcome(c)
    BY <1>1, <1>3, <1>5, WorkOutcome
  <2> QED BY <1>3, <1>4, <1>5, <2>1, WorkerRunning, RunSteady
<1>6. ASSUME NEW c \in Claim, NEW kind \in Kind, Step(c, kind) \/ Abort(c, kind)
      PROVE  AllSteady
  <2>1. Outcome(c)
    BY <1>1, <1>3, <1>6, HandlerOutcome
  <2> QED BY <1>3, <1>4, <1>6, <2>1, HandlerRunning, RunSteady
<1>7. ASSUME NEW c \in Claim, NEW l \in Lease, Reclaim(c, l) PROVE AllSteady
  <2>1. Outcome(c)
    BY <1>1, <1>3, <1>7, ReclaimOutcome
  <2> QED BY <1>3, <1>4, <1>7, <2>1, ReclaimRunning
<1>8. ASSUME NEW l \in Lease, Expire(l) PROVE AllSteady
  BY <1>3, <1>8, ExpireRunning
<1>9. ASSUME CIPasses \/ UNCHANGED vars PROVE AllSteady
  BY <1>3, <1>9, CIPassesRunning
<1>10. ASSUME NEW to \in Sha, OwnerPush(to) PROVE FALSE
  BY <1>10 DEF Attentive, Favourable, OwnerPush
<1>11. AllSteady
  BY <1>5, <1>6, <1>7, <1>8, <1>9, <1>10 DEF Next
<1> QED BY <1>r, <1>3, <1>11 DEF RunInv, AllSteady

\* A pull request labelled RUNNING always has an unfinished claim with a start or an advance
\* on record that follows its HEAD, however publications, recoveries, acquisitions and
\* expiries interleave: the reconciler will visit it, and act on it.
THEOREM RunningRecoverable == ASSUME Attentive PROVE Spec => []RunningIsRecoverable
<1>1. Init => RunInv
  BY InitRunning
<1>2. RunInv /\ [Next]_vars => RunInv'
  BY NextRunning
<1>3. RunInv => RunningIsRecoverable
  BY DEF RunInv, StandOK, Standing, Recorded, RunningIsRecoverable
<1> QED BY <1>1, <1>2, <1>3, PTL DEF Spec

=============================================================================
