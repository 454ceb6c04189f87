---------------------- MODULE HandoffReconcilerProofs ----------------------
(***************************************************************************)
(* Proofs about the jobs that keep the labels in step with the evidence.   *)
(*                                                                         *)
(* The gates of EvidenceGates look for the newest comments of some kinds;  *)
(* the reference definition Review reads a log from first to last.  That   *)
(* they agree about every log is an induction over its comments, by the    *)
(* least number of comments about which they would not.                    *)
(***************************************************************************)
EXTENDS HandoffReconciler, TLAPS, FiniteSetTheorems, WellFoundedInduction

-----------------------------------------------------------------------------
(* Least and greatest numbers *)

\* Intervals 1..n below a bound are ordered by strict inclusion as their ends are.
LEMMA LeastExists ==
    ASSUME NEW T \in SUBSET Nat, T # {}
    PROVE  \E n \in T : \A m \in T : n <= m
<1>1. PICK k \in T : TRUE
  OBVIOUS
<1> DEFINE S == 1..k
           U == {1..n : n \in {m \in T : m <= k}}
<1>2. PICK x \in U : \A y \in U : <<y, x>> \notin StrictSubsetOrdering(S)
  <2>1. k \in Nat /\ IsFiniteSet(S)
    BY <1>1, FS_Interval
  <2>2. IsWellFoundedOn(StrictSubsetOrdering(S), FiniteSubsetsOf(S))
    BY FS_StrictSubsetOrderingWellFounded
  <2>3. FiniteSubsetsOf(S) = SUBSET S
    BY <2>1, FS_FiniteSubsetsOfFinite
  <2>4. U \subseteq FiniteSubsetsOf(S)
    <3>1. ASSUME NEW n \in T, n <= k
          PROVE  1..n \subseteq S
      BY <2>1, <3>1
    <3> QED
      BY <2>3, <3>1
  <2>5. U # {}
    <3>1. k \in {m \in T : m <= k}
      BY <2>1
    <3> QED
      BY <3>1
  <2> HIDE DEF S, U
  <2> QED
    BY <2>2, <2>4, <2>5, WFMin
<1>3. PICK n \in T : n <= k /\ x = 1..n
  OBVIOUS
<1>4. ASSUME NEW m \in T
      PROVE  n <= m
  <2>1. SUFFICES ASSUME m < n
                 PROVE  FALSE
    OBVIOUS
  <2>2. n \in Nat /\ m \in Nat /\ k \in Nat
    OBVIOUS
  <2>3. 1..m \in U
    BY <1>3, <2>1, <2>2
  <2>4. 1..m \subseteq 1..n /\ 1..n \subseteq 1..k /\ n \in 1..n /\ n \notin 1..m
    BY <1>3, <2>1, <2>2
  <2>5. <<1..m, x>> \in StrictSubsetOrdering(S)
    BY <1>3, <2>4 DEF StrictSubsetOrdering
  <2> QED
    BY <1>2, <2>3, <2>5
<1> QED
  BY <1>4

\* A bounded set of numbers has a greatest one.
LEMMA GreatestExists ==
    ASSUME NEW b \in Nat, NEW T \in SUBSET (1..b), T # {}
    PROVE  \E n \in T : \A m \in T : m <= n
<1> DEFINE U == {b - n : n \in T}
<1>1. U \in SUBSET Nat /\ U # {}
  <2>1. \A n \in T : b - n \in Nat
    OBVIOUS
  <2> QED
    BY <2>1
<1>2. PICK u \in U : \A v \in U : u <= v
  <2> HIDE DEF U
  <2> QED
    BY <1>1, LeastExists
<1>3. PICK n \in T : u = b - n
  OBVIOUS
<1>4. ASSUME NEW m \in T
      PROVE  m <= n
  <2>1. b - n <= b - m
    BY <1>2, <1>3
  <2>2. m \in Int /\ n \in Int
    OBVIOUS
  <2> QED
    BY <2>1, <2>2
<1> QED
  BY <1>4

-----------------------------------------------------------------------------
(* The newest comments of an ordered log *)

LEMMA BeforeIsLess ==
    ASSUME NEW l \in Seq(Comments), Ordered(l), NEW i \in DOMAIN l, NEW j \in DOMAIN l
    PROVE  Before(l, i, j) <=> i < j
<1>1. l[i].at \in Nat /\ l[j].at \in Nat /\ i \in Nat /\ j \in Nat
  <2>1. l[i] \in Comments /\ l[j] \in Comments /\ i \in 1..Len(l) /\ j \in 1..Len(l)
    OBVIOUS
  <2> QED
    BY <2>1 DEF Comments
<1>2. /\ i < j => l[i].at <= l[j].at
      /\ j < i => l[j].at <= l[i].at
  BY DEF Ordered
<1> QED
  BY <1>1, <1>2 DEF Before

LEMMA NewestIsLast ==
    ASSUME NEW l \in Seq(Comments), Ordered(l), NEW S \in SUBSET (DOMAIN l), S # {}
    PROVE  Newest(l, S) \in S /\ \A m \in S : m <= Newest(l, S)
<1>1. PICK n \in S : \A m \in S : m <= n
  <2>1. Len(l) \in Nat /\ DOMAIN l = 1..Len(l)
    OBVIOUS
  <2> QED
    BY <2>1, GreatestExists
<1>2. ASSUME NEW i \in S, NEW j \in S
      PROVE  Before(l, j, i) <=> j < i
  BY <1>2, BeforeIsLess
<1>3. n \in S /\ \A j \in S \ {n} : Before(l, j, n)
  BY <1>1, <1>2
<1>4. Newest(l, S) \in S /\ \A j \in S \ {Newest(l, S)} : Before(l, j, Newest(l, S))
  BY <1>3 DEF Newest
<1> QED
  BY <1>2, <1>4

-----------------------------------------------------------------------------
(* A log read from first to last *)

\* After the first n comments, what the state of the review is, by their places.
Undoing == {"repair", "requeue", "marker"}
Claimed(l, n, sha) ==
    \E i \in 1..n : /\ l[i].kind = "claim" /\ l[i].sha = sha
                    /\ \A k \in i+1..n : ~(l[k].kind \in Undoing /\ l[k].sha = sha)
Passed(l, n, sha) ==
    \E i \in 1..n : /\ l[i].kind = "code_review" /\ l[i].sha = sha /\ l[i].result = "passed"
                    /\ Claimed(l, i - 1, sha)
                    /\ \A k \in i+1..n : ~(/\ l[k].kind \in Undoing \cup {"claim", "code_review"}
                                           /\ l[k].sha = sha)
State(l, n, sha) == [claimed |-> Claimed(l, n, sha), passed |-> Passed(l, n, sha)]

\* One comment more.
Follow(l, s, n, sha) == IF l[n].sha # sha THEN s ELSE Reviewing(s, l[n])

LEMMA ClaimedFollows ==
    ASSUME NEW l \in Seq(Comments), NEW n \in 1..Len(l), NEW sha
    PROVE  Claimed(l, n, sha) <=>
               IF l[n].sha # sha \/ l[n].kind \notin Undoing \cup {"claim"}
               THEN Claimed(l, n - 1, sha) ELSE l[n].kind = "claim"
<1>1. 1..n = (1..n-1) \cup {n} /\ n \in Nat
  OBVIOUS
<1>2. ASSUME NEW i \in 1..n-1
      PROVE  (i+1..n) = (i+1..n-1) \cup {n}
  OBVIOUS
<1>3. (n+1..n) = {}
  OBVIOUS
<1> QED
  BY <1>1, <1>2, <1>3 DEF Claimed, Undoing

LEMMA PassedFollows ==
    ASSUME NEW l \in Seq(Comments), NEW n \in 1..Len(l), NEW sha
    PROVE  Passed(l, n, sha) <=>
               IF l[n].sha # sha \/ l[n].kind \notin Undoing \cup {"claim", "code_review"}
               THEN Passed(l, n - 1, sha)
               ELSE /\ l[n].kind = "code_review" /\ l[n].result = "passed"
                    /\ Claimed(l, n - 1, sha)
<1>1. 1..n = (1..n-1) \cup {n} /\ n \in Nat
  OBVIOUS
<1>2. ASSUME NEW i \in 1..n-1
      PROVE  (i+1..n) = (i+1..n-1) \cup {n}
  OBVIOUS
<1>3. (n+1..n) = {}
  OBVIOUS
<1> QED
  BY <1>1, <1>2, <1>3 DEF Passed, Undoing

LEMMA StateFollows ==
    ASSUME NEW l \in Seq(Comments), NEW n \in 1..Len(l), NEW sha
    PROVE  State(l, n, sha) = Follow(l, State(l, n - 1, sha), n, sha)
<1> DEFINE c == Claimed(l, n, sha)     p == Passed(l, n, sha)
           cc == Claimed(l, n - 1, sha)  pp == Passed(l, n - 1, sha)
<1>1. {c, p, cc, pp} \subseteq BOOLEAN
  BY DEF Claimed, Passed
<1>2. /\ c <=> IF l[n].sha # sha \/ l[n].kind \notin Undoing \cup {"claim"}
               THEN cc ELSE l[n].kind = "claim"
      /\ p <=> IF l[n].sha # sha \/ l[n].kind \notin Undoing \cup {"claim", "code_review"}
               THEN pp ELSE l[n].kind = "code_review" /\ l[n].result = "passed" /\ cc
  BY ClaimedFollows, PassedFollows
<1> HIDE DEF c, p, cc, pp
<1>3. [claimed |-> c, passed |-> p] = Follow(l, [claimed |-> cc, passed |-> pp], n, sha)
  BY <1>1, <1>2 DEF Follow, Reviewing, Unreviewed, Undoing
<1> QED
  BY <1>3 DEF State, c, p, cc, pp

LEMMA StateBegins ==
    ASSUME NEW l, NEW sha
    PROVE  State(l, 0, sha) = Unreviewed
<1>1. 1..0 = {}
  OBVIOUS
<1> QED
  BY <1>1 DEF State, Claimed, Passed, Unreviewed

\* The recursive definition exists, State being one, and there is no other.
LEMMA ReviewIsState ==
    ASSUME NEW l \in Seq(Comments), NEW sha
    PROVE  Review(l, sha) = State(l, Len(l), sha)
<1> DEFINE D == 0..Len(l)
           Is(g) == g = [n \in D |-> IF n = 0 THEN Unreviewed ELSE Follow(l, g[n - 1], n, sha)]
           given == [n \in D |-> State(l, n, sha)]
           after == CHOOSE g : Is(g)
<1>1. Len(l) \in Nat
  OBVIOUS
<1>2. Is(given)
  <2>1. ASSUME NEW n \in D
        PROVE  given[n] = IF n = 0 THEN Unreviewed ELSE Follow(l, given[n - 1], n, sha)
    <3>1. CASE n = 0
      BY <3>1, StateBegins
    <3>2. CASE n # 0
      <4>1. n \in 1..Len(l) /\ n - 1 \in D
        BY <3>2, <1>1
      <4> QED
        BY <3>2, <4>1, StateFollows
    <3> QED
      BY <3>1, <3>2
  <2> QED
    BY <2>1
<1>3. Is(after)
  BY <1>2
<1>4. ASSUME NEW n \in D, after[n] # given[n]
      PROVE  FALSE
  <2> DEFINE T == {m \in D : after[m] # given[m]}
  <2>1. T \in SUBSET Nat /\ T # {}
    <3> HIDE DEF after, given
    <3> QED
      BY <1>1, <1>4
  <2>2. PICK m \in T : \A k \in T : m <= k
    <3> HIDE DEF T
    <3> QED
      BY <2>1, LeastExists
  <2>3. m \in D /\ after[m] # given[m]
    BY <2>2
  <2>4. m # 0
    BY <1>1, <1>2, <1>3, <2>3
  <2>5. m - 1 \in D /\ m - 1 \notin T
    BY <1>1, <2>2, <2>3, <2>4
  <2>6. after[m - 1] = given[m - 1]
    BY <2>5
  <2> QED
    BY <1>2, <1>3, <2>3, <2>4, <2>6
<1>5. Review(l, sha) = after[Len(l)]
  BY DEF Review, Follow
<1> QED
  BY <1>1, <1>4, <1>5

-----------------------------------------------------------------------------
(* The gates *)

LEMMA OfIsOrdered ==
    ASSUME NEW l \in Seq(Comments), Ordered(l), NEW kinds, NEW sha, Of(l, kinds, sha) # {}
    PROVE  LET n == Newest(l, Of(l, kinds, sha))
           IN /\ n \in 1..Len(l) /\ l[n].kind \in kinds /\ l[n].sha = sha
              /\ \A m \in 1..Len(l) : l[m].kind \in kinds /\ l[m].sha = sha => m <= n
<1>1. Of(l, kinds, sha) \in SUBSET (DOMAIN l)
  BY DEF Of
<1>2. DOMAIN l = 1..Len(l)
  OBVIOUS
<1>3. LET n == Newest(l, Of(l, kinds, sha))
      IN n \in Of(l, kinds, sha) /\ \A m \in Of(l, kinds, sha) : m <= n
  BY <1>1, NewestIsLast
<1> QED
  BY <1>2, <1>3 DEF Of

\* A newest review is a review that counts, by the gate and by the places.
LEMMA IndependentIsPassed ==
    ASSUME NEW l \in Seq(Comments), Ordered(l), NEW sha, NEW i \in 1..Len(l),
           l[i].kind = "code_review", l[i].sha = sha,
           \A k \in 1..Len(l) : l[k].kind = "code_review" /\ l[k].sha = sha => k <= i
    PROVE  IndependentReviewPass(l, i, sha) <=> Passed(l, Len(l), sha)
<1> DEFINE claims == Of(l, {"claim"}, sha)
           invalidated == Of(l, {"repair", "requeue", "marker"}, sha)
           c == Newest(l, claims)
<1>1. DOMAIN l = 1..Len(l) /\ Len(l) \in Nat
  OBVIOUS
<1>2. /\ claims = {k \in 1..Len(l) : l[k].kind = "claim" /\ l[k].sha = sha}
      /\ invalidated = {k \in 1..Len(l) : l[k].kind \in Undoing /\ l[k].sha = sha}
  BY <1>1 DEF Of, Undoing
<1>3. ASSUME claims # {}
      PROVE  c \in claims /\ \A k \in claims : k <= c
  BY <1>1, <1>2, <1>3, NewestIsLast
<1>4. ASSUME NEW j \in 1..Len(l), NEW k \in 1..Len(l)
      PROVE  Before(l, j, k) <=> j < k
  BY <1>1, <1>4, BeforeIsLess
<1> HIDE DEF claims, invalidated, c
<1>5. IndependentReviewPass(l, i, sha) <=>
          /\ l[i].result = "passed" /\ claims # {} /\ c < i
          /\ \A k \in invalidated : k < c
  BY <1>2, <1>3, <1>4 DEF IndependentReviewPass, claims, invalidated, c
<1>6. ASSUME IndependentReviewPass(l, i, sha)
      PROVE  Passed(l, Len(l), sha)
  <2>1. /\ l[i].result = "passed" /\ c \in claims /\ c < i
        /\ \A k \in claims : k <= c
        /\ \A k \in invalidated : k < c
    BY <1>3, <1>5, <1>6
  <2>2. Claimed(l, i - 1, sha)
    <3>1. c \in 1..i-1 /\ l[c].kind = "claim" /\ l[c].sha = sha
      BY <1>1, <1>2, <2>1
    <3>2. ASSUME NEW k \in c+1..i-1
          PROVE  ~(l[k].kind \in Undoing /\ l[k].sha = sha)
      BY <1>1, <1>2, <2>1, <3>1
    <3> QED
      BY <3>1, <3>2 DEF Claimed
  <2>3. ASSUME NEW k \in i+1..Len(l)
        PROVE  ~(l[k].kind \in Undoing \cup {"claim", "code_review"} /\ l[k].sha = sha)
    <3>1. k \in 1..Len(l) /\ k > i /\ i \in Nat /\ k \in Nat
      BY <1>1
    <3>2. c \in 1..Len(l)
      BY <1>2, <2>1
    <3> QED
      BY <1>2, <2>1, <3>1, <3>2
  <2> QED
    BY <1>1, <2>1, <2>2, <2>3 DEF Passed
<1>7. ASSUME Passed(l, Len(l), sha)
      PROVE  IndependentReviewPass(l, i, sha)
  <2>1. PICK j \in 1..Len(l) :
            /\ l[j].kind = "code_review" /\ l[j].sha = sha /\ l[j].result = "passed"
            /\ Claimed(l, j - 1, sha)
            /\ \A k \in j+1..Len(l) : ~(/\ l[k].kind \in Undoing \cup {"claim", "code_review"}
                                        /\ l[k].sha = sha)
    BY <1>7 DEF Passed
  <2>2. j = i
    <3>1. j <= i
      BY <2>1
    <3>2. i \notin j+1..Len(l)
      BY <2>1
    <3> QED
      BY <1>1, <3>1, <3>2
  <2>3. PICK d \in 1..i-1 : /\ l[d].kind = "claim" /\ l[d].sha = sha
                            /\ \A k \in d+1..i-1 : ~(l[k].kind \in Undoing /\ l[k].sha = sha)
    BY <2>1, <2>2 DEF Claimed
  <2>4. d \in claims /\ c \in claims /\ d <= c
    BY <1>1, <1>2, <1>3, <2>3
  <2>5. c < i
    <3>1. c \in 1..Len(l) /\ l[c].kind = "claim" /\ l[c].sha = sha
      BY <1>2, <2>4
    <3>2. c \notin i+1..Len(l) /\ c # i
      BY <2>1, <2>2, <3>1
    <3> QED
      BY <1>1, <3>1, <3>2
  <2>6. ASSUME NEW k \in invalidated
        PROVE  k < c
    <3>1. k \in 1..Len(l) /\ l[k].kind \in Undoing /\ l[k].sha = sha
      BY <1>2
    <3>2. k \notin i+1..Len(l) /\ k # i /\ k \notin d+1..i-1 /\ k # d
      BY <2>1, <2>2, <2>3, <3>1 DEF Undoing
    <3>3. k < d
      BY <1>1, <3>1, <3>2, <2>3
    <3>4. c \in Nat /\ d \in Nat /\ k \in Nat
      BY <1>1, <1>2, <2>4, <3>1
    <3> QED
      BY <2>4, <3>3, <3>4
  <2> QED
    BY <1>5, <2>1, <2>2, <2>4, <2>5, <2>6
<1> QED
  BY <1>6, <1>7

LEMMA GateIsHistory ==
    ASSUME NEW l \in Seq(Comments), Ordered(l), NEW sha
    PROVE  ReviewPassed(l, sha) <=> Review(l, sha).passed
<1> DEFINE reviews == Of(l, {"code_review"}, sha)
<1>1. Review(l, sha).passed <=> Passed(l, Len(l), sha)
  BY ReviewIsState DEF State
<1>2. CASE reviews = {}
  <2>1. ~Passed(l, Len(l), sha)
    BY <1>2 DEF Of, Passed
  <2> QED
    BY <1>1, <1>2, <2>1 DEF ReviewPassed
<1>3. CASE reviews # {}
  <2> DEFINE n == Newest(l, reviews)
  <2>1. /\ n \in 1..Len(l) /\ l[n].kind = "code_review" /\ l[n].sha = sha
        /\ \A m \in 1..Len(l) : l[m].kind = "code_review" /\ l[m].sha = sha => m <= n
    BY <1>3, OfIsOrdered
  <2> HIDE DEF n
  <2>2. IndependentReviewPass(l, n, sha) <=> Passed(l, Len(l), sha)
    BY <2>1, IndependentIsPassed
  <2> QED
    BY <1>1, <1>3, <2>2 DEF ReviewPassed, n
<1> QED
  BY <1>2, <1>3

\* The gate of QA asks for the foremost review, which is the newest of the commit.
LEMMA QAGateIsHistory ==
    ASSUME NEW l \in Seq(Comments), Ordered(l), NEW sha, NEW green
    PROVE  ValidateQAEvidence(l, green, sha) <=> Review(l, sha).passed /\ sha \in green
<1> DEFINE reviews == Of(l, {"code_review"}, sha)
           n == Newest(l, reviews)
<1>1. ASSUME ReviewPassed(l, sha)
      PROVE  ValidateHandoff(l, "code_review", sha)
  <2>1. reviews # {} /\ l[n].result = "passed"
    BY <1>1 DEF ReviewPassed, IndependentReviewPass
  <2>2. n \in 1..Len(l) /\ l[n].kind = "code_review" /\ l[n].sha = sha
    BY <2>1, OfIsOrdered
  <2>3. Foremost(l, {"code_review"}, sha) = n
    BY <2>1 DEF Foremost
  <2> QED
    BY <2>1, <2>2, <2>3 DEF ValidateHandoff, Succeeds
<1> QED
  BY <1>1, GateIsHistory DEF ValidateQAEvidence, SuccessfulCurrentCi

-----------------------------------------------------------------------------
(* The decisions *)

\* What a decision must have had in the comments it read, and leave in the labels.
Earned(after, l, sha) ==
    /\ QAReady \subseteq after => ReviewPassed(l, sha)
    /\ OwnerWait(after) => ReviewPassed(l, sha) /\ OwnerWaitEvidence(l, sha)
Keeps(read, after) ==
    /\ read \cap Blockers \subseteq after
    /\ read \cap Blockers # {} /\ "status:blocked" \in read => "status:blocked" \in after
    /\ OwnerWait(read) => OwnerWait(after)

\* The foremost handoff, if it names the commit, is the newest that does.
LEMMA ForemostOfSha ==
    ASSUME NEW l \in Seq(Comments), Ordered(l), NEW kinds, NEW sha,
           \E k \in DOMAIN l : l[k].kind \in kinds,
           l[Foremost(l, kinds, sha)].sha = sha
    PROVE  LET i == Foremost(l, kinds, sha)
           IN /\ i \in 1..Len(l) /\ l[i].kind \in kinds
              /\ \A m \in 1..Len(l) : l[m].kind \in kinds /\ l[m].sha = sha => m <= i
<1> DEFINE all == {k \in DOMAIN l : l[k].kind \in kinds}
<1>1. Of(l, kinds, sha) # {}
  <2>1. SUFFICES ASSUME Of(l, kinds, sha) = {}
                 PROVE  FALSE
    OBVIOUS
  <2>2. Foremost(l, kinds, sha) = Newest(l, all)
    BY <2>1 DEF Foremost
  <2>3. all \in SUBSET (DOMAIN l) /\ all # {}
    OBVIOUS
  <2> HIDE DEF all
  <2>4. Newest(l, all) \in all
    BY <2>3, NewestIsLast
  <2> QED
    BY <2>1, <2>2, <2>4 DEF all, Of
<1>2. Foremost(l, kinds, sha) = Newest(l, Of(l, kinds, sha))
  BY <1>1 DEF Foremost
<1> QED
  BY <1>1, <1>2, OfIsOrdered

LEMMA FollowsEarned ==
    ASSUME NEW read, NEW l \in Seq(Comments), Ordered(l), NEW green, NEW sha,
           NEW d, read \cap Waiting = {},
           \E k \in DOMAIN l : l[k].kind \in {"implementation", "code_review"},
           d = Follows(read, l, green, sha, Foremost(l, {"implementation", "code_review"}, sha)),
           d.action \notin {"noop", "ensure_qa_dispatch"}
    PROVE  Earned(d.after, l, sha) /\ Keeps(read, d.after)
<1> DEFINE kinds == {"implementation", "code_review"}
           i == Foremost(l, kinds, sha)
           review == l[i].kind # "implementation"
           phase == IF review THEN "phase:qa" ELSE "phase:code-review"
           target == IF review THEN {"agent:workbuddy", "phase:qa"}
                     ELSE {"agent:workreview", "phase:code-review"}
           status == IF target \cup {"status:running"} \subseteq read
                        /\ "status:blocked" \notin read
                     THEN "status:running" ELSE "status:todo"
           after == (read \ (STATE_LABELS \cup Resolved(read, phase))) \cup (target \cup {status})
<1>1. /\ l[i].sha = sha /\ Unblockable(read, phase)
      /\ l[i].kind = "code_review" => IndependentReviewPass(l, i, sha)
      /\ d.after = after
  BY DEF Follows, Noop, Decides
<1>2. /\ i \in 1..Len(l) /\ l[i].kind \in kinds
      /\ \A m \in 1..Len(l) : l[m].kind \in kinds /\ l[m].sha = sha => m <= i
  BY <1>1, ForemostOfSha
<1> HIDE DEF i
<1>3. ASSUME review
      PROVE  ReviewPassed(l, sha)
  <2>1. l[i].kind = "code_review" /\ IndependentReviewPass(l, i, sha)
    BY <1>1, <1>2, <1>3
  <2>2. \A m \in 1..Len(l) : l[m].kind = "code_review" /\ l[m].sha = sha => m <= i
    BY <1>2
  <2>3. Passed(l, Len(l), sha)
    BY <1>1, <1>2, <2>1, <2>2, IndependentIsPassed
  <2> QED
    BY <2>3, ReviewIsState, GateIsHistory DEF State
<1>4. "phase:qa" \in after => review
  BY DEF STATE_LABELS
<1>5. ~OwnerWait(after)
  BY DEF OwnerWait, Waiting
<1>6. Keeps(read, after)
  BY <1>1 DEF Keeps, Unblockable, Resolved, OwnerWait, Waiting, Blockers, STATE_LABELS
<1> HIDE DEF review, after
<1> QED
  BY <1>1, <1>3, <1>4, <1>5, <1>6 DEF Earned, QAReady, Route

LEMMA ReconciliationEarned ==
    ASSUME NEW read, NEW l \in Seq(Comments), Ordered(l), NEW green, NEW sha,
           NEW d, d = DecideReconciliation(read, l, green, sha),
           d.action \notin {"noop", "ensure_qa_dispatch"}
    PROVE  Earned(d.after, l, sha) /\ Keeps(read, d.after)
<1> DEFINE relevant == {"implementation", "code_review"}
           accepted == SuccessfulCurrentCi(green, sha) /\ OwnerWaitEvidence(l, sha)
           requeue == RequeuePostQA(read, l, sha)
<1>1. CASE accepted /\ ReviewPassed(l, sha)
  <2>1. d = ConvergeOwnerWait(read)
    BY <1>1 DEF DecideReconciliation
  <2>2. "status:blocked" \notin read /\ d.after = (read \ STATE_LABELS) \cup Waiting
    BY <2>1 DEF ConvergeOwnerWait, Noop, Decides
  <2> QED
    BY <1>1, <2>2 DEF Earned, Keeps, OwnerWait, Waiting, Blockers, STATE_LABELS
<1>2. CASE /\ ~(accepted /\ ReviewPassed(l, sha)) /\ accepted /\ FinalReviewDue(read)
           /\ requeue.after # read \/ requeue.marker
  <2>1. d = requeue
    BY <1>2 DEF DecideReconciliation
  <2>2. d.after = (read \ STATE_LABELS) \cup ReviewReady
    BY <2>1 DEF RequeuePostQA
  <2>3. read \cap Waiting = {} /\ "status:blocked" \notin read
    BY <1>2 DEF FinalReviewDue
  <2>4. "phase:qa" \notin d.after
    BY <2>2 DEF STATE_LABELS, ReviewReady, Route
  <2> QED
    BY <2>2, <2>3, <2>4 DEF Earned, Keeps, OwnerWait, Waiting, Blockers, STATE_LABELS, QAReady,
                            ReviewReady, Route
<1>3. CASE /\ ~(accepted /\ ReviewPassed(l, sha))
           /\ ~(accepted /\ FinalReviewDue(read) /\ (requeue.after # read \/ requeue.marker))
  <2>1. /\ read \cap Waiting = {} /\ \E k \in DOMAIN l : l[k].kind \in relevant
        /\ d = Follows(read, l, green, sha, Foremost(l, relevant, sha))
    BY <1>3 DEF DecideReconciliation, Noop
  <2> QED
    BY <2>1, FollowsEarned
<1> QED
  BY <1>1, <1>2, <1>3

LEMMA WatchdogEarned ==
    ASSUME NEW read, NEW l, NEW green, NEW sha, NEW conflict, NEW late, NEW d,
           \/ d = DecideReclaim(read, l, green, sha, late)
           \/ d = DecideRepairRecovery(read, l, green, sha, conflict, late),
           d.action # "noop"
    PROVE  Earned(d.after, l, sha)
<1>1. CASE d = DecideReclaim(read, l, green, sha, late)
  <2>1. /\ Exactly(read, "agent:workreview", "phase:code-review", {"status:running"})
        /\ d.after = (read \ {"status:running"}) \cup {"status:todo"}
    BY <1>1 DEF DecideReclaim, Noop, Decides
  <2>2. "phase:qa" \notin d.after /\ ~OwnerWait(d.after)
    BY <2>1 DEF Exactly, Route, STATE_LABELS, Waiting, OwnerWait
  <2> QED
    BY <2>2 DEF Earned, QAReady, Route
<1>2. CASE d = DecideRepairRecovery(read, l, green, sha, conflict, late)
  <2>1. /\ \E s \in {"status:todo", "status:running", "status:blocked"} :
               read \cap (STATE_LABELS \cup Waiting)
                   = Route("agent:workreview", "phase:escalation-repair", s)
        /\ d.after \subseteq read \cup {"status:blocked", "recovery:repair-ci"} \cup ReviewReady
    BY <1>2 DEF DecideRepairRecovery, Exactly, Noop, Decides
  <2>2. "phase:qa" \notin d.after /\ ~OwnerWait(d.after)
    BY <2>1 DEF Route, STATE_LABELS, Waiting, OwnerWait, ReviewReady
  <2> QED
    BY <2>2 DEF Earned, QAReady, Route
<1> QED
  BY <1>1, <1>2

LEMMA DecisionsTyped ==
    ASSUME NEW read \in SUBSET Label, NEW l, NEW green, NEW sha, NEW conflict, NEW late, NEW d,
           \/ d = DecideReconciliation(read, l, green, sha)
           \/ d = DecideReclaim(read, l, green, sha, late)
           \/ d = DecideRepairRecovery(read, l, green, sha, conflict, late)
    PROVE  d \in Decision
<1>1. Noop \in Decision
  BY DEF Decision, Noop
<1>2. RequeuePostQA(read, l, sha) \in Decision
  BY DEF Decision, RequeuePostQA, Marked, Label, STATE_LABELS, ReviewReady, Route
<1>3. ConvergeOwnerWait(read) \in Decision
  BY <1>1 DEF ConvergeOwnerWait, Decides, Decision, Label
<1>4. ASSUME NEW i
      PROVE  Follows(read, l, green, sha, i) \in Decision
  BY <1>1 DEF Follows, Decides, Decision, Label, STATE_LABELS
<1>5. DecideReclaim(read, l, green, sha, late) \in Decision
  BY <1>1 DEF DecideReclaim, Decides, Decision, Label, STATE_LABELS
<1>6. DecideRepairRecovery(read, l, green, sha, conflict, late) \in Decision
  BY <1>1 DEF DecideRepairRecovery, Decides, Decision, Label, STATE_LABELS, ReviewReady, Route
<1> QED
  BY <1>1, <1>2, <1>3, <1>4, <1>5, <1>6 DEF DecideReconciliation

-----------------------------------------------------------------------------
(* The invariant *)

\* What a job is about to write was earned by the comments it read.
Deciding(j) ==
    /\ job[j].at \in {"check", "mark", "put"} /\ job[j].decision.action # "ensure_qa_dispatch" =>
           /\ Earned(job[j].decision.after, Seen(j), job[j].sha)
           /\ j = "reconciler" => Keeps(job[j].labels, job[j].decision.after)
    /\ job[j].at = "put" => job[j].decision.action # "ensure_qa_dispatch"
    /\ job[j].at = "note" => job[j].sha \in sent
JInv == TypeOK /\ \A j \in Job : Deciding(j)

\* A log only grows, so that what was read of it stays.
Grows == log' = log \/ \E c \in Comments : log' = Append(log, c) /\ At(log) <= c.at

LEMMA AtTyped == TypeOK => At(log) \in Nat
<1> SUFFICES ASSUME TypeOK
             PROVE  At(log) \in Nat
  OBVIOUS
<1>1. CASE log = <<>>
  BY <1>1 DEF At
<1>2. CASE log # <<>>
  <2>1. log[Len(log)] \in Comments
    BY <1>2 DEF TypeOK
  <2> QED
    BY <1>2, <2>1 DEF At, Comments
<1> QED
  BY <1>1, <1>2

LEMMA GrowsTyped ==
    ASSUME TypeOK, Grows
    PROVE  /\ log' \in Seq(Comments) /\ Ordered(log') /\ Len(log) <= Len(log')
           /\ \A n \in 0..Len(log) : SubSeq(log', 1, n) = SubSeq(log, 1, n)
<1>1. log \in Seq(Comments) /\ Ordered(log)
  BY DEF TypeOK
<1>2. CASE log' = log
  BY <1>1, <1>2
<1>3. ASSUME NEW c \in Comments, log' = Append(log, c), At(log) <= c.at
      PROVE  /\ log' \in Seq(Comments) /\ Ordered(log') /\ Len(log) <= Len(log')
             /\ \A n \in 0..Len(log) : SubSeq(log', 1, n) = SubSeq(log, 1, n)
  <2>1. /\ log' \in Seq(Comments) /\ Len(log') = Len(log) + 1 /\ Len(log) \in Nat
        /\ \A n \in 1..Len(log) : log'[n] = log[n]
        /\ log'[Len(log) + 1] = c
    BY <1>1, <1>3
  <2>2. ASSUME NEW i \in 1..Len(log)
        PROVE  log[i].at <= c.at
    <3>1. log # <<>> /\ Len(log) \in 1..Len(log)
      BY <1>1, <2>1
    <3>2. At(log) = log[Len(log)].at
      BY <3>1 DEF At
    <3>3. log[i] \in Comments /\ log[Len(log)] \in Comments
      BY <1>1, <3>1
    <3>4. log[i].at \in Nat /\ log[Len(log)].at \in Nat /\ c.at \in Nat
      BY <3>3 DEF Comments
    <3>5. log[i].at <= log[Len(log)].at
      BY <1>1, <2>1, <3>1, <3>4 DEF Ordered
    <3> QED
      BY <1>3, <3>2, <3>4, <3>5
  <2>3. Ordered(log')
    <3>1. ASSUME NEW i \in DOMAIN log', NEW k \in DOMAIN log', i < k
          PROVE  log'[i].at <= log'[k].at
      <4>1. DOMAIN log' = 1..Len(log) + 1 /\ i \in 1..Len(log)
        BY <2>1, <3>1
      <4>2. CASE k \in 1..Len(log)
        BY <1>1, <2>1, <3>1, <4>1, <4>2 DEF Ordered
      <4>3. CASE k = Len(log) + 1
        BY <2>1, <2>2, <4>1, <4>3
      <4> QED
        BY <2>1, <4>1, <4>2, <4>3
    <3> QED
      BY <3>1 DEF Ordered
  <2>4. ASSUME NEW n \in 0..Len(log)
        PROVE  SubSeq(log', 1, n) = SubSeq(log, 1, n)
    BY <1>1, <2>1
  <2> QED
    BY <2>1, <2>3, <2>4
<1> QED
  BY <1>2, <1>3 DEF Grows

LEMMA SeenTyped ==
    ASSUME TypeOK, NEW j \in Job
    PROVE  Seen(j) \in Seq(Comments) /\ Ordered(Seen(j)) /\ Len(Seen(j)) = job[j].seen
           /\ \A n \in 1..job[j].seen : Seen(j)[n] = log[n]
<1>1. log \in Seq(Comments) /\ Ordered(log) /\ job[j].seen \in 0..Len(log)
  BY DEF TypeOK
<1>2. /\ Seen(j) \in Seq(Comments) /\ Len(Seen(j)) = job[j].seen
      /\ \A n \in 1..job[j].seen : Seen(j)[n] = log[n]
  BY <1>1 DEF Seen
<1>3. Ordered(Seen(j))
  <2>1. DOMAIN Seen(j) = 1..job[j].seen /\ 1..job[j].seen \subseteq DOMAIN log
    BY <1>1, <1>2
  <2> QED
    BY <1>1, <1>2, <2>1 DEF Ordered
<1> QED
  BY <1>2, <1>3

-----------------------------------------------------------------------------
(* Steps *)

LEMMA InitTyped == Init => JInv
<1> SUFFICES ASSUME Init
             PROVE  JInv
  OBVIOUS
<1>1. NoJob \in [at : {"idle"}, sha : Sha, labels : SUBSET Label, dirty : BOOLEAN,
                 seen : {0}, decision : Decision]
  BY ShaAssumption DEF NoJob, Noop, Decision
<1>2. PICK start \in Starts : head = start.head /\ log = start.log /\ labels = start.labels
  BY DEF Init
<1>3. head \in Sha /\ labels \subseteq Label /\ log \in Seq(Comments) /\ Ordered(log)
  BY <1>2, StartsAssumption
<1>4. job = [j \in Job |-> NoJob]
  BY DEF Init
<1>5. TypeOK
  <2>1. /\ job \in [Job -> [at : {"idle", "ci", "check", "mark", "put", "dispatch", "note"},
                          sha : Sha, labels : SUBSET Label, dirty : BOOLEAN, seen : Nat,
                          decision : Decision]]
        /\ \A j \in Job : job[j].seen <= Len(log)
    BY <1>1, <1>3, <1>4
  <2>2. ci \subseteq Sha /\ dirty \in BOOLEAN /\ moves \in 0..MaxMoves /\ fails \in 0..MaxFails
    <3>1. ci \subseteq {head} /\ dirty = FALSE /\ moves = 0 /\ fails = 0
      BY DEF Init
    <3>2. dirty \in BOOLEAN
      BY <3>1
    <3>3. ci \subseteq Sha /\ moves \in 0..MaxMoves /\ fails \in 0..MaxFails
      BY <1>3, <3>1, BoundsAssumption
    <3> QED
      BY <3>2, <3>3
  <2> QED
    BY <1>3, <2>1, <2>2 DEF Init, TypeOK
<1>6. \A j \in Job : Deciding(j)
  BY <1>4 DEF Deciding, NoJob
<1> QED
  BY <1>5, <1>6 DEF JInv

\* A step of the environment, and Mark, leave what a job has decided.
LEMMA DecidingStays ==
    ASSUME TypeOK, Grows, NEW j \in Job, Deciding(j), job'[j] = job[j], sent \subseteq sent'
    PROVE  Deciding(j)'
<1>1. job[j].seen \in 0..Len(log)
  BY DEF TypeOK
<1>2. Seen(j)' = Seen(j)
  BY <1>1, GrowsTyped DEF Seen
<1> QED
  BY <1>2 DEF Deciding

LEMMA EnvironmentKeeps ==
    ASSUME JInv, Post \/ Ci \/ Push \/ Relabel
    PROVE  JInv'
<1>1. TypeOK /\ UNCHANGED <<job, sent, noted, fails>> /\ moves' \in 0..MaxMoves
  BY BoundsAssumption DEF JInv, TypeOK, Post, Ci, Push, Relabel, Moves
<1>2. Grows
  <2>1. CASE Post
    <3>1. PICK what \in Posted, sha \in {head, Base}, gap \in Gaps :
              log' = Append(log, Comment(what.kind, what.result, sha, At(log) + gap))
      BY <2>1 DEF Post
    <3>2. At(log) \in Nat
      BY <1>1, AtTyped
    <3>3. /\ Comment(what.kind, what.result, sha, At(log) + gap) \in Comments
          /\ At(log) <= Comment(what.kind, what.result, sha, At(log) + gap).at
      BY <1>1, <3>2, StartsAssumption, ShaAssumption, BoundsAssumption
         DEF Comment, Comments, TypeOK
    <3> QED
      BY <3>1, <3>3 DEF Grows
  <2> QED
    BY <2>1 DEF Ci, Push, Relabel, Grows
<1>3. head' \in Sha /\ ci' \subseteq Sha /\ dirty' \in BOOLEAN
  BY <1>1, ShaAssumption DEF TypeOK, Post, Ci, Push, Relabel
<1>4. labels' \subseteq Label
  BY <1>1 DEF TypeOK, Post, Ci, Push, Relabel, Label, STATE_LABELS
<1>5. TypeOK'
  <2>1. \A j \in Job : job'[j].seen <= Len(log')
    BY <1>1, <1>2, GrowsTyped DEF TypeOK
  <2> QED
    BY <1>1, <1>2, <1>3, <1>4, <2>1, GrowsTyped DEF TypeOK
<1>6. ASSUME NEW j \in Job
      PROVE  Deciding(j)'
  BY <1>1, <1>2, DecidingStays DEF JInv
<1> QED
  BY <1>5, <1>6 DEF JInv

\* A job that takes a step to a well-formed run, and leaves the labels and what was sent
\* within their types; the other job keeps what it decided.
LEMMA JobKeeps ==
    ASSUME JInv, NEW j \in Job, NEW run, job' = [job EXCEPT ![j] = run], Grows,
           run \in [at : {"idle", "ci", "check", "mark", "put", "dispatch", "note"},
                    sha : Sha, labels : SUBSET Label, dirty : BOOLEAN, seen : 0..Len(log),
                    decision : Decision],
           UNCHANGED <<head, ci, dirty, moves>>, labels' \subseteq Label,
           sent \subseteq sent', sent' \subseteq Sha, noted' \subseteq sent',
           fails' \in 0..MaxFails, Deciding(j)'
    PROVE  JInv'
<1>1. /\ job' \in [Job -> [at : {"idle", "ci", "check", "mark", "put", "dispatch", "note"},
                           sha : Sha, labels : SUBSET Label, dirty : BOOLEAN, seen : Nat,
                           decision : Decision]]
      /\ job'[j] = run /\ \A k \in Job \ {j} : job'[k] = job[k]
  BY DEF JInv, TypeOK
<1>2. \A k \in Job : job'[k].seen <= Len(log')
  BY <1>1, GrowsTyped DEF JInv, TypeOK
<1>3. TypeOK'
  BY <1>1, <1>2, GrowsTyped DEF JInv, TypeOK
<1>4. ASSUME NEW k \in Job
      PROVE  Deciding(k)'
  BY <1>1, DecidingStays DEF JInv
<1> QED
  BY <1>3, <1>4 DEF JInv

\* A run of a job that goes on at another step.
LEMMA RunTyped ==
    ASSUME TypeOK, NEW j \in Job
    PROVE  /\ job[j] \in [at : {"idle", "ci", "check", "mark", "put", "dispatch", "note"},
                          sha : Sha, labels : SUBSET Label, dirty : BOOLEAN,
                          seen : 0..Len(log), decision : Decision]
           /\ NoJob \in [at : {"idle"}, sha : Sha, labels : SUBSET Label, dirty : BOOLEAN,
                         seen : 0..Len(log), decision : Decision]
<1>1. job[j].seen \in 0..Len(log)
  BY DEF TypeOK
<1>2. Noop \in Decision
  BY DEF Noop, Decision
<1> QED
  BY <1>1, <1>2, ShaAssumption DEF TypeOK, NoJob

LEMMA ReadKeeps ==
    ASSUME JInv, NEW j \in Job, Read(j)
    PROVE  JInv'
<1> DEFINE run == [at |-> "ci", sha |-> head, labels |-> labels, dirty |-> dirty,
                   seen |-> Len(log), decision |-> Noop]
<1>1. job' = [job EXCEPT ![j] = run] /\ UNCHANGED <<github, sent, noted, fails>>
  BY DEF Read, Sets
<1>2. run \in [at : {"ci"}, sha : Sha, labels : SUBSET Label, dirty : BOOLEAN,
               seen : 0..Len(log), decision : Decision]
  BY DEF JInv, TypeOK, Noop, Decision
<1>3. job'[j] = run
  BY <1>1 DEF JInv, TypeOK
<1> HIDE DEF run
<1>4. Deciding(j)'
  BY <1>2, <1>3 DEF Deciding
<1> QED
  BY <1>1, <1>2, <1>4, JobKeeps DEF Grows, github, JInv, TypeOK

LEMMA DecideKeeps ==
    ASSUME JInv, NEW j \in Job, Decide(j)
    PROVE  JInv'
<1> DEFINE m == job[j]
<1>0. PICK late \in BOOLEAN : \E d \in Decisions(j, late) :
          job' = [job EXCEPT ![j] = IF d.action = "noop" THEN NoJob
                                   ELSE [m EXCEPT !.decision = d, !.at = "check"]]
  BY DEF Decide, Sets
<1>1. PICK d \in Decisions(j, late) :
          job' = [job EXCEPT ![j] = IF d.action = "noop" THEN NoJob
                                   ELSE [m EXCEPT !.decision = d, !.at = "check"]]
  BY <1>0
<1>2. UNCHANGED <<github, sent, noted, fails>>
  BY DEF Decide
<1>3. /\ Seen(j) \in Seq(Comments) /\ Ordered(Seen(j))
      /\ m.labels \in SUBSET Label
  BY SeenTyped DEF JInv, TypeOK
<1>4. \/ j = "reconciler" /\ d = DecideReconciliation(m.labels, Seen(j), ci, m.sha)
      \/ /\ j = "watchdog"
         /\ \/ d = DecideReclaim(m.labels, Seen(j), ci, m.sha, late)
            \/ d = DecideRepairRecovery(m.labels, Seen(j), ci, m.sha, m.dirty, late)
  BY DEF Decisions, Seen, Job
<1>5. d \in Decision
  BY <1>3, <1>4, DecisionsTyped
<1>6. d.action \notin {"noop", "ensure_qa_dispatch"} =>
          /\ Earned(d.after, Seen(j), m.sha)
          /\ j = "reconciler" => Keeps(m.labels, d.after)
  BY <1>3, <1>4, ReconciliationEarned, WatchdogEarned
<1> DEFINE run == IF d.action = "noop" THEN NoJob
                  ELSE [m EXCEPT !.decision = d, !.at = "check"]
<1>7. run \in [at : {"idle", "check"}, sha : Sha, labels : SUBSET Label, dirty : BOOLEAN,
               seen : 0..Len(log), decision : Decision]
  BY <1>5, RunTyped DEF JInv
<1>8. job'[j] = run /\ job' = [job EXCEPT ![j] = run]
  BY <1>1 DEF JInv, TypeOK
<1>9. Deciding(j)'
  <2>1. CASE d.action = "noop"
    BY <1>8, <2>1 DEF Deciding, NoJob
  <2>2. CASE d.action # "noop"
    <3>1. /\ job'[j].at = "check" /\ job'[j].sha = m.sha /\ job'[j].labels = m.labels
          /\ job'[j].seen = m.seen /\ job'[j].decision = d
      BY <1>8, <2>2, RunTyped DEF JInv
    <3>2. Seen(j)' = Seen(j)
      BY <1>2, <3>1 DEF Seen, github
    <3> QED
      BY <1>6, <2>2, <3>1, <3>2 DEF Deciding
  <2> QED
    BY <2>1, <2>2
<1> HIDE DEF run
<1> QED
  BY <1>2, <1>7, <1>8, <1>9, JobKeeps DEF Grows, github, JInv, TypeOK

\* A job that goes on or ends, and does not speak, keeps what it decided.
LEMMA GoesOn ==
    ASSUME JInv, NEW j \in Job, NEW at \in {"mark", "put", "dispatch", "note"},
           Goes(j, at) \/ Sets(j, NoJob), Grows, UNCHANGED <<head, ci, dirty, moves>>,
           labels' \subseteq Label, sent \subseteq sent', sent' \subseteq Sha,
           noted' \subseteq sent', fails' \in 0..MaxFails,
           at \in {"mark", "put"} => job[j].at = "check",
           at = "put" => job[j].decision.action # "ensure_qa_dispatch",
           at = "note" => job[j].sha \in sent'
    PROVE  JInv'
<1>1. CASE Sets(j, NoJob)
  <2>1. job' = [job EXCEPT ![j] = NoJob] /\ job'[j] = NoJob
    BY <1>1 DEF Sets, JInv, TypeOK
  <2>2. Deciding(j)'
    BY <2>1 DEF Deciding, NoJob
  <2> QED
    BY <2>1, <2>2, RunTyped, JobKeeps DEF JInv
<1>2. CASE Goes(j, at)
  <2> DEFINE run == [job[j] EXCEPT !.at = at]
  <2>1. job' = [job EXCEPT ![j] = run] /\ job'[j] = run
    BY <1>2 DEF Goes, Sets, JInv, TypeOK
  <2>2. /\ run \in [at : {"mark", "put", "dispatch", "note"}, sha : Sha, labels : SUBSET Label,
                    dirty : BOOLEAN, seen : 0..Len(log), decision : Decision]
        /\ run.at = at /\ run.sha = job[j].sha /\ run.labels = job[j].labels
        /\ run.seen = job[j].seen /\ run.decision = job[j].decision
    BY RunTyped DEF JInv
  <2> HIDE DEF run
  <2>3. Seen(j)' = Seen(j)
    <3>1. job[j].seen \in 0..Len(log)
      BY DEF JInv, TypeOK
    <3> QED
      BY <2>1, <2>2, <3>1, GrowsTyped DEF Seen, JInv
  <2>4. Deciding(j)'
    BY <2>1, <2>2, <2>3 DEF Deciding, JInv
  <2> QED
    BY <2>1, <2>2, <2>4, JobKeeps DEF JInv
<1> QED
  BY <1>1, <1>2

LEMMA CheckKeeps ==
    ASSUME JInv, NEW j \in Job, Check(j)
    PROVE  JInv'
<1>1. /\ job[j].at = "check" /\ UNCHANGED <<github, sent, noted, fails>>
      /\ \/ Sets(j, NoJob) \/ Goes(j, "mark") \/ Goes(j, "dispatch")
         \/ Goes(j, "put") /\ job[j].decision.action # "ensure_qa_dispatch"
  BY DEF Check
<1>2. UNCHANGED <<head, labels, log, ci, dirty, moves, sent, noted, fails>>
  BY <1>1 DEF github
<1> QED
  BY <1>1, <1>2, GoesOn DEF Grows, JInv, TypeOK

LEMMA MarkKeeps ==
    ASSUME JInv, NEW j \in Job, Mark(j)
    PROVE  JInv'
<1> DEFINE run == [job[j] EXCEPT !.at = "check", !.decision.marker = FALSE]
<1>1. /\ job[j].at = "mark" /\ job' = [job EXCEPT ![j] = run] /\ job'[j] = run
      /\ UNCHANGED <<head, labels, ci, dirty, moves, sent, noted, fails>>
  BY DEF Mark, Sets, JInv, TypeOK
<1>2. Grows
  <2>1. PICK gap \in Gaps :
            log' = Append(log, Comment("marker", "passed", job[j].sha, At(log) + gap))
    BY DEF Mark
  <2>2. At(log) \in Nat /\ job[j].sha \in Sha
    BY AtTyped DEF JInv, TypeOK
  <2>3. /\ Comment("marker", "passed", job[j].sha, At(log) + gap) \in Comments
        /\ At(log) <= Comment("marker", "passed", job[j].sha, At(log) + gap).at
    BY <2>2, BoundsAssumption DEF Comment, Comments, Kind, Result
  <2> QED
    BY <2>1, <2>3 DEF Grows
<1>3. /\ run \in [at : {"check"}, sha : Sha, labels : SUBSET Label,
                  dirty : BOOLEAN, seen : 0..Len(log), decision : Decision]
      /\ run.at = "check" /\ run.sha = job[j].sha /\ run.labels = job[j].labels
      /\ run.seen = job[j].seen /\ run.decision.action = job[j].decision.action
      /\ run.decision.after = job[j].decision.after
  BY RunTyped DEF JInv, Decision
<1> HIDE DEF run
<1>4. Seen(j)' = Seen(j)
  <2>1. job[j].seen \in 0..Len(log)
    BY DEF JInv, TypeOK
  <2> QED
    BY <1>1, <1>2, <1>3, <2>1, GrowsTyped DEF Seen, JInv
<1>5. Deciding(j)'
  BY <1>1, <1>3, <1>4 DEF Deciding, JInv
<1> QED
  BY <1>1, <1>2, <1>3, <1>5, JobKeeps DEF JInv, TypeOK

LEMMA PutKeeps ==
    ASSUME JInv, NEW j \in Job, Put(j)
    PROVE  JInv'
<1>1. /\ labels' = job[j].decision.after
      /\ Goes(j, "dispatch") \/ Sets(j, NoJob)
      /\ UNCHANGED <<head, log, ci, dirty, moves, sent, noted, fails>>
  BY DEF Put
<1>2. labels' \subseteq Label
  <2>1. job[j].decision \in Decision
    BY DEF JInv, TypeOK
  <2> QED
    BY <1>1, <2>1 DEF Decision
<1> QED
  BY <1>1, <1>2, GoesOn DEF Grows, JInv, TypeOK

LEMMA DispatchKeeps ==
    ASSUME JInv, NEW j \in Job, Dispatch(j) \/ NoteDispatch(j)
    PROVE  JInv'
<1>1. UNCHANGED <<head, labels, log, ci, dirty, moves, fails>> /\ job[j].sha \in Sha
  BY DEF Dispatch, NoteDispatch, github, JInv, TypeOK
<1>2. CASE Dispatch(j)
  <2>1. /\ noted' = noted /\ sent \subseteq sent' /\ sent' \subseteq sent \cup {job[j].sha}
        /\ \/ Sets(j, NoJob)
           \/ Goes(j, "note") /\ job[j].sha \in sent'
    BY <1>2 DEF Dispatch
  <2> QED
    BY <1>1, <2>1, GoesOn DEF Grows, JInv, TypeOK
<1>3. CASE NoteDispatch(j)
  <2>1. sent' = sent /\ noted' = noted \cup {job[j].sha} /\ Sets(j, NoJob)
    BY <1>3 DEF NoteDispatch
  <2>2. job[j].sha \in sent
    BY <1>3 DEF NoteDispatch, JInv, Deciding
  <2> QED
    BY <1>1, <2>1, <2>2, GoesOn DEF Grows, JInv, TypeOK
<1> QED
  BY <1>2, <1>3

LEMMA FailKeeps ==
    ASSUME JInv, NEW j \in Job, Fail(j)
    PROVE  JInv'
<1>1. UNCHANGED <<head, labels, log, ci, dirty, moves, sent, noted>> /\ Sets(j, NoJob)
  BY DEF Fail, github
<1>2. fails' \in 0..MaxFails
  BY BoundsAssumption DEF Fail, JInv, TypeOK
<1> QED
  BY <1>1, <1>2, GoesOn DEF Grows, JInv, TypeOK

LEMMA StepKeeps == JInv /\ [Next]_vars => JInv'
<1> SUFFICES ASSUME JInv, [Next]_vars
             PROVE  JInv'
  OBVIOUS
<1>1. CASE Post \/ Ci \/ Push \/ Relabel
  BY <1>1, EnvironmentKeeps
<1>2. ASSUME NEW j \in Job, Step(j) \/ Fail(j)
      PROVE  JInv'
  BY <1>2, ReadKeeps, DecideKeeps, CheckKeeps, MarkKeeps, PutKeeps, DispatchKeeps, FailKeeps
     DEF Step
<1>3. CASE UNCHANGED vars
  BY <1>3 DEF vars, github, JInv, TypeOK, Deciding, Seen
<1> QED
  BY <1>1, <1>2, <1>3 DEF Next

LEMMA JobsInvariant == Spec => []JInv
  BY InitTyped, StepKeeps, PTL DEF Spec

-----------------------------------------------------------------------------
(* The theorems *)

\* The variables keep their types, and a log grows in the order of time.
THEOREM TypeCorrect == Spec => []TypeOK
<1>1. JInv => TypeOK
  BY DEF JInv
<1> QED
  BY <1>1, JobsInvariant, PTL

\* The gates of review and of QA (handoff_gate.py, evidence_gate.py), which compare newest
\* comments, accept what a reading of the whole log in order accepts.
THEOREM GatesReadHistory == Spec => []ReviewedByHistory
<1>1. JInv => ReviewedByHistory
  BY GateIsHistory, QAGateIsHistory DEF JInv, TypeOK, ReviewedByHistory
<1> QED
  BY <1>1, JobsInvariant, PTL

\* What is written was decided by what was read.
LEMMA PutsDecided ==
    ASSUME JInv, [Next]_vars, NEW j \in Job, Puts(j)
    PROVE  /\ Earned(labels', Seen(j), job[j].sha)
           /\ j = "reconciler" => Keeps(job[j].labels, labels')
<1>1. job[j].at = "put" /\ job'[j].at # "put" /\ labels' # labels
  BY DEF Puts
<1>2. labels' = job[j].decision.after
  <2>1. ASSUME NEW k \in Job, Step(k) \/ Fail(k)
        PROVE  Put(k) /\ k = j
    <3>1. Put(k)
      BY <1>1, <2>1 DEF Step, Fail, Read, Decide, Check, Mark, Dispatch, NoteDispatch, github
    <3>2. ASSUME k # j
          PROVE  job'[j] = job[j]
      BY <3>1, <3>2 DEF Put, Goes, Sets, JInv, TypeOK
    <3> QED
      BY <1>1, <3>1, <3>2
  <2>2. ~(Post \/ Ci \/ Push \/ Relabel)
    BY <1>1 DEF Post, Ci, Push, Relabel, Moves
  <2>3. ~UNCHANGED vars
    BY <1>1 DEF vars, github
  <2> QED
    BY <2>1, <2>2, <2>3 DEF Next, Put
<1> QED
  BY <1>1, <1>2 DEF JInv, Deciding

\* QA is made ready only on a standing review of the commit, in the comments that were
\* read (reconcile_handoff_state.py, plan_repair_recovery.py, plan_review_reclaim.py).
THEOREM QAReadyReviewed == Spec => QAOnlyReviewed
<1>1. ASSUME JInv, [Next]_vars, NEW j \in Job, Puts(j), QAReady \subseteq labels'
      PROVE  Review(Seen(j), job[j].sha).passed
  <2>1. ReviewPassed(Seen(j), job[j].sha)
    BY <1>1, PutsDecided DEF Earned
  <2> QED
    BY <1>1, <2>1, SeenTyped, GateIsHistory DEF JInv
<1>2. JInv /\ [Next]_vars =>
          [\A j \in Job : Puts(j) /\ QAReady \subseteq labels' =>
               Review(Seen(j), job[j].sha).passed]_vars
  BY <1>1
<1> QED
  BY <1>2, JobsInvariant, PTL DEF Spec, QAOnlyReviewed

\* The owner is waited for only on a policy, a successful QA and a standing review of the
\* same commit (owner_wait_evidence in reconcile_handoff_state.py).
THEOREM OwnerWaitIsEarned == Spec => OwnerWaitEarned
<1> DEFINE Shown(j) == /\ Review(Seen(j), job[j].sha).passed
                       /\ \E p, q \in 1..job[j].seen :
                              /\ log[p].kind = "policy" /\ log[q].kind = "qa" /\ Succeeds(log[q])
                              /\ log[p].sha = job[j].sha /\ log[q].sha = job[j].sha
<1>1. ASSUME JInv, [Next]_vars, NEW j \in Job, Puts(j), OwnerWait(labels')
      PROVE  Shown(j)
  <2> DEFINE l == Seen(j)
             sha == job[j].sha
  <2>1. ReviewPassed(l, sha) /\ OwnerWaitEvidence(l, sha)
    BY <1>1, PutsDecided DEF Earned
  <2>2. /\ l \in Seq(Comments) /\ Ordered(l) /\ Len(l) = job[j].seen
        /\ \A n \in 1..job[j].seen : l[n] = log[n]
    BY <1>1, SeenTyped DEF JInv
  <2> HIDE DEF l, sha
  <2>3. ASSUME NEW kind \in {"policy", "qa"}
        PROVE  \E n \in 1..Len(l) : l[n].kind = kind /\ l[n].sha = sha /\ Succeeds(l[n])
    <3>1. /\ Of(l, {kind}, sha) # {}
          /\ Succeeds(l[Newest(l, Of(l, {kind}, sha))])
      BY <2>1 DEF OwnerWaitEvidence
    <3> QED
      BY <2>2, <3>1, OfIsOrdered
  <2>4. Review(l, sha).passed
    BY <2>1, <2>2, GateIsHistory
  <2>5. PICK p \in 1..Len(l) : l[p].kind = "policy" /\ l[p].sha = sha
    BY <2>3
  <2>6. PICK q \in 1..Len(l) : l[q].kind = "qa" /\ l[q].sha = sha /\ Succeeds(l[q])
    BY <2>3
  <2> QED
    BY <2>2, <2>4, <2>5, <2>6 DEF l, sha
<1>2. JInv /\ [Next]_vars =>
          [\A j \in Job : Puts(j) /\ OwnerWait(labels') => Shown(j)]_vars
  BY <1>1
<1> QED
  BY <1>2, JobsInvariant, PTL DEF Spec, OwnerWaitEarned

\* The reconciler takes back no block of content and no wait for the owner that it read.
THEOREM HumanDecisionsKept == Spec => HumanDecisionsStay
<1> DEFINE Kept == LET read == job["reconciler"].labels
                   IN /\ read \cap Blockers \subseteq labels'
                      /\ read \cap Blockers # {} /\ "status:blocked" \in read =>
                             "status:blocked" \in labels'
                      /\ OwnerWait(read) => OwnerWait(labels')
<1>1. ASSUME JInv, [Next]_vars, Puts("reconciler")
      PROVE  Kept
  <2>1. Keeps(job["reconciler"].labels, labels')
    BY <1>1, PutsDecided DEF Job
  <2> QED
    BY <2>1 DEF Keeps
<1>2. JInv /\ [Next]_vars => [Puts("reconciler") => Kept]_vars
  BY <1>1
<1> QED
  BY <1>2, JobsInvariant, PTL DEF Spec, HumanDecisionsStay

=============================================================================
