------------------------- MODULE MCHandoffReconciler -------------------------
(* Two commits; what was said and labelled before, and what may still be said. *)
EXTENDS HandoffReconciler

Said(kind, sha, at) == Comment(kind, "passed", sha, at)
Running(agent, phase) == Route(agent, phase, "status:running")
Start(head_, kinds, labels_) ==
    [head |-> head_, log |-> [i \in DOMAIN kinds |-> Said(kinds[i], head_, i)], labels |-> labels_]
InReview == Running("agent:workreview", "phase:code-review")

\* The first commit, implemented or under repair; the last one, reviewed, or with the
\* commits of QA, whose review is asked for, or claimed.
MCStarts ==
    {Start(Base, <<"claim", "code_review">>, InReview),
     Start(Base, <<"claim", "code_review", "repair">>,
           Running("agent:workreview", "phase:escalation-repair")),
     Start(Final, <<"policy", "claim", "code_review">>, Running("agent:workbuddy", "phase:qa")),
     Start(Final, <<"implementation", "claim">>, InReview),
     Start(Final, <<"claim", "code_review", "policy", "qa">>, Running("agent:workbuddy", "phase:qa")),
     Start(Final, <<"policy", "qa", "marker", "claim">>, InReview),
     Start(Final, <<"policy", "qa">>, Running("agent:workbuddy", "phase:qa")),
     Start(Final, <<"policy", "qa">>, Waiting)}

MCPosted == [kind : {"code_review"}, result : {"passed", "failed"}]
                \cup [kind : {"implementation", "repair"}, result : {"passed"}]
==============================================================================
