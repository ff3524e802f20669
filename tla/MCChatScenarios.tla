-------------------------- MODULE MCChatScenarios --------------------------
(* Three instances of ChatSession in one run of TLC: each bounds what may  *)
(* happen to one course of events; all together would be too many states.  *)
EXTENDS MCChatSession

SwitchLimit == Budget(2, 0, 1, 0, 0, 0, 0)
SignOutLimit == Budget(2, 0, 0, 0, 1, 1, 0)
LoadLimit == Budget(2, 0, 0, 1, 0, 0, 0)
LoadTwiceLimit == Budget(0, 0, 0, 2, 0, 0, 0)
CourseLimits == {SwitchLimit, SignOutLimit, LoadLimit, LoadTwiceLimit} \cup DropLimit

Carries(feed) == \A t \in Turns : task[t].out \cap Feed \subseteq feed
NothingAsked == \A m \in Msgs : server[m].ask = None
StoredFinished == server[0].st = "finished" /\ server[-1].st = "finished"

\* The reader starts over, or signs out and in.
AccountCourse ==
  /\ used["load"] = 0 /\ used["drop"] = 0
  /\ Carries({"Delta"}) /\ NothingAsked /\ StoredFinished

\* Questions are answered and a stored chat is resumed.
ResumeCourse ==
  /\ \A b \in {"switch", "signout", "signin", "drop"} : used[b] = 0
  /\ Carries({"Meta"})
  /\ server[-1].st # "failed" /\ \A m \in Msgs \ {0} : server[m].ask # "unanswerable"

\* The connection dies under a turn.
DropCourse ==
  /\ \A b \in {"switch", "signout", "signin", "load"} : used[b] = 0
  /\ Carries({"Tool", "ToolDone", "Delta"}) /\ NothingAsked /\ StoredFinished

\* What happens is one of the courses.
OneCourse == AccountCourse \/ ResumeCourse \/ DropCourse
============================================================================
