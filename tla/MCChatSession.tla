--------------------------- MODULE MCChatSession ---------------------------
(* Instances of ChatSession for TLC: what the reader and the network may do. *)
EXTENDS ChatSession

Budget(p, c, s, l, o, i, d) ==
  [b \in Budgets |-> CASE b = "prompt" -> p [] b = "cancel" -> c
                      [] b = "switch" -> s [] b = "load" -> l
                      [] b = "signout" -> o [] b = "signin" -> i
                      [] b = "drop" -> d]

\* The connection dies under a turn.
DropLimit == {Budget(2, 0, 0, 0, 0, 0, 1)}
\* One cancel, two prompts.
CancelLimit == {Budget(2, 1, 0, 0, 0, 0, 0)}
\* The reader signs out and in while a stored chat is being loaded.
AccountLimit == {Budget(1, 0, 0, 1, 1, 1, 0)}
\* The account changes only by signing out first.
AccountSpec == Init /\ [][Next /\ (account' # account => ~ready)]_vars
============================================================================
