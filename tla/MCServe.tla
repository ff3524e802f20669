------------------------------ MODULE MCServe ------------------------------
(* What the client of each instance of Serve may write.                    *)
EXTENDS Serve

Plain(kind, owed) == [kind |-> kind, owed |-> owed, order |-> None, code |-> None]
Order(scope, terms, code) ==
  [kind |-> "order", owed |-> TRUE, order |-> [scope |-> scope, terms |-> terms],
   code |-> code]

Post(scope) ==
  [kind |-> "post", owed |-> TRUE, order |-> [scope |-> scope, terms |-> "limit"],
   code |-> None]

\* Cancelling an order has the code that buying has.
CollidingDigest == [buy |-> 1, cancel |-> 1, sell |-> 2, replace |-> 3]

\* Bursts of calls, a client of the feed, one that places orders.
AnyClients ==
  { [lines |-> {Plain("call", TRUE), Plain("call", FALSE), Plain("unknown", TRUE),
                Plain("shutdown", TRUE)},
     most |-> 3],
    [lines |-> {Plain("subscribe", TRUE), Plain("unsubscribe", TRUE)}, most |-> 2],
    [lines |-> {Plain("garbage", TRUE), Order("buy", "limit", None),
                Order("buy", "stop", 1), Order("sell", "limit", 1),
                Order("cancel", "limit", 1), Post("sell")},
     most |-> 3] }
=============================================================================
