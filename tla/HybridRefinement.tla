-------------------------- MODULE HybridRefinement --------------------------
(***************************************************************************)
(* customer-hybrid implements Directory.                                   *)
(***************************************************************************)
EXTENDS HybridProperties

homeBar == [a \in Addresses |-> IF addresses[a] = None THEN None ELSE addresses[a].owner]

Question(q) == [op |-> q.op, customer |-> q.customer, address |-> q.address]

askedBar == [r \in Requests |-> IF pc[r] = "idle" THEN None ELSE Question(req[r])]

Outcome(c) ==
    CASE c \in {"OK", "CREATED"}                      -> "success"
      [] c \in {"SERVICE_UNAVAILABLE", "UNHANDLED"}   -> "failure"
      [] OTHER                                        -> "refusal"

replyBar == [r \in Requests |-> IF pc[r] = "respond" THEN Outcome(code[r]) ELSE "none"]

Dir == INSTANCE Directory WITH
    registered <- customers, home <- homeBar, asked <- askedBar,
    acted <- wrote, reply <- replyBar

ASSUME QuestionAssumption == None \notin Dir!Questions

\* Every request, however its statements interleave with those of others, acts
\* on the tables at most once and at one moment, and its answer tells the truth
\* about that: Directory describes every behaviour of the service.
ActsAtOnce == Dir!Spec

\* The id of a customer that is going to be inserted is nobody else's.
FreshInv ==
    \A r \in Requests : pc[r] = "insertCustomer" =>
        /\ req[r].customer \notin customers
        /\ \A o \in Requests \ {r} : pc[o] = "insertCustomer" => req[o].customer # req[r].customer
=============================================================================
