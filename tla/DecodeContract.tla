--------------------------- MODULE DecodeContract ---------------------------
(***************************************************************************)
(* What a decode service promises the nodes of the page tree, said without *)
(* futures, locks or an executor.                                          *)
(*                                                                         *)
(* Requests are numbered in the order in which they are made.  A newer     *)
(* request for a node supersedes the older one, and a node may withdraw    *)
(* what it asked for.  Requests are answered in order, a request that      *)
(* nobody withdrew is never dropped, and a node that waits has a request   *)
(* that is under way, answered but undelivered, or that the codec failed.  *)
(***************************************************************************)
EXTENDS Naturals, Sequences

CONSTANTS
  Node,     \* the nodes that ask
  NoNode,   \* the owner of a request that was not made yet
  Request   \* the numbers of the requests

\* What whoever implements the contract gives for them.
ContractAssumption ==
  /\ NoNode \notin Node
  /\ Request \subseteq Nat

VARIABLES
  waiting,    \* does the node show that it is being decoded?
  owner,      \* the node a request is for
  outcome,    \* "none" until it is made, then what became of the request
  withdrawn,  \* pending requests that nobody wants any more
  inbox,      \* answers on their way to the nodes
  closed      \* no request is accepted any more

vars == <<waiting, owner, outcome, withdrawn, inbox, closed>>

Outcome == {"none", "pending", "answered", "dropped", "failed"}

Pending(n) == {i \in Request : outcome[i] = "pending" /\ owner[i] = n}

Init ==
  /\ waiting = [n \in Node |-> FALSE]
  /\ owner = [i \in Request |-> NoNode]
  /\ outcome = [i \in Request |-> "none"]
  /\ withdrawn = {}
  /\ inbox = <<>>
  /\ closed = FALSE

\* A node asks while the service is open.
Accept(n, i) ==
  /\ ~closed
  /\ outcome[i] = "none"
  /\ \A j \in Request : j < i => outcome[j] # "none"
  /\ waiting' = [waiting EXCEPT ![n] = TRUE]
  /\ owner' = [owner EXCEPT ![i] = n]
  /\ outcome' = [outcome EXCEPT ![i] = "pending"]
  /\ withdrawn' = withdrawn \cup Pending(n)
  /\ UNCHANGED <<inbox, closed>>

\* A node asks when the service is closed: nothing will come.
Refuse(n) ==
  /\ closed
  /\ waiting' = [waiting EXCEPT ![n] = TRUE]
  /\ UNCHANGED <<owner, outcome, withdrawn, inbox, closed>>

\* What is pending for n is given up: by the node, which stops waiting, or by
\* the service that closes, which does not tell the node.
Withdraw(n) ==
  /\ \/ waiting[n] /\ waiting' = [waiting EXCEPT ![n] = FALSE]
     \/ closed /\ UNCHANGED waiting
  /\ withdrawn' = withdrawn \cup Pending(n)
  /\ UNCHANGED <<owner, outcome, inbox, closed>>

\* The request in front is answered, even when it was withdrawn meanwhile.
Answer(i) ==
  /\ outcome[i] = "pending"
  /\ \A j \in Request : j < i => outcome[j] # "pending"
  /\ outcome' = [outcome EXCEPT ![i] = "answered"]
  /\ withdrawn' = withdrawn \ {i}
  /\ inbox' = Append(inbox, i)
  /\ UNCHANGED <<waiting, owner, closed>>

\* A withdrawn request may be forgotten, wherever it is in the line.
Drop(i) ==
  /\ i \in withdrawn
  /\ outcome' = [outcome EXCEPT ![i] = "dropped"]
  /\ withdrawn' = withdrawn \ {i}
  /\ UNCHANGED <<waiting, owner, inbox, closed>>

\* The codec throws on the request in front: there will be no answer.
Fail(i) ==
  /\ outcome[i] = "pending"
  /\ \A j \in Request : j < i => outcome[j] # "pending"
  /\ outcome' = [outcome EXCEPT ![i] = "failed"]
  /\ withdrawn' = withdrawn \ {i}
  /\ UNCHANGED <<waiting, owner, inbox, closed>>

\* The oldest undelivered answer reaches its node, wanted or not.
Deliver ==
  /\ inbox # <<>>
  /\ waiting' = [waiting EXCEPT ![owner[Head(inbox)]] = FALSE]
  /\ inbox' = Tail(inbox)
  /\ UNCHANGED <<owner, outcome, withdrawn, closed>>

Close ==
  /\ ~closed
  /\ closed' = TRUE
  /\ UNCHANGED <<waiting, owner, outcome, withdrawn, inbox>>

Next ==
  \/ \E n \in Node :
       \/ \E i \in Request : Accept(n, i)
       \/ Refuse(n) \/ Withdraw(n)
  \/ \E i \in Request : Answer(i) \/ Drop(i) \/ Fail(i)
  \/ Deliver
  \/ Close

Spec == Init /\ [][Next]_vars

\* A node that waits in an open service waits for something: its newest request
\* is under way, or answered and not delivered, or the codec gave it up.
WaitingIsFounded ==
  \A n \in Node : waiting[n] /\ ~closed =>
    \E i \in Request :
      /\ owner[i] = n
      /\ \A j \in Request : owner[j] = n => j <= i
      /\ \/ outcome[i] = "pending" /\ i \notin withdrawn
         \/ outcome[i] = "answered" /\ \E p \in DOMAIN inbox : inbox[p] = i
         \/ outcome[i] = "failed"

\* Answers travel in the order in which the requests were made.
AnswersInOrder ==
  \A p, q \in DOMAIN inbox : p < q => inbox[p] < inbox[q]

\* The promise: answers come in order, and no node waits for nothing.
PromiseIsKept == WaitingIsFounded /\ AnswersInOrder
=============================================================================
