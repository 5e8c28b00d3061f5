------------------------ MODULE DecodeContractProofs ------------------------
(***************************************************************************)
(* The promise of DecodeContract is kept, for every set of nodes and of    *)
(* requests.  CInv adds what it rests on: requests are made in order, only *)
(* a pending one is withdrawn, and an answer in the inbox is older than    *)
(* every request that still waits for its own.                             *)
(***************************************************************************)
EXTENDS DecodeContract, QueueLemmas, TLAPS

ContractTypes ==
  /\ waiting \in [Node -> BOOLEAN]
  /\ owner \in [Request -> Node \cup {NoNode}]
  /\ outcome \in [Request -> Outcome]
  /\ withdrawn \subseteq Request
  /\ inbox \in Seq(Request)

\* Requests are made in order and have an owner from then on.
MadeInOrder ==
  /\ \A i, j \in Request : outcome[i] # "none" /\ j < i => outcome[j] # "none"
  /\ \A i \in Request : outcome[i] = "none" <=> owner[i] = NoNode
  /\ \A i \in withdrawn : outcome[i] = "pending"

\* What is in the inbox was answered before anything that is still pending.
InboxIsOlder ==
  \A p \in DOMAIN inbox :
    /\ outcome[inbox[p]] = "answered"
    /\ \A i \in Request : outcome[i] = "pending" => inbox[p] < i

CInv == ContractTypes /\ MadeInOrder /\ InboxIsOlder /\ PromiseIsKept

LEMMA InitKept == ContractAssumption /\ Init => CInv
<1> SUFFICES ASSUME ContractAssumption, Init PROVE CInv
  OBVIOUS
<1> USE DEF ContractAssumption, Init
<1>1. ContractTypes /\ MadeInOrder
  BY DEF ContractTypes, MadeInOrder, Outcome
<1>2. InboxIsOlder /\ AnswersInOrder /\ WaitingIsFounded
  BY DEF InboxIsOlder, AnswersInOrder, WaitingIsFounded
<1> QED
  BY <1>1, <1>2 DEF CInv, PromiseIsKept

\* A step that leaves the inbox alone and makes nothing pending keeps its order.
LEMMA InboxKept ==
  ASSUME CInv, UNCHANGED inbox,
         \A i \in Request : outcome[i] = "answered" => outcome'[i] = "answered",
         \A i \in Request : outcome'[i] = "pending" => outcome[i] = "pending"
  PROVE  InboxIsOlder' /\ AnswersInOrder'
<1>1. \A p \in DOMAIN inbox : inbox[p] \in Request
  BY DEF CInv, ContractTypes
<1> QED
  BY <1>1 DEF CInv, InboxIsOlder, PromiseIsKept, AnswersInOrder

LEMMA StepKept == ContractAssumption /\ CInv /\ [Next]_vars => CInv'
<1> SUFFICES ASSUME ContractAssumption, CInv, [Next]_vars PROVE CInv'
  OBVIOUS
<1>a. NoNode \notin Node /\ Request \subseteq Nat
  BY DEF ContractAssumption
<1> USE <1>a DEF CInv, PromiseIsKept
<1>0. /\ inbox \in Seq(Request)
      /\ DOMAIN inbox = 1 .. Len(inbox) /\ Len(inbox) \in Nat
      /\ \A p \in DOMAIN inbox : inbox[p] \in Request
  BY DEF ContractTypes
<1>1. ASSUME NEW n \in Node, NEW i \in Request, Accept(n, i) PROVE CInv'
  <2>1. /\ outcome[i] = "none" /\ owner[i] = NoNode /\ i \notin withdrawn
        /\ outcome'[i] = "pending" /\ owner'[i] = n /\ i \notin withdrawn'
        /\ \A j \in Request : j # i => outcome'[j] = outcome[j] /\ owner'[j] = owner[j]
        /\ \A j \in Request : j < i <=> outcome[j] # "none"
    <3>1. /\ outcome[i] = "none" /\ owner[i] = NoNode /\ i \notin withdrawn
          /\ outcome' = [outcome EXCEPT ![i] = "pending"]
          /\ owner' = [owner EXCEPT ![i] = n]
          /\ withdrawn' = withdrawn \cup Pending(n)
          /\ \A j \in Request : j < i => outcome[j] # "none"
      BY <1>1 DEF Accept, MadeInOrder
    <3>2. i \notin Pending(n)
      BY <3>1 DEF Pending
    <3>3. \A j \in Request : j > i => outcome[j] = "none"
      BY <3>1 DEF MadeInOrder
    <3> QED
      BY <3>1, <3>2, <3>3 DEF ContractTypes
  <2>2. ContractTypes'
    BY <1>1 DEF Accept, ContractTypes, Outcome, Pending
  <2>3. MadeInOrder'
    <3>1. \A j \in withdrawn' : j \in withdrawn \/ j \in Pending(n)
      BY <1>1 DEF Accept
    <3>2. \A j \in withdrawn' : outcome[j] = "pending" /\ j \in Request
      BY <3>1 DEF MadeInOrder, Pending, ContractTypes
    <3> QED
      BY <2>1, <3>2 DEF MadeInOrder
  <2>4. InboxIsOlder' /\ AnswersInOrder'
    <3>1. UNCHANGED inbox
      BY <1>1 DEF Accept
    <3>2. \A p \in DOMAIN inbox : inbox[p] < i /\ inbox[p] # i
      BY <1>0, <2>1 DEF InboxIsOlder
    <3>3. AnswersInOrder'
      BY <3>1 DEF AnswersInOrder
    <3>4. ASSUME NEW p \in DOMAIN inbox
          PROVE  /\ outcome'[inbox[p]] = "answered"
                 /\ \A j \in Request : outcome'[j] = "pending" => inbox[p] < j
      <4>1. /\ inbox[p] \in Request /\ inbox[p] # i /\ inbox[p] < i
            /\ outcome[inbox[p]] = "answered"
            /\ \A j \in Request : outcome[j] = "pending" => inbox[p] < j
        BY <1>0, <3>2 DEF InboxIsOlder
      <4> HIDE DEF CInv
      <4> QED
        BY <2>1, <4>1
    <3> QED
      BY <3>1, <3>3, <3>4 DEF InboxIsOlder
  <2>5. WaitingIsFounded'
    <3> SUFFICES ASSUME NEW m \in Node, waiting'[m], ~closed'
                 PROVE  \E j \in Request :
                          /\ owner'[j] = m
                          /\ \A k \in Request : owner'[k] = m => k <= j
                          /\ \/ outcome'[j] = "pending" /\ j \notin withdrawn'
                             \/ outcome'[j] = "answered" /\ \E p \in DOMAIN inbox' : inbox'[p] = j
                             \/ outcome'[j] = "failed"
      BY DEF WaitingIsFounded
    <3>1. CASE m = n
      <4>1. ASSUME NEW k \in Request, owner'[k] = m, k # i PROVE k <= i
        <5>1. owner[k] # NoNode
          BY <2>1, <4>1
        <5>2. k < i /\ k \in Nat /\ i \in Nat
          BY <2>1, <5>1 DEF MadeInOrder
        <5> QED BY <5>2
      <4>2. i <= i
        OBVIOUS
      <4> QED
        BY <2>1, <3>1, <4>1, <4>2
    <3>2. CASE m # n
      <4>1. waiting[m] /\ ~closed /\ inbox' = inbox /\ withdrawn' = withdrawn \cup Pending(n)
        BY <1>1, <3>2 DEF Accept, ContractTypes
      <4>2. PICK j \in Request :
              /\ owner[j] = m
              /\ \A k \in Request : owner[k] = m => k <= j
              /\ \/ outcome[j] = "pending" /\ j \notin withdrawn
                 \/ outcome[j] = "answered" /\ \E p \in DOMAIN inbox : inbox[p] = j
                 \/ outcome[j] = "failed"
        BY <4>1 DEF WaitingIsFounded
      <4>3. j # i /\ j \notin Pending(n)
        BY <2>1, <3>2, <4>2 DEF Pending
      <4> QED
        BY <2>1, <3>2, <4>1, <4>2, <4>3
    <3> QED BY <3>1, <3>2
  <2> QED BY <2>2, <2>3, <2>4, <2>5
<1>2. ASSUME NEW n \in Node, Refuse(n) PROVE CInv'
  BY <1>2, InboxKept DEF Refuse, ContractTypes, MadeInOrder, WaitingIsFounded
<1>3. ASSUME NEW n \in Node, Withdraw(n) PROVE CInv'
  <2>1. /\ UNCHANGED <<owner, outcome, inbox, closed>>
        /\ withdrawn' = withdrawn \cup Pending(n)
        /\ \/ waiting' = [waiting EXCEPT ![n] = FALSE]
           \/ closed
    BY <1>3 DEF Withdraw
  <2>2. ContractTypes' /\ MadeInOrder'
    BY <1>3, <2>1 DEF ContractTypes, MadeInOrder, Pending, Withdraw
  <2>3. InboxIsOlder' /\ AnswersInOrder'
    BY <2>1, InboxKept
  <2>4. WaitingIsFounded'
    BY <2>1 DEF WaitingIsFounded, Pending, ContractTypes
  <2> QED BY <2>2, <2>3, <2>4
<1>4. ASSUME NEW i \in Request, Answer(i) PROVE CInv'
  <2>1. /\ outcome[i] = "pending"
        /\ \A j \in Request : j < i => outcome[j] # "pending"
        /\ outcome' = [outcome EXCEPT ![i] = "answered"]
        /\ withdrawn' = withdrawn \ {i}
        /\ inbox' = Append(inbox, i)
        /\ UNCHANGED <<waiting, owner, closed>>
    BY <1>4 DEF Answer
  <2>2. /\ \A j \in Request : j # i => outcome'[j] = outcome[j]
        /\ outcome'[i] = "answered"
    BY <2>1 DEF ContractTypes
  <2>3. /\ inbox' \in Seq(Request)
        /\ DOMAIN inbox' = 1 .. (Len(inbox) + 1) /\ inbox'[Len(inbox) + 1] = i
        /\ \A p \in DOMAIN inbox : p \in DOMAIN inbox' /\ inbox'[p] = inbox[p]
        /\ \A p \in DOMAIN inbox' : p # Len(inbox) + 1 => p \in DOMAIN inbox
    BY <1>0, <2>1, PutLast
  <2>4. ContractTypes' /\ MadeInOrder'
    BY <2>1, <2>2, <2>3 DEF ContractTypes, MadeInOrder, Outcome
  <2>5. \A j \in Request : outcome'[j] = "pending" => i < j /\ outcome[j] = "pending"
    BY <2>1, <2>2
  <2>6. InboxIsOlder'
    <3> SUFFICES ASSUME NEW p \in DOMAIN inbox'
                 PROVE  /\ outcome'[inbox'[p]] = "answered"
                        /\ \A j \in Request : outcome'[j] = "pending" => inbox'[p] < j
      BY DEF InboxIsOlder
    <3>1. CASE p = Len(inbox) + 1
      BY <2>2, <2>3, <2>5, <3>1
    <3>2. CASE p # Len(inbox) + 1
      BY <1>0, <2>1, <2>2, <2>3, <2>5, <3>2 DEF InboxIsOlder
    <3> QED BY <3>1, <3>2
  <2>7. AnswersInOrder'
    <3> SUFFICES ASSUME NEW p \in DOMAIN inbox', NEW q \in DOMAIN inbox', p < q
                 PROVE  inbox'[p] < inbox'[q]
      BY DEF AnswersInOrder
    <3>1. p # Len(inbox) + 1
      BY <1>0, <2>3
    <3>2. CASE q = Len(inbox) + 1
      BY <2>1, <2>3, <3>1, <3>2 DEF InboxIsOlder
    <3>3. CASE q # Len(inbox) + 1
      BY <2>3, <3>1, <3>3 DEF AnswersInOrder
    <3> QED BY <3>2, <3>3
  <2>8. WaitingIsFounded'
    <3>1. \A j \in Request : (\E p \in DOMAIN inbox : inbox[p] = j) =>
             \E p \in DOMAIN inbox' : inbox'[p] = j
      BY <2>3
    <3>2. \E p \in DOMAIN inbox' : inbox'[p] = i
      BY <1>0, <2>3
    <3> QED
      BY <2>1, <2>2, <3>1, <3>2 DEF WaitingIsFounded
  <2> QED BY <2>4, <2>6, <2>7, <2>8
<1>5. ASSUME NEW i \in Request, Drop(i) \/ Fail(i) PROVE CInv'
  <2>1. /\ outcome[i] = "pending"
        /\ withdrawn' = withdrawn \ {i}
        /\ UNCHANGED <<waiting, owner, inbox, closed>>
        /\ \A j \in Request : j # i => outcome'[j] = outcome[j]
        /\ \/ outcome'[i] = "dropped" /\ i \in withdrawn
           \/ outcome'[i] = "failed"
    BY <1>5 DEF Drop, Fail, ContractTypes, MadeInOrder
  <2>2. ContractTypes' /\ MadeInOrder'
    BY <1>5, <2>1 DEF ContractTypes, MadeInOrder, Outcome, Drop, Fail
  <2>3. InboxIsOlder' /\ AnswersInOrder'
    BY <2>1, InboxKept
  <2>4. WaitingIsFounded'
    <3>1. \A j \in Request : outcome[j] = "pending" /\ j \notin withdrawn =>
             \/ outcome'[j] = "pending" /\ j \notin withdrawn'
             \/ outcome'[j] = "failed"
      BY <2>1
    <3>2. \A j \in Request : outcome[j] \in {"answered", "failed"} => outcome'[j] = outcome[j]
      BY <2>1
    <3>3. UNCHANGED <<waiting, owner, inbox, closed>>
      BY <2>1
    <3> SUFFICES ASSUME NEW m \in Node, waiting'[m], ~closed'
                 PROVE  \E j \in Request :
                          /\ owner'[j] = m
                          /\ \A k \in Request : owner'[k] = m => k <= j
                          /\ \/ outcome'[j] = "pending" /\ j \notin withdrawn'
                             \/ outcome'[j] = "answered" /\ \E p \in DOMAIN inbox' : inbox'[p] = j
                             \/ outcome'[j] = "failed"
      BY DEF WaitingIsFounded
    <3>4. PICK j \in Request :
            /\ owner[j] = m
            /\ \A k \in Request : owner[k] = m => k <= j
            /\ \/ outcome[j] = "pending" /\ j \notin withdrawn
               \/ outcome[j] = "answered" /\ \E p \in DOMAIN inbox : inbox[p] = j
               \/ outcome[j] = "failed"
      BY <3>3 DEF WaitingIsFounded
    <3> HIDE DEF CInv
    <3> QED
      BY <3>1, <3>2, <3>3, <3>4
  <2> QED BY <2>2, <2>3, <2>4
<1>6. ASSUME Deliver PROVE CInv'
  <2>1. /\ inbox # <<>> /\ inbox' = Tail(inbox)
        /\ waiting' = [waiting EXCEPT ![owner[Head(inbox)]] = FALSE]
        /\ UNCHANGED <<owner, outcome, withdrawn, closed>>
    BY <1>6 DEF Deliver
  <2>2. /\ inbox' \in Seq(Request)
        /\ DOMAIN inbox' = 1 .. (Len(inbox) - 1)
        /\ \A p \in DOMAIN inbox' : inbox'[p] = inbox[p + 1] /\ p + 1 \in DOMAIN inbox
    BY <1>0, <2>1, TakeFirst
  <2>3. ContractTypes' /\ MadeInOrder'
    BY <2>1, <2>2 DEF ContractTypes, MadeInOrder
  <2>4. InboxIsOlder'
    BY <2>1, <2>2 DEF InboxIsOlder
  <2>5. AnswersInOrder'
    <3> SUFFICES ASSUME NEW p \in DOMAIN inbox', NEW q \in DOMAIN inbox', p < q
                 PROVE  inbox'[p] < inbox'[q]
      BY DEF AnswersInOrder
    <3> QED
      BY <1>0, <2>2 DEF AnswersInOrder
  <2>6. WaitingIsFounded'
    <3>1. \A j \in Request : j # Head(inbox) /\ (\E p \in DOMAIN inbox : inbox[p] = j) =>
             \E p \in DOMAIN inbox' : inbox'[p] = j
      BY <1>0, <2>1, StaysBehind
    <3>2. \A m \in Node : waiting'[m] => waiting[m] /\ m # owner[Head(inbox)]
      BY <2>1 DEF ContractTypes
    <3> QED
      BY <2>1, <3>1, <3>2 DEF WaitingIsFounded
  <2> QED BY <2>3, <2>4, <2>5, <2>6
<1>7. CASE Close
  BY <1>7, InboxKept DEF Close, ContractTypes, MadeInOrder, WaitingIsFounded
<1>8. CASE UNCHANGED vars
  BY <1>8, InboxKept DEF vars, ContractTypes, MadeInOrder, WaitingIsFounded
<1> QED
  BY <1>1, <1>2, <1>3, <1>4, <1>5, <1>6, <1>7, <1>8 DEF Next

\* Whatever is asked, withdrawn, answered or closed: answers arrive in the order
\* of the requests, and a node that waits in an open service waits for something.
THEOREM PromiseHolds ==
  ASSUME ContractAssumption PROVE Spec => []PromiseIsKept
<1>1. CInv => PromiseIsKept
  BY DEF CInv
<1>2. (Init => CInv) /\ (CInv /\ [Next]_vars => CInv')
  BY InitKept, StepKept
<1> QED
  BY <1>1, <1>2, PTL DEF Spec
=============================================================================
