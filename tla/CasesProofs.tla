----------------------------- MODULE CasesProofs -----------------------------
(***************************************************************************)
(* Proofs about Cases, for any number of cases, specialists and requests   *)
(* in flight, and any bound on the messages; and about the page that shows *)
(* one (CasePage), for any number of messages, visits, connections that    *)
(* drop and requests that fail.                                            *)
(***************************************************************************)
EXTENDS Cases, CasePage, FiniteSetTheorems, SequenceTheorems, TLAPS

-----------------------------------------------------------------------------
(* The inductive invariant                                                 *)

Message == [kind : Op, author : User \cup {Nobody}, to : SUBSET User]

RequestType ==
  [op : Op, case : Case, actor : User, target : Specialist \cup {Nobody},
   at : {"reread", "find", "write", "notify"}, row : Row, message : Nat,
   tell : SUBSET User]

CaseTyped ==
  /\ case \in [Case -> Row]
  /\ messages \in [Case -> Seq(Message)]
  /\ readState \in [Case -> [User -> [last : Nat, unread : Nat]]]
  /\ request \in [Slot -> RequestType \cup {Free}]
  /\ \A k \in Case, u \in User : readState[k][u].last <= Len(messages[k])

(* What a request still works with was checked when it was read, and what  *)
(* it was told of the case is in the conversation by now.                  *)
Owes(r) ==
  /\ r.message <= Len(messages[r.case])
  /\ r.at = "reread" => r.op \in StatusOp
  /\ r.at = "find" => r.op = "read"
  /\ r.op \in AssignOp => r.target \in Specialist
  /\ r.op \in AssignOp /\ r.at = "write" =>
       /\ r.row.status \notin Closed \cup {"NONE"}
       /\ r.row.status \in {"SUBMITTED", "IN_PROGRESS"} => Said(r.case, {"submit"})

Requests == \A s \in Slot : request[s] # Free => Owes(request[s])

(* A specialist is only assigned to a case that is there. *)
Unassigned == \A k \in Case : case[k].status = "NONE" => case[k].specialist = Nobody

IInv ==
  /\ CaseTyped
  /\ Requests
  /\ Unassigned
  /\ StatusIsExplained
  /\ UnreadIsBounded

-----------------------------------------------------------------------------
(* How the conversations grow                                              *)

(* What others wrote after the last message the user has read. *)
Newer(k, u) ==
  {n \in DOMAIN messages[k] : n > readState[k][u].last /\ messages[k][n].author # u}

(* The bound on the unread counters, said of Newer. *)
NewerBoundsUnread ==
  \A k \in Case, u \in User : readState[k][u].unread <= Cardinality(Newer(k, u))

Talk == messages \in [Case -> Seq(Message)]

TalkCounted ==
  \A k \in Case, u \in User :
    IsFiniteSet(Newer(k, u)) /\ Cardinality(Newer(k, u)) \in Nat

(* Nothing is ever taken back from a conversation. *)
TalkGrows ==
  /\ messages' \in [Case -> Seq(Message)]
  /\ readState' \in [Case -> [User -> [last : Nat, unread : Nat]]]
  /\ \A k \in Case : Len(messages[k]) <= Len(messages'[k])
  /\ \A k \in Case : \A n \in DOMAIN messages[k] :
       n \in DOMAIN messages'[k] /\ messages'[k][n] = messages[k][n]
  /\ \A k \in Case, u \in User : readState'[k][u].last <= Len(messages'[k])

(* A sequence has the indices 1 to its length.                             *)
LEMMA Indices ==
  ASSUME NEW S, NEW s \in Seq(S)
  PROVE  Len(s) \in Nat /\ DOMAIN s = 1 .. Len(s) /\ \A i \in 1 .. Len(s) : s[i] \in S
  OBVIOUS

(* A conversation is a sequence of messages.                               *)
LEMMA Conversation ==
  ASSUME Talk, NEW k \in Case
  PROVE  /\ messages[k] \in Seq(Message) /\ Len(messages[k]) \in Nat
         /\ DOMAIN messages[k] = 1 .. Len(messages[k])
  <1>1. messages[k] \in Seq(Message)
    BY DEF Talk
  <1> QED BY <1>1, Indices

(* What is unread of a conversation is a finite set.                       *)
LEMMA TalkIsCounted == Talk => TalkCounted
  <1> SUFFICES ASSUME Talk, NEW k \in Case, NEW u \in User
               PROVE  IsFiniteSet(Newer(k, u)) /\ Cardinality(Newer(k, u)) \in Nat
    BY DEF TalkCounted
  <1>1. Len(messages[k]) \in Nat /\ DOMAIN messages[k] = 1 .. Len(messages[k])
    BY Conversation
  <1>2. IsFiniteSet(1 .. Len(messages[k]))
    <2>1. 1 \in Int /\ Len(messages[k]) \in Int
      BY <1>1
    <2> QED BY <2>1, FS_Interval
  <1>3. Newer(k, u) \in SUBSET (1 .. Len(messages[k]))
    BY <1>1 DEF Newer
  <1>4. IsFiniteSet(Newer(k, u))
    BY <1>2, <1>3, FS_Subset
  <1> QED BY <1>4, FS_CardinalityType

LEMMA Bound == UnreadIsBounded <=> NewerBoundsUnread
  BY DEF UnreadIsBounded, NewerBoundsUnread, Newer

(* What was said stays said.                                               *)
LEMMA StillSaid ==
  ASSUME TalkGrows, NEW k \in Case, NEW kinds, Said(k, kinds)
  PROVE  Said(k, kinds)'
  BY DEF TalkGrows, Said

(* Nothing is said or read: the counters stay within their bounds.         *)
LEMMA Quiet ==
  ASSUME CaseTyped, UnreadIsBounded, UNCHANGED <<messages, readState>>
  PROVE  /\ TalkGrows /\ UnreadIsBounded'
         /\ \A j \in Case : \A kinds : Said(j, kinds)' <=> Said(j, kinds)
  <1>1. TalkGrows
    <2>1. \A k \in Case : Len(messages[k]) \in Nat
      BY Conversation DEF CaseTyped, Talk
    <2> QED BY <2>1 DEF TalkGrows, CaseTyped
  <1>2. UnreadIsBounded'
    BY DEF UnreadIsBounded
  <1>3. \A j \in Case : \A kinds : Said(j, kinds)' <=> Said(j, kinds)
    BY DEF Said
  <1> QED BY <1>1, <1>2, <1>3

(* A message is written in the transaction that counts it: the others'     *)
(* counters rise by one at most, and it is newer than all they have read.  *)
LEMMA MessageWritten ==
  ASSUME CaseTyped, UnreadIsBounded, NEW k \in Case, NEW kind \in Op,
         NEW author \in User \cup {Nobody}, NEW to, NEW told \in SUBSET User,
         Says(k, kind, author, told),
         readState' = [readState EXCEPT ![k] = Bumped(k, to, author, Len(messages[k]) + 1)]
  PROVE  /\ TalkGrows /\ UnreadIsBounded'
         /\ Len(messages'[k]) = Len(messages[k]) + 1
         /\ \A j \in Case : \A kinds :
              Said(j, kinds)' <=> (Said(j, kinds) \/ (j = k /\ kind \in kinds))
  <1> DEFINE n == Len(messages[k]) + 1
             m == [kind |-> kind, author |-> author, to |-> told]
  <1>1. m \in Message
    BY DEF Message
  <1>2. /\ messages[k] \in Seq(Message) /\ Len(messages[k]) \in Nat
        /\ DOMAIN messages[k] = 1 .. Len(messages[k])
    BY Conversation DEF CaseTyped, Talk
  <1>3. /\ messages' = [messages EXCEPT ![k] = Append(messages[k], m)]
        /\ messages'[k] = Append(messages[k], m)
        /\ \A j \in Case \ {k} : messages'[j] = messages[j]
    BY DEF Says, CaseTyped
  <1> HIDE DEF m
  <1>4. /\ messages'[k] \in Seq(Message) /\ Len(messages'[k]) = n
        /\ DOMAIN messages'[k] = 1 .. n
        /\ messages'[k][n] = m
        /\ \A i \in 1 .. Len(messages[k]) : messages'[k][i] = messages[k][i]
    <2>1. Append(messages[k], m) \in Seq(Message)
      BY <1>1, <1>2
    <2> QED BY <1>1, <1>2, <1>3, <2>1
  <1>5. messages' \in [Case -> Seq(Message)]
    BY <1>3, <1>4 DEF CaseTyped
  <1>6. /\ readState'[k] = Bumped(k, to, author, n)
        /\ \A j \in Case \ {k} : readState'[j] = readState[j]
    BY DEF CaseTyped
  <1>7. \A u \in User :
          /\ readState[k][u] \in [last : Nat, unread : Nat]
          /\ readState[k][u].last <= Len(messages[k])
          /\ readState[k][u].last \in Nat /\ readState[k][u].unread \in Nat
    BY DEF CaseTyped
  <1>8. \A u \in User :
          /\ readState'[k][u] \in [last : Nat, unread : Nat]
          /\ u = author => (readState'[k][u].last = n /\ readState'[k][u].unread = 0)
          /\ u # author =>
               (/\ readState'[k][u].last = readState[k][u].last
                /\ readState'[k][u].unread <= readState[k][u].unread + 1
                /\ u \notin to => readState'[k][u].unread = readState[k][u].unread)
    BY <1>2, <1>6, <1>7 DEF Bumped
  <1>9. readState' \in [Case -> [User -> [last : Nat, unread : Nat]]]
    <2>1. readState'[k] \in [User -> [last : Nat, unread : Nat]]
      <3>1. readState'[k] = [u \in User |-> readState'[k][u]]
        BY <1>6 DEF Bumped
      <3> QED BY <3>1, <1>8
    <2> QED BY <2>1 DEF CaseTyped
  <1>10. TalkGrows
    <2>1. \A j \in Case : Len(messages[j]) <= Len(messages'[j])
      <3>1. \A j \in Case : Len(messages[j]) \in Nat
        BY Conversation DEF CaseTyped, Talk
      <3> QED BY <3>1, <1>2, <1>3, <1>4
    <2>2. \A j \in Case : \A i \in DOMAIN messages[j] :
            i \in DOMAIN messages'[j] /\ messages'[j][i] = messages[j][i]
      BY <1>2, <1>3, <1>4
    <2>3. \A j \in Case, u \in User : readState'[j][u].last <= Len(messages'[j])
      <3> SUFFICES ASSUME NEW j \in Case, NEW u \in User
                   PROVE  readState'[j][u].last <= Len(messages'[j])
        OBVIOUS
      <3>1. CASE j # k
        BY <3>1, <1>3, <1>6 DEF CaseTyped
      <3>2. CASE j = k /\ u = author
        BY <3>2, <1>2, <1>4, <1>8
      <3>3. CASE j = k /\ u # author
        BY <3>3, <1>2, <1>4, <1>7, <1>8
      <3> QED BY <3>1, <3>2, <3>3
    <2> QED BY <1>5, <1>9, <2>1, <2>2, <2>3 DEF TalkGrows
  <1>11. UnreadIsBounded'
    <2> SUFFICES NewerBoundsUnread'
      BY Bound, PTL
    <2> SUFFICES ASSUME NEW j \in Case, NEW u \in User
                 PROVE  readState'[j][u].unread <= Cardinality(Newer(j, u)')
      BY DEF NewerBoundsUnread
    <2>a. TalkCounted /\ TalkCounted'
      <3>1. Talk /\ Talk'
        BY <1>5 DEF CaseTyped, Talk
      <3> QED BY <3>1, TalkIsCounted, PTL
    <2>0. /\ IsFiniteSet(Newer(j, u)) /\ Cardinality(Newer(j, u)) \in Nat
          /\ IsFiniteSet(Newer(j, u)') /\ Cardinality(Newer(j, u)') \in Nat
          /\ readState[j][u].unread <= Cardinality(Newer(j, u))
      <3>1. IsFiniteSet(Newer(j, u)) /\ Cardinality(Newer(j, u)) \in Nat
        BY <2>a DEF TalkCounted
      <3>2. IsFiniteSet(Newer(j, u)') /\ Cardinality(Newer(j, u)') \in Nat
        BY <2>a DEF TalkCounted
      <3>3. readState[j][u].unread <= Cardinality(Newer(j, u))
        BY Bound DEF NewerBoundsUnread
      <3> QED BY <3>1, <3>2, <3>3
    <2>1. CASE j # k
      <3>1. messages'[j] = messages[j] /\ readState'[j] = readState[j]
        BY <2>1, <1>3, <1>6
      <3>2. Newer(j, u)' = Newer(j, u)
        BY <3>1 DEF Newer
      <3>3. readState'[j][u].unread = readState[j][u].unread
        BY <3>1
      <3>4. readState[j][u].unread <= Cardinality(Newer(j, u))
        BY <2>0
      <3> QED BY <3>2, <3>3, <3>4
    <2>2. CASE j = k /\ u = author
      BY <2>0, <2>2, <1>8
    <2>3. CASE j = k /\ u # author
      <3>1. Newer(k, u)' = Newer(k, u) \cup {n}
        <4>1. \A i : i \in 1 .. n <=> (i \in 1 .. Len(messages[k]) \/ i = n)
          BY <1>2
        <4>2. /\ readState'[k][u].last = readState[k][u].last
              /\ readState[k][u].last < n
          BY <2>3, <1>2, <1>7, <1>8
        <4>3. messages'[k][n].author # u
          BY <2>3, <1>4 DEF m
        <4>4. \A i \in 1 .. Len(messages[k]) : i \in Newer(k, u)' <=> i \in Newer(k, u)
          BY <4>1, <4>2, <1>2, <1>4 DEF Newer
        <4>5. n \in Newer(k, u)'
          BY <4>1, <4>2, <4>3, <1>4 DEF Newer
        <4>6. /\ \A i \in Newer(k, u) : i \in 1 .. Len(messages[k])
              /\ \A i \in Newer(k, u)' : i \in 1 .. n
          BY <1>2, <1>4 DEF Newer
        <4> HIDE DEF n
        <4> QED BY <4>1, <4>4, <4>5, <4>6
      <3>2. n \notin Newer(k, u)
        BY <1>2 DEF Newer
      <3>3. Cardinality(Newer(k, u)') = Cardinality(Newer(k, u)) + 1
        BY <2>0, <2>3, <3>1, <3>2, FS_AddElement
      <3> QED BY <2>0, <2>3, <3>3, <1>7, <1>8
    <2> QED BY <2>1, <2>2, <2>3
  <1>12. \A j \in Case : \A kinds :
           Said(j, kinds)' <=> (Said(j, kinds) \/ (j = k /\ kind \in kinds))
    <2> SUFFICES ASSUME NEW j \in Case, NEW kinds
                 PROVE  Said(j, kinds)' <=> (Said(j, kinds) \/ (j = k /\ kind \in kinds))
      OBVIOUS
    <2>1. CASE j # k
      BY <2>1, <1>3 DEF Said
    <2>2. CASE j = k
      <3>1. m.kind = kind
        BY DEF m
      <3>2. \A i \in 1 .. n : i \in 1 .. Len(messages[k]) \/ i = n
        BY <1>2
      <3>3. n \in 1 .. n /\ \A i \in 1 .. Len(messages[k]) : i \in 1 .. n
        BY <1>2
      <3> QED BY <2>2, <3>1, <3>2, <3>3, <1>2, <1>4 DEF Said
    <2> QED BY <2>1, <2>2
  <1> QED BY <1>4, <1>10, <1>11, <1>12

-----------------------------------------------------------------------------
(* What a request still owes, and what a step leaves of the invariant      *)

(* What a request has checked stays true while conversations grow.         *)
LEMMA OwesStill ==
  ASSUME Talk, TalkGrows, NEW r \in RequestType, Owes(r)
  PROVE  Owes(r)'
  <1>1. r.case \in Case /\ r.message \in Nat
    BY DEF RequestType
  <1>2. r.message <= Len(messages'[r.case])
    <2>1. Len(messages[r.case]) \in Nat /\ Len(messages'[r.case]) \in Nat
      <3>1. messages[r.case] \in Seq(Message) /\ messages'[r.case] \in Seq(Message)
        BY <1>1 DEF Talk, TalkGrows
      <3> QED BY <3>1, Indices
    <2>2. Len(messages[r.case]) <= Len(messages'[r.case])
      BY <1>1 DEF TalkGrows
    <2> QED BY <1>1, <2>1, <2>2 DEF Owes
  <1>3. Said(r.case, {"submit"}) => Said(r.case, {"submit"})'
    BY <1>1, StillSaid
  <1> QED BY <1>2, <1>3 DEF Owes

(* A step that replaces one request keeps the types and what is owed.      *)
LEMMA Step ==
  ASSUME CaseTyped, Requests, TalkGrows, case' \in [Case -> Row],
         NEW s \in Slot, NEW r, request' = [request EXCEPT ![s] = r],
         r = Free \/ (r \in RequestType /\ Owes(r)')
  PROVE  CaseTyped' /\ Requests'
  <1>1. /\ request' \in [Slot -> RequestType \cup {Free}]
        /\ request'[s] = r
        /\ \A t \in Slot \ {s} : request'[t] = request[t]
    BY DEF CaseTyped
  <1>2. CaseTyped'
    BY <1>1 DEF CaseTyped, TalkGrows
  <1>3. Requests'
    <2> SUFFICES ASSUME NEW t \in Slot, request'[t] # Free
                 PROVE  Owes(request[t])'
      BY DEF Requests
    <2>1. CASE t = s
      <3>1. Owes(r)' /\ request'[t] = r
        BY <2>1, <1>1
      <3> QED BY <3>1 DEF Owes
    <2>2. CASE t # s
      <3>1. PICK q : q = request[t]
        OBVIOUS
      <3>2. request'[t] = q
        BY <2>2, <3>1, <1>1
      <3>3. q \in RequestType /\ Owes(q)
        <4>1. request[t] \in RequestType /\ Owes(request[t])
          BY <2>2, <1>1 DEF CaseTyped, Requests
        <4> QED BY <3>1, <4>1
      <3>4. Owes(q)'
        BY <3>3, OwesStill DEF CaseTyped, Talk
      <3> QED BY <3>2, <3>4 DEF Owes
    <2> QED BY <2>1, <2>2
  <1> QED BY <1>2, <1>3

(* A step that neither changes a case nor says that one was assigned.      *)
LEMMA StatusKept ==
  ASSUME StatusIsExplained, Unassigned, TalkGrows, case' = case,
         \A j \in Case : Said(j, AssignOp)' <=> Said(j, AssignOp)
  PROVE  StatusIsExplained' /\ Unassigned'
  <1>1. \A j \in Case : /\ Said(j, {"submit"}) => Said(j, {"submit"})'
                        /\ Said(j, {"archive"}) => Said(j, {"archive"})'
                        /\ Said(j, {"cancel"}) => Said(j, {"cancel"})'
    BY StillSaid
  <1>2. HistoryExplainsStatus'
    BY <1>1 DEF StatusIsExplained, HistoryExplainsStatus
  <1>3. ClosedIsDated' /\ Unassigned'
    BY DEF StatusIsExplained, ClosedIsDated, Unassigned
  <1> QED BY <1>2, <1>3 DEF StatusIsExplained

(* A request that has read or checked something, or is done.               *)
LEMMA RowReplaced ==
  ASSUME IInv, UNCHANGED <<case, messages, readState>>,
         NEW s \in Slot, NEW r, request' = [request EXCEPT ![s] = r],
         r = Free \/ (r \in RequestType /\ Owes(r))
  PROVE  IInv'
  <1>1. /\ TalkGrows /\ UnreadIsBounded'
        /\ \A j \in Case : \A kinds : Said(j, kinds)' <=> Said(j, kinds)
    BY Quiet DEF IInv
  <1>2. r = Free \/ (r \in RequestType /\ Owes(r)')
    BY <1>1, OwesStill DEF IInv, CaseTyped, Talk
  <1>3. CaseTyped' /\ Requests'
    <2>1. case' \in [Case -> Row]
      BY DEF IInv, CaseTyped
    <2> QED BY <1>1, <1>2, <2>1, Step DEF IInv
  <1>4. StatusIsExplained' /\ Unassigned'
    <2>1. \A j \in Case : Said(j, AssignOp)' <=> Said(j, AssignOp)
      BY <1>1
    <2> QED BY <1>1, <2>1, StatusKept DEF IInv
  <1> QED BY <1>1, <1>3, <1>4 DEF IInv

(* What a request in flight is.                                            *)
LEMMA InFlight ==
  ASSUME IInv, NEW s \in Slot, request[s] # Free
  PROVE  request[s] \in RequestType /\ Owes(request[s])
  BY DEF IInv, CaseTyped, Requests

(* After the commit, a request has its recipients to notify or is done.    *)
LEMMA AfterCommit ==
  ASSUME IInv, TalkGrows, case' \in [Case -> Row],
         NEW s \in Slot, request[s] # Free,
         NEW n \in Nat, NEW tell \in SUBSET User, Committed(s, n, tell),
         n <= Len(messages'[request[s].case])
  PROVE  CaseTyped' /\ Requests'
  <1>1. PICK q : q = request[s]
    OBVIOUS
  <1>2. q \in RequestType /\ Owes(q)
    <2>1. request[s] \in RequestType /\ Owes(request[s])
      BY InFlight
    <2> QED BY <1>1, <2>1
  <1> DEFINE done == [q EXCEPT !.at = "notify", !.row = NoCase, !.message = n, !.tell = tell]
  <1>3. request' = [request EXCEPT ![s] = IF tell = {} THEN Free ELSE done]
    BY <1>1 DEF Committed, IInv, CaseTyped
  <1>4. NoCase \in Row
    BY DEF NoCase, Row
  <1>5. done \in RequestType
    BY <1>2, <1>4 DEF RequestType
  <1>6. /\ done.case = q.case /\ done.op = q.op /\ done.target = q.target
        /\ done.at = "notify" /\ done.message = n
    BY <1>2 DEF RequestType
  <1>7. Owes(done)'
    <2> HIDE DEF done
    <2>1. n <= Len(messages'[q.case])
      BY <1>1
    <2> QED BY <1>2, <1>6, <2>1 DEF Owes
  <1> HIDE DEF done
  <1>8. CASE tell = {}
    <2>1. request' = [request EXCEPT ![s] = Free]
      BY <1>3, <1>8
    <2> QED BY <2>1, Step DEF IInv
  <1>9. CASE tell # {}
    <2>1. request' = [request EXCEPT ![s] = done]
      BY <1>3, <1>9
    <2>2. PICK r : r = done
      OBVIOUS
    <2>3. r \in RequestType /\ Owes(r)' /\ request' = [request EXCEPT ![s] = r]
      BY <2>1, <2>2, <1>5, <1>7
    <2> QED BY <2>3, Step DEF IInv
  <1> QED BY <1>8, <1>9

-----------------------------------------------------------------------------
(* A request arrives                                                       *)

(* What a request is when it arrives.                                      *)
LEMMA Arrives ==
  ASSUME NEW op \in Op, NEW k \in Case, NEW actor \in User,
         NEW target \in Specialist \cup {Nobody},
         NEW at \in {"reread", "find", "write"}, NEW row \in Row
  PROVE  /\ Serving(op, k, actor, target, at, row) \in RequestType
         /\ Serving(op, k, actor, target, at, row).op = op
         /\ Serving(op, k, actor, target, at, row).case = k
         /\ Serving(op, k, actor, target, at, row).target = target
         /\ Serving(op, k, actor, target, at, row).at = at
         /\ Serving(op, k, actor, target, at, row).row = row
         /\ Serving(op, k, actor, target, at, row).message = 0
  BY DEF Serving, RequestType

(* The parts of a row that a request keeps are a row.                      *)
LEMMA Rows ==
  /\ NoCase \in Row /\ NewCase \in Row
  /\ \A row \in Row : /\ WhoIn(row) \in Row
                      /\ Assigning(row) \in Row /\ Assigning(row).status = row.status
  <1>1. NoCase \in Row
    BY DEF NoCase, Row
  <1>2. NewCase \in Row
    BY <1>1 DEF NewCase, Row
  <1>3. ASSUME NEW row \in Row
        PROVE  /\ WhoIn(row) \in Row
               /\ Assigning(row) \in Row /\ Assigning(row).status = row.status
    <2>1. row.specialist \in Specialist \cup {Nobody}
      BY DEF Row
    <2>2. row.status \in {"NONE", "DRAFT", "SUBMITTED", "IN_PROGRESS", "ARCHIVED", "CANCELED"}
      BY DEF Row
    <2> QED BY <1>1, <2>1, <2>2 DEF WhoIn, Assigning, Row
  <1> QED BY <1>1, <1>2, <1>3

(* A request that needs no more than its type.                             *)
LEMMA ArrivesFree ==
  ASSUME IInv, NEW s \in Slot, NEW op \in Op \ AssignOp, NEW k \in Case, NEW actor \in User,
         NEW at \in {"reread", "find", "write"}, NEW row \in Row,
         at = "reread" => op \in StatusOp, at = "find" => op = "read",
         request' = [request EXCEPT ![s] = Serving(op, k, actor, Nobody, at, row)],
         UNCHANGED <<case, messages, readState>>
  PROVE  IInv'
  <1>1. PICK r : r = Serving(op, k, actor, Nobody, at, row)
    OBVIOUS
  <1>2. /\ r \in RequestType /\ r.op = op /\ r.case = k /\ r.at = at /\ r.message = 0
    BY <1>1, Arrives
  <1>3. 0 <= Len(messages[k])
    BY Conversation DEF IInv, CaseTyped, Talk
  <1>4. Owes(r)
    BY <1>2, <1>3 DEF Owes
  <1> QED BY <1>1, <1>2, <1>4, RowReplaced

(* A request to assign keeps a case that was open when it was read.        *)
LEMMA ArrivesAssign ==
  ASSUME IInv, NEW s \in Slot, NEW op \in AssignOp, NEW k \in Case, NEW actor \in User,
         NEW target \in Specialist, Exists(k), case[k].status \notin Closed,
         request' = [request EXCEPT ![s] =
                       Serving(op, k, actor, target, "write", Assigning(case[k]))],
         UNCHANGED <<case, messages, readState>>
  PROVE  IInv'
  <1>1. PICK row : row = Assigning(case[k])
    OBVIOUS
  <1>2. row \in Row /\ row.status = case[k].status
    <2>1. case[k] \in Row
      BY DEF IInv, CaseTyped
    <2> QED BY <1>1, <2>1, Rows
  <1>3. PICK r : r = Serving(op, k, actor, target, "write", row)
    OBVIOUS
  <1>4. /\ r \in RequestType /\ r.op = op /\ r.case = k /\ r.at = "write"
        /\ r.message = 0 /\ r.row = row /\ r.target = target
    BY <1>2, <1>3, Arrives DEF AssignOp, Op
  <1>5. 0 <= Len(messages[k])
    BY Conversation DEF IInv, CaseTyped, Talk
  <1>6. case[k].status \in {"SUBMITTED", "IN_PROGRESS"} => Said(k, {"submit"})
    BY DEF IInv, StatusIsExplained, HistoryExplainsStatus
  <1>7. Owes(r)
    BY <1>2, <1>4, <1>5, <1>6 DEF Owes, Exists
  <1> QED BY <1>1, <1>3, <1>4, <1>7, RowReplaced

LEMMA AskPreserves ==
  ASSUME IInv, NEW s \in Slot, Ask(s)
  PROVE  IInv'
  <1> USE Rows
  <1>1. PICK k \in Case :
          \/ AskCreate(s, k)
          \/ \E op \in StatusOp : AskChange(s, op, k)
          \/ \E actor \in User :
               \/ AskPost(s, k, actor)
               \/ AskRead(s, k, actor)
               \/ \E specialist \in Specialist : AskAssign(s, k, actor, specialist)
          \/ \E specialist \in Specialist : AskReassign(s, k, specialist)
    BY DEF Ask
  <1>2. case[k] \in Row
    BY DEF IInv, CaseTyped
  <1>3. Owner \in User /\ Admin \in User
    BY DEF User
  <1>4. CASE AskCreate(s, k)
    <2>1. "create" \in Op \ AssignOp
      BY DEF Op, AssignOp
    <2> QED BY <1>3, <1>4, <2>1, ArrivesFree DEF AskCreate
  <1>5. ASSUME NEW op \in StatusOp, AskChange(s, op, k)
        PROVE  IInv'
    <2>1. op \in Op \ AssignOp
      BY DEF Op, AssignOp, StatusOp
    <2> QED BY <1>3, <1>5, <2>1, ArrivesFree DEF AskChange
  <1>6. ASSUME NEW actor \in User, AskPost(s, k, actor)
        PROVE  IInv'
    <2>1. "post" \in Op \ AssignOp
      BY DEF Op, AssignOp
    <2>2. PICK row \in Row : row = WhoIn(case[k])
      BY <1>2
    <2>3. /\ request' = [request EXCEPT ![s] = Serving("post", k, actor, Nobody, "write", row)]
          /\ UNCHANGED <<case, messages, readState>>
      BY <1>6, <2>2 DEF AskPost
    <2> QED BY <2>1, <2>3, ArrivesFree
  <1>7. ASSUME NEW actor \in User, AskRead(s, k, actor)
        PROVE  IInv'
    <2>1. "read" \in Op \ AssignOp
      BY DEF Op, AssignOp
    <2> QED BY <1>7, <2>1, ArrivesFree DEF AskRead
  <1>8. ASSUME NEW actor \in User, NEW specialist \in Specialist,
               AskAssign(s, k, actor, specialist)
        PROVE  IInv'
    BY <1>8, ArrivesAssign DEF AskAssign, AssignOp
  <1>9. ASSUME NEW specialist \in Specialist, AskReassign(s, k, specialist)
        PROVE  IInv'
    BY <1>3, <1>9, ArrivesAssign DEF AskReassign, AssignOp
  <1> QED BY <1>1, <1>4, <1>5, <1>6, <1>7, <1>8, <1>9

-----------------------------------------------------------------------------
(* A request is carried on                                                 *)

(* A new case is a draft that nothing was said of.                         *)
LEMMA CreatePreserves ==
  ASSUME IInv, NEW s \in Slot, Create(s)
  PROVE  IInv'
  <1>1. PICK k : k = request[s].case
    OBVIOUS
  <1>2. k \in Case
    BY <1>1, InFlight DEF Create, At, RequestType
  <1>3. /\ TalkGrows /\ UnreadIsBounded'
        /\ \A j \in Case : \A kinds : Said(j, kinds)' <=> Said(j, kinds)
    BY Quiet DEF IInv, Create
  <1>4. case' \in [Case -> Row]
    BY <1>2, <1>1, Rows DEF Create, IInv, CaseTyped
  <1>5. CaseTyped' /\ Requests'
    <2>1. request' = [request EXCEPT ![s] = Free]
      BY DEF Create
    <2> QED BY <1>3, <1>4, <2>1, Step DEF IInv
  <1>6. CASE Exists(k)
    <2>1. case' = case
      BY <1>1, <1>6 DEF Create
    <2>2. \A j \in Case : Said(j, AssignOp)' <=> Said(j, AssignOp)
      BY <1>3
    <2>3. StatusIsExplained' /\ Unassigned'
      BY <1>3, <2>1, <2>2, StatusKept DEF IInv
    <2> QED BY <1>3, <1>5, <2>3 DEF IInv
  <1>7. CASE ~Exists(k)
    <2>1. /\ case'[k] = NewCase
          /\ \A j \in Case \ {k} : case'[j] = case[j]
      BY <1>1, <1>2, <1>7 DEF Create, IInv, CaseTyped
    <2>2. case[k].specialist = Nobody
      BY <1>2, <1>7 DEF Exists, IInv, Unassigned
    <2>3. NewCase.status = "DRAFT" /\ NewCase.specialist = Nobody
      BY DEF NewCase, NoCase
    <2>4. HistoryExplainsStatus'
      <3> SUFFICES ASSUME NEW j \in Case
                   PROVE  /\ case'[j].status \in {"SUBMITTED", "IN_PROGRESS"}
                               => Said(j, {"submit"})'
                          /\ case'[j].status = "ARCHIVED" => Said(j, {"archive"})'
                          /\ case'[j].status = "CANCELED" => Said(j, {"cancel"})'
                          /\ case'[j].specialist # Nobody <=> Said(j, AssignOp)'
        BY DEF HistoryExplainsStatus
      <3>1. /\ case[j].status \in {"SUBMITTED", "IN_PROGRESS"} => Said(j, {"submit"})
            /\ case[j].status = "ARCHIVED" => Said(j, {"archive"})
            /\ case[j].status = "CANCELED" => Said(j, {"cancel"})
            /\ case[j].specialist # Nobody <=> Said(j, AssignOp)
        BY DEF IInv, StatusIsExplained, HistoryExplainsStatus
      <3> QED BY <1>3, <2>1, <2>2, <2>3, <3>1
    <2>5. ClosedIsDated'
      BY <2>1, <2>3 DEF ClosedIsDated, IInv, StatusIsExplained
    <2>6. Unassigned'
      BY <2>1, <2>3 DEF Unassigned, IInv
    <2> QED BY <1>3, <1>5, <2>4, <2>5, <2>6 DEF IInv, StatusIsExplained
  <1> QED BY <1>6, <1>7

LEMMA RereadPreserves ==
  ASSUME IInv, NEW s \in Slot, Reread(s)
  PROVE  IInv'
  <1>1. PICK q : q = request[s]
    OBVIOUS
  <1>2. /\ q \in RequestType /\ Owes(q) /\ q.at = "reread"
    <2>1. /\ request[s] \in RequestType /\ Owes(request[s]) /\ request[s].at = "reread"
      BY InFlight DEF Reread, At
    <2> QED BY <1>1, <2>1
  <1>3. PICK row : row = case[q.case]
    OBVIOUS
  <1>4. row \in Row
    BY <1>2, <1>3 DEF IInv, CaseTyped, RequestType
  <1>5. PICK r : r = [q EXCEPT !.at = "write", !.row = row]
    OBVIOUS
  <1>6. request' = [request EXCEPT ![s] = r]
    BY <1>1, <1>3, <1>5 DEF Reread, IInv, CaseTyped
  <1>7. /\ r \in RequestType
        /\ r.op = q.op /\ r.case = q.case /\ r.message = q.message /\ r.at = "write"
    BY <1>2, <1>4, <1>5 DEF RequestType
  <1>8. Owes(r)
    <2>1. q.op \notin AssignOp
      BY <1>2 DEF Owes, StatusOp, AssignOp
    <2> QED BY <1>2, <1>7, <2>1 DEF Owes
  <1>9. UNCHANGED <<case, messages, readState>>
    BY DEF Reread
  <1> QED BY <1>6, <1>7, <1>8, <1>9, RowReplaced

LEMMA FindMessagePreserves ==
  ASSUME IInv, NEW s \in Slot, FindMessage(s)
  PROVE  IInv'
  <1>1. PICK q : q = request[s]
    OBVIOUS
  <1>2. /\ q \in RequestType /\ Owes(q) /\ q.at = "find"
    <2>1. /\ request[s] \in RequestType /\ Owes(request[s]) /\ request[s].at = "find"
      BY InFlight DEF FindMessage, At
    <2> QED BY <1>1, <2>1
  <1>3. PICK n \in 0 .. Len(messages[request[s].case]) :
          request' = [request EXCEPT ![s].at = "write", ![s].message = n]
    BY DEF FindMessage
  <1>4. n \in Nat /\ n <= Len(messages[q.case])
    <2>1. Len(messages[q.case]) \in Nat
      BY <1>2, Conversation DEF IInv, CaseTyped, Talk, RequestType
    <2> QED BY <1>1, <1>3, <2>1
  <1>5. PICK r : r = [q EXCEPT !.at = "write", !.message = n]
    OBVIOUS
  <1>6. request' = [request EXCEPT ![s] = r]
    BY <1>1, <1>3, <1>5 DEF IInv, CaseTyped
  <1>7. /\ r \in RequestType
        /\ r.op = q.op /\ r.case = q.case /\ r.message = n /\ r.at = "write"
    BY <1>2, <1>4, <1>5 DEF RequestType
  <1>8. Owes(r)
    <2>1. q.op \notin AssignOp
      BY <1>2 DEF Owes, AssignOp
    <2> QED BY <1>4, <1>7, <2>1 DEF Owes
  <1>9. UNCHANGED <<case, messages, readState>>
    BY DEF FindMessage
  <1> QED BY <1>6, <1>7, <1>8, <1>9, RowReplaced

(* Taking part in a case.                                                  *)
LEMMA Participating ==
  ASSUME NEW row \in Row
  PROVE  Participants(row) \in SUBSET User
  BY DEF Participants, Row, User

(* The new status is written with its date and its message.                *)
LEMMA ChangeStatusPreserves ==
  ASSUME IInv, NEW s \in Slot, ChangeStatus(s)
  PROVE  IInv'
  <1>1. PICK q : q = request[s]
    OBVIOUS
  <1>2. /\ request[s] # Free /\ q \in RequestType /\ q.op \in StatusOp /\ q.case \in Case
        /\ q.row \in Row
    <2>1. request[s] \in RequestType /\ request[s] # Free /\ request[s].op \in StatusOp
      BY InFlight DEF ChangeStatus, At
    <2> QED BY <1>1, <2>1 DEF RequestType
  <1> DEFINE k == q.case
  <1>3. PICK n : n = Len(messages[k]) + 1
    OBVIOUS
  <1>4. PICK to : to = Participants(q.row)
    OBVIOUS
  <1>5. PICK told : told = to \ {q.actor}
    OBVIOUS
  <1>6. /\ n \in Nat /\ told \in SUBSET User
    <2>1. Len(messages[k]) \in Nat
      BY <1>2, Conversation DEF IInv, CaseTyped, Talk
    <2>2. to \in SUBSET User
      BY <1>2, <1>4, Participating
    <2> QED BY <1>3, <1>5, <2>1, <2>2
  <1>7. /\ case' = [case EXCEPT ![k] =
                      [Changed(q.op, q.row) EXCEPT !.specialist = case[k].specialist]]
        /\ Says(k, q.op, Nobody, told)
        /\ readState' = [readState EXCEPT ![k] = Bumped(k, to, Nobody, Len(messages[k]) + 1)]
        /\ Committed(s, n, told)
    BY <1>1, <1>3, <1>4, <1>5 DEF ChangeStatus
  <1>8. q.op \in Op
    BY <1>2 DEF StatusOp, Op
  <1>9. /\ TalkGrows /\ UnreadIsBounded'
        /\ Len(messages'[k]) = n
        /\ \A j \in Case : \A kinds :
             Said(j, kinds)' <=> (Said(j, kinds) \/ (j = k /\ q.op \in kinds))
    <2>1. Nobody \in User \cup {Nobody}
      OBVIOUS
    <2> QED BY <1>2, <1>3, <1>6, <1>7, <1>8, <2>1, MessageWritten DEF IInv
  <1>10. PICK new : new = [Changed(q.op, q.row) EXCEPT !.specialist = case[k].specialist]
    OBVIOUS
  <1>11. /\ new \in Row /\ new.specialist = case[k].specialist
         /\ new.status # "NONE"
         /\ new.status = "ARCHIVED" => (new.archived /\ q.op = "archive")
         /\ new.status = "CANCELED" => (new.canceled /\ q.op = "cancel")
         /\ new.status \in {"SUBMITTED", "IN_PROGRESS"} => q.op = "submit"
    <2>1. case[k].specialist \in Specialist \cup {Nobody}
      <3>1. case[k] \in Row
        BY <1>2 DEF IInv, CaseTyped
      <3> QED BY <3>1 DEF Row
    <2>2. CASE q.op = "submit"
      BY <2>1, <2>2, <1>2, <1>10 DEF Changed, Row
    <2>3. CASE q.op = "archive"
      BY <2>1, <2>3, <1>2, <1>10 DEF Changed, Row
    <2>4. CASE q.op = "cancel"
      BY <2>1, <2>4, <1>2, <1>10 DEF Changed, Row
    <2> QED BY <2>2, <2>3, <2>4, <1>2 DEF StatusOp
  <1>12. /\ case' \in [Case -> Row] /\ case'[k] = new
         /\ \A j \in Case \ {k} : case'[j] = case[j]
    BY <1>2, <1>7, <1>10, <1>11 DEF IInv, CaseTyped
  <1>13. CaseTyped' /\ Requests'
    BY <1>1, <1>2, <1>6, <1>7, <1>9, <1>12, AfterCommit
  <1>14. HistoryExplainsStatus'
    <2> SUFFICES ASSUME NEW j \in Case
                 PROVE  /\ case'[j].status \in {"SUBMITTED", "IN_PROGRESS"}
                             => Said(j, {"submit"})'
                        /\ case'[j].status = "ARCHIVED" => Said(j, {"archive"})'
                        /\ case'[j].status = "CANCELED" => Said(j, {"cancel"})'
                        /\ case'[j].specialist # Nobody <=> Said(j, AssignOp)'
      BY DEF HistoryExplainsStatus
    <2>1. /\ case[j].status \in {"SUBMITTED", "IN_PROGRESS"} => Said(j, {"submit"})
          /\ case[j].status = "ARCHIVED" => Said(j, {"archive"})
          /\ case[j].status = "CANCELED" => Said(j, {"cancel"})
          /\ case[j].specialist # Nobody <=> Said(j, AssignOp)
      BY DEF IInv, StatusIsExplained, HistoryExplainsStatus
    <2>2. q.op \notin AssignOp
      BY <1>2 DEF StatusOp, AssignOp
    <2>3. CASE j # k
      BY <2>1, <2>3, <1>9, <1>12
    <2>4. CASE j = k
      BY <2>1, <2>2, <2>4, <1>9, <1>11, <1>12
    <2> QED BY <2>3, <2>4
  <1>15. ClosedIsDated'
    BY <1>11, <1>12 DEF ClosedIsDated, IInv, StatusIsExplained
  <1>16. Unassigned'
    BY <1>11, <1>12 DEF Unassigned, IInv
  <1> QED BY <1>9, <1>13, <1>14, <1>15, <1>16 DEF IInv, StatusIsExplained

(* The status written back is that of an open case, as it was read: it was *)
(* explained then, and what was said since explains it still.              *)
LEMMA AssignPreserves ==
  ASSUME IInv, NEW s \in Slot, Assign(s)
  PROVE  IInv'
  <1>1. PICK q : q = request[s]
    OBVIOUS
  <1>2. /\ request[s] # Free /\ q \in RequestType /\ Owes(q) /\ q.op \in AssignOp
        /\ q.at = "write" /\ q.case \in Case /\ q.row \in Row /\ q.target \in Specialist
    <2>1. /\ request[s] \in RequestType /\ request[s] # Free /\ Owes(request[s])
          /\ request[s].op \in AssignOp /\ request[s].at = "write"
      BY InFlight DEF Assign, At
    <2> QED BY <1>1, <2>1 DEF RequestType, Owes
  <1> DEFINE k == q.case
  <1>3. PICK n : n = Len(messages[k]) + 1
    OBVIOUS
  <1>4. PICK before, after : /\ before = Participants(q.row)
                             /\ after = Participants([q.row EXCEPT !.specialist = q.target])
    OBVIOUS
  <1>5. PICK told, tell : /\ told = after \ {q.actor}
                          /\ tell = (before \cup after) \ {q.actor}
    OBVIOUS
  <1>6. /\ n \in Nat /\ told \in SUBSET User /\ tell \in SUBSET User
    <2>1. Len(messages[k]) \in Nat
      BY <1>2, Conversation DEF IInv, CaseTyped, Talk
    <2>2. [q.row EXCEPT !.specialist = q.target] \in Row
      BY <1>2 DEF Row
    <2>3. before \in SUBSET User /\ after \in SUBSET User
      BY <1>2, <1>4, <2>2, Participating
    <2> QED BY <1>3, <1>5, <2>1, <2>3
  <1>7. /\ case' = [case EXCEPT ![k].specialist = q.target,
                                ![k].status = AssignedStatus(q.row)]
        /\ Says(k, q.op, Nobody, told)
        /\ readState' = [readState EXCEPT ![k] = Bumped(k, after, Nobody, Len(messages[k]) + 1)]
        /\ Committed(s, n, tell)
    BY <1>1, <1>3, <1>4, <1>5 DEF Assign
  <1>8. q.op \in Op
    BY <1>2 DEF AssignOp, Op
  <1>9. /\ TalkGrows /\ UnreadIsBounded'
        /\ Len(messages'[k]) = n
        /\ \A j \in Case : \A kinds :
             Said(j, kinds)' <=> (Said(j, kinds) \/ (j = k /\ q.op \in kinds))
    <2>1. Nobody \in User \cup {Nobody}
      OBVIOUS
    <2> QED BY <1>2, <1>3, <1>6, <1>7, <1>8, <2>1, MessageWritten DEF IInv
  <1>10. PICK new : new = [case[k] EXCEPT !.specialist = q.target,
                                          !.status = AssignedStatus(q.row)]
    OBVIOUS
  <1>11. /\ new \in Row /\ new.specialist \in Specialist
         /\ new.status \notin Closed \cup {"NONE"}
         /\ new.status \in {"SUBMITTED", "IN_PROGRESS"} => Said(k, {"submit"})
    <2>1. case[k] \in Row
      BY <1>2 DEF IInv, CaseTyped
    <2>2. /\ q.row.status \notin Closed \cup {"NONE"}
          /\ q.row.status \in {"SUBMITTED", "IN_PROGRESS"} => Said(k, {"submit"})
      BY <1>2 DEF Owes
    <2>3. /\ AssignedStatus(q.row) \in {"DRAFT", "IN_PROGRESS"}
          /\ AssignedStatus(q.row) = "IN_PROGRESS" => Said(k, {"submit"})
      BY <1>2, <2>2 DEF AssignedStatus, Row, Closed
    <2>4. /\ new \in Row /\ new.specialist = q.target /\ new.status = AssignedStatus(q.row)
      BY <1>2, <1>10, <2>1, <2>3 DEF Row
    <2> QED BY <1>2, <2>3, <2>4 DEF Closed
  <1>12. /\ case' \in [Case -> Row] /\ case'[k] = new
         /\ \A j \in Case \ {k} : case'[j] = case[j]
    <2>1. case' = [case EXCEPT ![k] = new]
      BY <1>2, <1>7, <1>10 DEF IInv, CaseTyped
    <2> QED BY <1>2, <1>11, <2>1 DEF IInv, CaseTyped
  <1>13. CaseTyped' /\ Requests'
    BY <1>1, <1>2, <1>6, <1>7, <1>9, <1>12, AfterCommit
  <1>14. HistoryExplainsStatus'
    <2> SUFFICES ASSUME NEW j \in Case
                 PROVE  /\ case'[j].status \in {"SUBMITTED", "IN_PROGRESS"}
                             => Said(j, {"submit"})'
                        /\ case'[j].status = "ARCHIVED" => Said(j, {"archive"})'
                        /\ case'[j].status = "CANCELED" => Said(j, {"cancel"})'
                        /\ case'[j].specialist # Nobody <=> Said(j, AssignOp)'
      BY DEF HistoryExplainsStatus
    <2>1. /\ case[j].status \in {"SUBMITTED", "IN_PROGRESS"} => Said(j, {"submit"})
          /\ case[j].status = "ARCHIVED" => Said(j, {"archive"})
          /\ case[j].status = "CANCELED" => Said(j, {"cancel"})
          /\ case[j].specialist # Nobody <=> Said(j, AssignOp)
      BY DEF IInv, StatusIsExplained, HistoryExplainsStatus
    <2>2. \A kind \in Specialist : kind # Nobody
      BY CasesAssumption DEF User
    <2>3. CASE j # k
      BY <2>1, <2>3, <1>9, <1>12
    <2>4. CASE j = k
      BY <2>2, <2>4, <1>2, <1>9, <1>11, <1>12 DEF Closed
    <2> QED BY <2>3, <2>4
  <1>15. ClosedIsDated'
    BY <1>11, <1>12 DEF ClosedIsDated, IInv, StatusIsExplained, Closed
  <1>16. Unassigned'
    BY <1>11, <1>12 DEF Unassigned, IInv
  <1> QED BY <1>9, <1>13, <1>14, <1>15, <1>16 DEF IInv, StatusIsExplained

LEMMA PostPreserves ==
  ASSUME IInv, NEW s \in Slot, Post(s)
  PROVE  IInv'
  <1>1. PICK q : q = request[s]
    OBVIOUS
  <1>2. /\ request[s] # Free /\ q \in RequestType /\ q.case \in Case
        /\ q.row \in Row /\ q.actor \in User
    <2>1. request[s] \in RequestType /\ request[s] # Free
      BY InFlight DEF Post, At
    <2> QED BY <1>1, <2>1 DEF RequestType
  <1> DEFINE k == q.case
  <1>3. PICK n : n = Len(messages[k]) + 1
    OBVIOUS
  <1>4. PICK to : to = Participants(q.row) \ {q.actor}
    OBVIOUS
  <1>5. /\ n \in Nat /\ to \in SUBSET User
    <2>1. Len(messages[k]) \in Nat
      BY <1>2, Conversation DEF IInv, CaseTyped, Talk
    <2>2. Participants(q.row) \in SUBSET User
      BY <1>2, Participating
    <2> QED BY <1>3, <1>4, <2>1, <2>2
  <1>6. /\ Says(k, "post", q.actor, to)
        /\ readState' = [readState EXCEPT ![k] = Bumped(k, to, q.actor, Len(messages[k]) + 1)]
        /\ Committed(s, n, to)
        /\ case' = case
    BY <1>1, <1>3, <1>4 DEF Post
  <1>7. "post" \in Op /\ "post" \notin AssignOp
    BY DEF Op, AssignOp
  <1>8. /\ TalkGrows /\ UnreadIsBounded'
        /\ Len(messages'[k]) = n
        /\ \A j \in Case : \A kinds :
             Said(j, kinds)' <=> (Said(j, kinds) \/ (j = k /\ "post" \in kinds))
    BY <1>2, <1>3, <1>5, <1>6, <1>7, MessageWritten DEF IInv
  <1>9. CaseTyped' /\ Requests'
    <2>1. case' \in [Case -> Row]
      BY <1>6 DEF IInv, CaseTyped
    <2> QED BY <1>1, <1>2, <1>5, <1>6, <1>8, <2>1, AfterCommit
  <1>10. StatusIsExplained' /\ Unassigned'
    <2>1. \A j \in Case : Said(j, AssignOp)' <=> Said(j, AssignOp)
      BY <1>7, <1>8
    <2> QED BY <1>6, <1>8, <2>1, StatusKept DEF IInv
  <1> QED BY <1>8, <1>9, <1>10 DEF IInv

(* Whatever the reader saw last, nothing is unread then.                   *)
LEMMA MarkReadPreserves ==
  ASSUME IInv, NEW s \in Slot, MarkRead(s)
  PROVE  IInv'
  <1>1. PICK q : q = request[s]
    OBVIOUS
  <1>2. /\ q \in RequestType /\ Owes(q) /\ q.case \in Case /\ q.actor \in User
        /\ q.message \in Nat
    <2>1. request[s] \in RequestType /\ Owes(request[s])
      BY InFlight DEF MarkRead, At
    <2> QED BY <1>1, <2>1 DEF RequestType
  <1>3. /\ readState' = [readState EXCEPT ![q.case][q.actor] = [last |-> q.message, unread |-> 0]]
        /\ request' = [request EXCEPT ![s] = Free]
        /\ UNCHANGED <<case, messages>>
    BY <1>1 DEF MarkRead
  <1>4. Talk /\ Talk'
    BY <1>3 DEF IInv, CaseTyped, Talk
  <1>5. \A j \in Case : messages'[j] = messages[j] /\ Len(messages[j]) \in Nat
    BY <1>3, <1>4, Conversation
  <1>6. /\ readState' \in [Case -> [User -> [last : Nat, unread : Nat]]]
        /\ readState'[q.case][q.actor] = [last |-> q.message, unread |-> 0]
        /\ \A j \in Case, u \in User :
             (j # q.case \/ u # q.actor) => readState'[j][u] = readState[j][u]
    BY <1>2, <1>3 DEF IInv, CaseTyped
  <1>7. TalkGrows
    <2>1. q.message <= Len(messages[q.case])
      BY <1>2 DEF Owes
    <2>2. \A j \in Case, u \in User : readState'[j][u].last <= Len(messages'[j])
      <3> SUFFICES ASSUME NEW j \in Case, NEW u \in User
                   PROVE  readState'[j][u].last <= Len(messages'[j])
        OBVIOUS
      <3>1. CASE j = q.case /\ u = q.actor
        BY <2>1, <3>1, <1>3, <1>6
      <3>2. CASE ~(j = q.case /\ u = q.actor)
        BY <3>2, <1>3, <1>6 DEF IInv, CaseTyped
      <3> QED BY <3>1, <3>2
    <2> QED BY <1>3, <1>4, <1>5, <1>6, <2>2 DEF TalkGrows, Talk
  <1>8. UnreadIsBounded'
    <2> SUFFICES NewerBoundsUnread'
      BY Bound, PTL
    <2> SUFFICES ASSUME NEW j \in Case, NEW u \in User
                 PROVE  readState'[j][u].unread <= Cardinality(Newer(j, u)')
      BY DEF NewerBoundsUnread
    <2>1. CASE j = q.case /\ u = q.actor
      <3>1. TalkCounted'
        BY <1>4, TalkIsCounted, PTL
      <3>2. Cardinality(Newer(j, u)') \in Nat
        BY <3>1 DEF TalkCounted
      <3> QED BY <2>1, <3>2, <1>6
    <2>2. CASE ~(j = q.case /\ u = q.actor)
      <3>1. readState[j][u].unread <= Cardinality(Newer(j, u))
        BY Bound DEF IInv, NewerBoundsUnread
      <3>2. readState'[j][u] = readState[j][u]
        BY <2>2, <1>6
      <3>3. Newer(j, u)' = Newer(j, u)
        BY <3>2, <1>3 DEF Newer
      <3> QED BY <3>1, <3>2, <3>3
    <2> QED BY <2>1, <2>2
  <1>9. CaseTyped' /\ Requests'
    <2>1. case' \in [Case -> Row]
      BY <1>3 DEF IInv, CaseTyped
    <2> QED BY <1>3, <1>7, <2>1, Step DEF IInv
  <1>10. StatusIsExplained' /\ Unassigned'
    <2>1. \A j \in Case : Said(j, AssignOp)' <=> Said(j, AssignOp)
      BY <1>3 DEF Said
    <2> QED BY <1>3, <1>7, <2>1, StatusKept DEF IInv
  <1> QED BY <1>7, <1>8, <1>9, <1>10 DEF IInv

LEMMA NotifyPreserves ==
  ASSUME IInv, NEW s \in Slot, Notify(s)
  PROVE  IInv'
  <1>1. PICK q : q = request[s]
    OBVIOUS
  <1>2. /\ request[s] # Free /\ q \in RequestType /\ Owes(q) /\ q.case \in Case
        /\ q.message \in Nat /\ q.tell \in SUBSET User
    <2>1. request[s] \in RequestType /\ Owes(request[s]) /\ request[s] # Free
      BY InFlight DEF Notify, At
    <2> QED BY <1>1, <2>1 DEF RequestType
  <1>3. PICK u \in q.tell : Committed(s, q.message, q.tell \ {u})
    BY <1>1 DEF Notify
  <1>4. PICK tell : tell = q.tell \ {u}
    OBVIOUS
  <1>5. tell \in SUBSET User /\ Committed(s, q.message, tell)
    BY <1>2, <1>3, <1>4
  <1>6. UNCHANGED <<case, messages, readState>>
    BY DEF Notify
  <1>7. /\ TalkGrows /\ UnreadIsBounded'
        /\ \A j \in Case : \A kinds : Said(j, kinds)' <=> Said(j, kinds)
    BY <1>6, Quiet DEF IInv
  <1>8. CaseTyped' /\ Requests'
    <2>1. case' \in [Case -> Row]
      BY <1>6 DEF IInv, CaseTyped
    <2>2. q.message <= Len(messages'[request[s].case])
      BY <1>1, <1>2, <1>6 DEF Owes
    <2> QED BY <1>2, <1>5, <1>7, <2>1, <2>2, AfterCommit
  <1>9. StatusIsExplained' /\ Unassigned'
    <2>1. \A j \in Case : Said(j, AssignOp)' <=> Said(j, AssignOp)
      BY <1>7
    <2> QED BY <1>6, <1>7, <2>1, StatusKept DEF IInv
  <1> QED BY <1>7, <1>8, <1>9 DEF IInv

-----------------------------------------------------------------------------
(* The invariant holds                                                     *)

(* No case, no message, nobody in flight.                                  *)
LEMMA InitInv == Init => IInv
  <1> SUFFICES ASSUME Init
               PROVE  IInv
    OBVIOUS
  <1>1. \A k \in Case : case[k] = NoCase
    BY DEF Init
  <1>2. /\ NoCase.status = "NONE" /\ NoCase.specialist = Nobody
    BY DEF NoCase
  <1>3. \A k \in Case : messages[k] = <<>> /\ Len(messages[k]) = 0 /\ DOMAIN messages[k] = {}
    BY DEF Init
  <1>4. \A k \in Case, u \in User : readState[k][u] = [last |-> 0, unread |-> 0]
    BY DEF Init
  <1>5. CaseTyped
    <2>1. case \in [Case -> Row]
      BY Rows DEF Init
    <2>2. messages \in [Case -> Seq(Message)]
      BY DEF Init
    <2>3. readState \in [Case -> [User -> [last : Nat, unread : Nat]]]
      BY DEF Init
    <2>4. request \in [Slot -> RequestType \cup {Free}]
      BY DEF Init
    <2>5. \A k \in Case, u \in User : readState[k][u].last <= Len(messages[k])
      BY <1>3, <1>4
    <2> QED BY <2>1, <2>2, <2>3, <2>4, <2>5 DEF CaseTyped
  <1>6. Requests
    BY DEF Init, Requests
  <1>7. Unassigned
    BY <1>1, <1>2 DEF Unassigned
  <1>8. \A k \in Case : \A kinds : ~Said(k, kinds)
    BY <1>3 DEF Said
  <1>9. StatusIsExplained
    BY <1>1, <1>2, <1>8 DEF StatusIsExplained, HistoryExplainsStatus, ClosedIsDated
  <1>10. UnreadIsBounded
    <2>1. TalkCounted
      BY <1>5, TalkIsCounted DEF CaseTyped, Talk
    <2>2. NewerBoundsUnread
      BY <2>1, <1>4 DEF TalkCounted, NewerBoundsUnread
    <2> QED BY <2>2, Bound
  <1> QED BY <1>5, <1>6, <1>7, <1>9, <1>10 DEF IInv

(* Every step of every request keeps it.                                   *)
LEMMA NextInv == IInv /\ [Next]_vars => IInv'
  <1> SUFFICES ASSUME IInv, [Next]_vars
               PROVE  IInv'
    OBVIOUS
  <1>1. ASSUME NEW s \in Slot, Ask(s)
        PROVE  IInv'
    BY <1>1, AskPreserves
  <1>2. ASSUME NEW s \in Slot, Proceed(s)
        PROVE  IInv'
    <2>1. CASE Create(s)
      BY <2>1, CreatePreserves
    <2>2. CASE Reread(s)
      BY <2>2, RereadPreserves
    <2>3. CASE ChangeStatus(s)
      BY <2>3, ChangeStatusPreserves
    <2>4. CASE Assign(s)
      BY <2>4, AssignPreserves
    <2>5. CASE Post(s)
      BY <2>5, PostPreserves
    <2>6. CASE FindMessage(s)
      BY <2>6, FindMessagePreserves
    <2>7. CASE MarkRead(s)
      BY <2>7, MarkReadPreserves
    <2>8. CASE Notify(s)
      BY <2>8, NotifyPreserves
    <2> QED BY <1>2, <2>1, <2>2, <2>3, <2>4, <2>5, <2>6, <2>7, <2>8 DEF Proceed
  <1>3. CASE UNCHANGED vars
    <2>1. UNCHANGED <<case, messages, readState, request>>
      BY <1>3 DEF vars
    <2>2. /\ TalkGrows /\ UnreadIsBounded'
          /\ \A j \in Case : \A kinds : Said(j, kinds)' <=> Said(j, kinds)
      BY <2>1, Quiet DEF IInv
    <2>3. CaseTyped'
      BY <2>1 DEF IInv, CaseTyped
    <2>4. Requests'
      BY <2>1 DEF IInv, Requests, Owes, Said
    <2>5. StatusIsExplained' /\ Unassigned'
      BY <2>1, <2>2, StatusKept DEF IInv
    <2> QED BY <2>2, <2>3, <2>4, <2>5 DEF IInv
  <1> QED BY <1>1, <1>2, <1>3 DEF Next

(* The inductive invariant holds in every state of every case.             *)
THEOREM Invariant == Spec => []IInv
  BY InitInv, NextInv, PTL DEF Spec

(* The rows, the conversations and what a request has read keep their      *)
(* types, and a request or a reader only refers to messages that exist.    *)
THEOREM TypeCorrect == Spec => []TypeOK
  <1>1. IInv => TypeOK
    <2> SUFFICES ASSUME IInv
                 PROVE  TypeOK
      OBVIOUS
    <2>1. case \in [Case -> Row]
      BY DEF IInv, CaseTyped
    <2>2. ASSUME NEW k \in Case
          PROVE  /\ messages[k] \in
                      Seq([kind : Op, author : User \cup {Nobody}, to : SUBSET User])
                 /\ readState[k] \in [User -> [last : 0 .. Len(messages[k]), unread : Nat]]
      <3>1. messages[k] \in Seq(Message) /\ Len(messages[k]) \in Nat
        BY Conversation DEF IInv, CaseTyped, Talk
      <3>2. ASSUME NEW u \in User
            PROVE  readState[k][u] \in [last : 0 .. Len(messages[k]), unread : Nat]
        <4>1. /\ readState[k][u] \in [last : Nat, unread : Nat]
              /\ readState[k][u].last <= Len(messages[k])
          BY DEF IInv, CaseTyped
        <4> QED BY <3>1, <4>1
      <3>3. readState[k] \in [User -> [last : 0 .. Len(messages[k]), unread : Nat]]
        <4>1. readState[k] = [u \in User |-> readState[k][u]]
          BY DEF IInv, CaseTyped
        <4> QED BY <3>2, <4>1
      <3> QED BY <3>1, <3>3 DEF Message
    <2>3. ASSUME NEW s \in Slot, request[s] # Free
          PROVE  /\ request[s].row \in Row
                 /\ request[s].message <= Len(messages[request[s].case])
      BY <2>3, InFlight DEF RequestType, Owes
    <2> QED BY <2>1, <2>2, <2>3 DEF TypeOK
  <1> QED BY <1>1, Invariant, PTL

(* However the requests of the owner, the specialists and the admin        *)
(* overtake each other, each working from the row it has read, a status is *)
(* explained by the conversation and carries its date.                     *)
THEOREM Explained == Spec => []StatusIsExplained
  <1>1. IInv => StatusIsExplained
    BY DEF IInv
  <1> QED BY <1>1, Invariant, PTL

(* However messages and readers interleave, no counter ever claims more    *)
(* unread messages than were written after the last one read.              *)
THEOREM Bounded == Spec => []UnreadIsBounded
  <1>1. IInv => UnreadIsBounded
    BY DEF IInv
  <1> QED BY <1>1, Invariant, PTL

-----------------------------------------------------------------------------
(* The page: its inductive invariant.  The sets are of what there may be   *)
(* in a case of n messages.                                                *)

Envelopes(n) == [event : {"created"}, message : 1 .. n] \cup [event : {"read"}]

PageVisits(n) ==
  [open : {TRUE}, loading : BOOLEAN, found : BOOLEAN, shown : SUBSET (1 .. n), badge : Int,
   changed : BOOLEAN, newRow : BOOLEAN, seen : SUBSET (1 .. n), markFailed : BOOLEAN]

Loadings(n) == [list : {NotYet} \cup 0 .. n, row : Int, at : {"asked"}]

Sendings(n) ==
  {NoSend} \cup [at : {"post"}] \cup [at : {"posted", "mark", "load"}, message : 1 .. n]

PageTyped ==
  /\ pageScenario \in PageScenarios
  /\ log \in Seq(Author) /\ Len(log) <= pageScenario.log
  /\ unread \in Nat
  /\ unsent \subseteq 1 .. Len(log)
  /\ wire \in Seq(Envelopes(Len(log)))
  /\ visit = Away \/ visit \in PageVisits(Len(log))
  /\ load = NoLoad \/ load \in Loadings(Len(log))
  /\ sending \in Sendings(Len(log))

(* The page says that it loads while it does.                              *)
Loads == load # NoLoad => visit # Away /\ visit.loading

(* Whether or not it loads, the page shows what the user has seen.         *)
SeenIsShown == visit # Away => visit.seen \subseteq visit.shown

(* A list that has been read and not yet shown holds what the user has     *)
(* seen before, and what was sent.                                         *)
ListSuffices ==
  load # NoLoad /\ load.list # NotYet =>
    /\ visit.seen \subseteq 1 .. load.list
    /\ sending.at = "load" => sending.message \in 1 .. load.list

(* Nothing comes to a page that is not there, nor waits for it.            *)
OnlyOpen ==
  visit = Away => link = NoLink /\ wire = <<>> /\ marking = NoMarks /\ sending = NoSend

PageIInv == PageTyped /\ OnlyOpen /\ Loads /\ SeenIsShown /\ ListSuffices

-----------------------------------------------------------------------------
(* What there may be                                                       *)

(* An open page is not away, a load under way is not none.                 *)
LEMMA NeverAway ==
  ASSUME NEW n \in Nat
  PROVE  Away \notin PageVisits(n) /\ NoLoad \notin Loadings(n)
  BY DEF Away, PageVisits, NoLoad, Loadings

(* More messages leave room for more.                                      *)
LEMMA MoreMessages ==
  ASSUME NEW n \in Nat, NEW m \in Nat, n <= m
  PROVE  /\ PageVisits(n) \subseteq PageVisits(m)
         /\ Loadings(n) \subseteq Loadings(m)
         /\ Sendings(n) \subseteq Sendings(m)
         /\ Seq(Envelopes(n)) \subseteq Seq(Envelopes(m))
<1>1. 1 .. n \subseteq 1 .. m /\ 0 .. n \subseteq 0 .. m
  OBVIOUS
<1>2. PageVisits(n) \subseteq PageVisits(m)
  <2>1. SUBSET (1 .. n) \subseteq SUBSET (1 .. m)
    BY <1>1
  <2> QED
    BY <2>1 DEF PageVisits
<1>3. Loadings(n) \subseteq Loadings(m)
  BY <1>1 DEF Loadings
<1>4. Sendings(n) \subseteq Sendings(m)
  BY <1>1 DEF Sendings
<1>5. Envelopes(n) \subseteq Envelopes(m)
  BY <1>1 DEF Envelopes
<1>6. Seq(Envelopes(n)) \subseteq Seq(Envelopes(m))
  BY <1>5
<1> QED
  BY <1>2, <1>3, <1>4, <1>6

(* What the gateway does with an envelope.                                 *)
LEMMA Delivering ==
  ASSUME PageTyped, NEW e \in Envelopes(Len(log))
  PROVE  Delivered(e) \in Seq(Envelopes(Len(log)))
  BY DEF Delivered, PageTyped

(* The envelope of another read.                                           *)
LEMMA ReadEnvelope ==
  ASSUME NEW n
  PROVE  [event |-> "read"] \in Envelopes(n)
  BY DEF Envelopes

(* Nothing is delivered to a page that is not there.                       *)
LEMMA NothingDelivered ==
  ASSUME OnlyOpen, NEW e, wire' = Delivered(e), UNCHANGED <<visit, link, marking, sending>>
  PROVE  OnlyOpen'
  BY DEF OnlyOpen, Delivered, Joined, NoLink

(* The first envelope, and what is left.                                   *)
LEMMA FirstEnvelope ==
  ASSUME PageTyped, wire # <<>>
  PROVE  /\ Head(wire) \in Envelopes(Len(log))
         /\ Tail(wire) \in Seq(Envelopes(Len(log)))
  BY DEF PageTyped

(* The length of the log.                                                  *)
LEMMA Length ==
  ASSUME PageTyped
  PROVE  Len(log) \in Nat
  BY DEF PageTyped

(* A step that adds no message keeps the invariant if what it changes      *)
(* stays in place.                                                         *)
LEMMA SameLog ==
  ASSUME PageIInv, log' = log, pageScenario' = pageScenario,
         unsent' \subseteq unsent, unread' \in Nat,
         wire' \in Seq(Envelopes(Len(log))),
         visit' = Away \/ visit' \in PageVisits(Len(log)),
         load' = NoLoad \/ load' \in Loadings(Len(log)),
         sending' \in Sendings(Len(log)),
         OnlyOpen', Loads', SeenIsShown', ListSuffices'
  PROVE  PageIInv'
<1>1. PageTyped'
  BY DEF PageIInv, PageTyped
<1> QED
  BY <1>1 DEF PageIInv

(* Steps that leave page, load and sending alone.                          *)
LEMMA ServerOnly ==
  ASSUME PageIInv, log' = log, pageScenario' = pageScenario,
         unsent' \subseteq unsent, unread' \in Nat,
         wire' \in Seq(Envelopes(Len(log))), OnlyOpen',
         UNCHANGED <<visit, load, sending>>
  PROVE  PageIInv'
<1>1. Loads' /\ SeenIsShown' /\ ListSuffices'
  BY DEF PageIInv, Loads, SeenIsShown, ListSuffices
<1>2. /\ visit' = Away \/ visit' \in PageVisits(Len(log))
      /\ load' = NoLoad \/ load' \in Loadings(Len(log))
      /\ sending' \in Sendings(Len(log))
  BY DEF PageIInv, PageTyped
<1> QED
  BY <1>1, <1>2, SameLog

(* Steps that change of the page only what is neither shown nor seen.      *)
LEMMA PageOnly ==
  ASSUME PageIInv, log' = log, pageScenario' = pageScenario,
         unsent' = unsent, unread' = unread,
         wire' \in Seq(Envelopes(Len(log))),
         visit' \in PageVisits(Len(log)), visit # Away,
         visit'.loading = visit.loading, visit'.seen = visit.seen,
         visit.shown \subseteq visit'.shown,
         UNCHANGED <<load, sending>>
  PROVE  PageIInv'
<1>1. visit' # Away
  BY NeverAway, Length DEF PageIInv
<1>2. OnlyOpen' /\ Loads' /\ SeenIsShown' /\ ListSuffices'
  BY <1>1 DEF PageIInv, OnlyOpen, Loads, SeenIsShown, ListSuffices
<1>3. /\ load' = NoLoad \/ load' \in Loadings(Len(log))
      /\ sending' \in Sendings(Len(log)) /\ unread' \in Nat
  BY DEF PageIInv, PageTyped
<1> QED
  BY <1>2, <1>3, SameLog

(* Steps that change only how a message is sent, which is not being loaded. *)
LEMMA SendingOnly ==
  ASSUME PageIInv, log' = log, pageScenario' = pageScenario,
         UNCHANGED <<unsent, unread, wire, visit, load>>, visit # Away,
         sending' \in Sendings(Len(log)), sending'.at # "load"
  PROVE  PageIInv'
<1>1. OnlyOpen' /\ Loads' /\ SeenIsShown' /\ ListSuffices'
  BY DEF PageIInv, OnlyOpen, Loads, SeenIsShown, ListSuffices
<1>2. /\ visit' = Away \/ visit' \in PageVisits(Len(log))
      /\ load' = NoLoad \/ load' \in Loadings(Len(log))
      /\ wire' \in Seq(Envelopes(Len(log))) /\ unread' \in Nat
  BY DEF PageIInv, PageTyped
<1> QED
  BY <1>1, <1>2, SameLog

-----------------------------------------------------------------------------
(* The server                                                              *)

(* A new message is beyond every list there is.                            *)
LEMMA InsertKeeps ==
  ASSUME PageIInv, NEW a \in Author, Insert(a),
         UNCHANGED <<pageScenario, visit, load, wire>>, OnlyOpen',
         sending' \in Sendings(Len(log) + 1), sending' = sending \/ sending'.at = "posted"
  PROVE  PageIInv'
<1> DEFINE n == Len(log)
<1> USE DEF Insert
<1>1. n \in Nat /\ log \in Seq(Author)
  BY DEF PageIInv, PageTyped
<1>2. log' \in Seq(Author) /\ Len(log') = n + 1
  BY <1>1
<1>3. Len(log') <= pageScenario.log
  <2>1. pageScenario.log \in Nat
    BY PageAssumption DEF PageIInv, PageTyped
  <2> QED
    BY <1>1, <1>2, <2>1
<1>4. unread' \in Nat
  BY DEF PageIInv, PageTyped
<1>5. unsent' \subseteq 1 .. n + 1
  <2>1. unsent \subseteq 1 .. n /\ unsent' = unsent \cup {n + 1}
    BY DEF PageIInv, PageTyped
  <2> HIDE DEF n, Insert
  <2> QED
    BY <1>1, <2>1
<1>6. /\ PageVisits(n) \subseteq PageVisits(n + 1)
      /\ Loadings(n) \subseteq Loadings(n + 1)
      /\ Seq(Envelopes(n)) \subseteq Seq(Envelopes(n + 1))
  <2>1. n + 1 \in Nat /\ n <= n + 1
    BY <1>1
  <2> QED
    BY <1>1, <2>1, MoreMessages
<1>7. PageTyped'
  BY <1>2, <1>3, <1>4, <1>5, <1>6 DEF PageIInv, PageTyped
<1>8. Loads' /\ SeenIsShown' /\ ListSuffices'
  BY DEF PageIInv, Loads, SeenIsShown, ListSuffices
<1> QED
  BY <1>7, <1>8 DEF PageIInv

(* A message by another page or person.                                    *)
LEMMA PostElsewhereKeeps ==
  ASSUME PageIInv, PostElsewhere
  PROVE  PageIInv'
<1>1. PICK a \in pageScenario.authors : Insert(a)
  BY DEF PostElsewhere
<1>2. a \in Author
  BY <1>1, PageAssumption DEF PageIInv, PageTyped
<1>3. sending \in Sendings(Len(log) + 1)
  <2>1. Len(log) \in Nat /\ Len(log) + 1 \in Nat /\ Len(log) <= Len(log) + 1
    BY Length DEF PageIInv
  <2> QED
    BY <2>1, MoreMessages DEF PageIInv, PageTyped
<1>4. OnlyOpen'
  BY DEF PageIInv, OnlyOpen, PostElsewhere
<1> QED
  BY <1>1, <1>2, <1>3, <1>4, InsertKeeps DEF PostElsewhere, pageBounds

(* The message of the page itself.                                         *)
LEMMA PostByViewerKeeps ==
  ASSUME PageIInv, PostByViewer
  PROVE  PageIInv'
<1>1. Insert("viewer") /\ "viewer" \in Author
  BY DEF PostByViewer, Author
<1>2. sending' = [at |-> "posted", message |-> Len(log) + 1]
  BY DEF PostByViewer
<1>3. Len(log) \in Nat
  BY Length DEF PageIInv
<1>4. sending' \in Sendings(Len(log) + 1) /\ sending'.at = "posted"
  BY <1>2, <1>3 DEF Sendings
<1>5. OnlyOpen'
  BY DEF PageIInv, OnlyOpen, PostByViewer, NoSend
<1> QED
  BY <1>1, <1>4, <1>5, InsertKeeps DEF PostByViewer, pageBounds

(* A message that is emitted is one there is.                              *)
LEMMA EmitCreatedKeeps ==
  ASSUME PageIInv, NEW i \in unsent, EmitCreated(i)
  PROVE  PageIInv'
<1>1. i \in 1 .. Len(log) /\ PageTyped
  BY DEF PageIInv, PageTyped
<1>2. [event |-> "created", message |-> i] \in Envelopes(Len(log))
  BY <1>1 DEF Envelopes
<1>3. wire' \in Seq(Envelopes(Len(log)))
  BY <1>1, <1>2, Delivering DEF EmitCreated
<1>4. unread' \in Nat
  BY DEF EmitCreated, PageIInv, PageTyped
<1>5. OnlyOpen'
  BY NothingDelivered DEF PageIInv, EmitCreated
<1> QED
  BY <1>3, <1>4, <1>5, ServerOnly DEF EmitCreated, pageBounds

(* The viewer reads the case on another page.                              *)
LEMMA ReadElsewhereKeeps ==
  ASSUME PageIInv, ReadElsewhere
  PROVE  PageIInv'
<1>1. wire' \in Seq(Envelopes(Len(log)))
  BY ReadEnvelope, Delivering DEF ReadElsewhere, PageIInv
<1>2. OnlyOpen'
  BY NothingDelivered DEF PageIInv, ReadElsewhere
<1> QED
  BY <1>1, <1>2, ServerOnly DEF ReadElsewhere, pageBounds

(* The mark of the page is saved.                                          *)
LEMMA SaveReadKeeps ==
  ASSUME PageIInv, SaveRead
  PROVE  PageIInv'
<1>1. wire' \in Seq(Envelopes(Len(log)))
  BY ReadEnvelope, Delivering DEF SaveRead, PageIInv
<1>2. OnlyOpen'
  BY DEF PageIInv, OnlyOpen, SaveRead, NoMarks
<1> QED
  BY <1>1, <1>2, ServerOnly DEF SaveRead, pageBounds

(* What happens to the connection loses envelopes at most.                 *)
LEMMA LinkKeeps ==
  ASSUME PageIInv, Connect \/ HandleConnection \/ SubscribeCase \/ JoinRoom \/ DropConnection
  PROVE  PageIInv'
<1>1. wire' \in Seq(Envelopes(Len(log))) /\ unread' \in Nat
  <2>1. wire' = wire \/ wire' = <<>>
    BY DEF Connect, HandleConnection, SubscribeCase, JoinRoom, DropConnection
  <2>2. unread' = unread
    BY DEF Connect, HandleConnection, SubscribeCase, JoinRoom, DropConnection
  <2>3. wire \in Seq(Envelopes(Len(log))) /\ unread \in Nat
    BY DEF PageIInv, PageTyped
  <2>4. <<>> \in Seq(Envelopes(Len(log)))
    OBVIOUS
  <2> QED
    BY <2>1, <2>2, <2>3, <2>4
<1>2. /\ log' = log /\ pageScenario' = pageScenario /\ unsent' \subseteq unsent
      /\ UNCHANGED <<visit, load, sending>>
  BY DEF Connect, HandleConnection, SubscribeCase, JoinRoom, DropConnection, pageBounds
<1>3. OnlyOpen'
  BY DEF PageIInv, OnlyOpen, Connect, HandleConnection, SubscribeCase, JoinRoom,
         DropConnection, NoLink
<1> QED
  BY <1>1, <1>2, <1>3, ServerOnly

-----------------------------------------------------------------------------
(* The page                                                                *)

(* A new page shows nothing, and has nothing to lose.                      *)
LEMMA OpenPageKeeps ==
  ASSUME PageIInv, OpenPage
  PROVE  PageIInv'
<1> USE DEF OpenPage
<1>1. PageTyped /\ Len(log) \in Nat
  BY Length DEF PageIInv
<1>2. visit' \in PageVisits(Len(log))
  BY DEF PageVisits, NoRow
<1>3. load' \in Loadings(Len(log)) /\ load'.list = NotYet
  BY DEF Loadings, Reload, NotYet
<1>4. visit' # Away
  BY <1>1, <1>2, NeverAway
<1>5. visit'.loading /\ visit'.seen = {}
  OBVIOUS
<1>6. OnlyOpen' /\ Loads' /\ SeenIsShown' /\ ListSuffices'
  BY <1>3, <1>4, <1>5 DEF OnlyOpen, Loads, SeenIsShown, ListSuffices
<1> QED
  BY <1>1, <1>2, <1>3, <1>6, SameLog DEF PageTyped

(* Nor has one that is left.                                               *)
LEMMA ClosePageKeeps ==
  ASSUME PageIInv, ClosePage
  PROVE  PageIInv'
<1> USE DEF ClosePage
<1>1. OnlyOpen' /\ Loads' /\ SeenIsShown' /\ ListSuffices'
  BY DEF OnlyOpen, Loads, SeenIsShown, ListSuffices
<1>2. sending' \in Sendings(Len(log))
  BY DEF Sendings
<1>3. wire' \in Seq(Envelopes(Len(log))) /\ unread' \in Nat
  BY DEF PageIInv, PageTyped
<1> QED
  BY <1>1, <1>2, <1>3, SameLog DEF pageBounds

(* Where the answer has room for the whole conversation, the list holds    *)
(* all there is.                                                           *)
LEMMA ReadListKeeps ==
  ASSUME \A s \in PageScenarios : s.log <= PageTake, PageIInv, ReadList
  PROVE  PageIInv'
<1> DEFINE n == Len(log)
<1> USE DEF ReadList
<1>1. PageTyped /\ n \in Nat
  BY Length DEF PageIInv
<1>2. n <= PageTake
  BY <1>1, PageAssumption DEF PageTyped
<1>3. Min({n, PageTake}) = n
  BY <1>1, <1>2, PageAssumption DEF Min
<1>4. load \in Loadings(n) /\ load' = [load EXCEPT !.list = n]
  BY <1>1, <1>3 DEF PageTyped
<1>5. load' \in Loadings(n) /\ load'.list = n
  BY <1>1, <1>4 DEF Loadings
<1>6. Loads /\ visit # Away
  BY DEF PageIInv, Loads
<1>7. visit \in PageVisits(n) /\ sending \in Sendings(n)
  BY <1>1, <1>6 DEF PageTyped
<1>8. visit.seen \subseteq 1 .. n
  BY <1>7 DEF PageVisits
<1>9. sending.at = "load" => sending.message \in 1 .. n
  BY <1>7 DEF Sendings, NoSend
<1>10. OnlyOpen' /\ Loads' /\ SeenIsShown' /\ ListSuffices'
  BY <1>5, <1>6, <1>8, <1>9 DEF PageIInv, OnlyOpen, Loads, SeenIsShown, ListSuffices
<1> HIDE DEF n
<1>11. /\ wire' \in Seq(Envelopes(Len(log))) /\ unread' \in Nat
       /\ visit' = Away \/ visit' \in PageVisits(Len(log))
       /\ sending' \in Sendings(Len(log))
  BY <1>1 DEF PageTyped
<1> QED
  BY <1>5, <1>10, <1>11, SameLog DEF pageBounds, n

(* The row is no part of the list.                                         *)
LEMMA ReadRowKeeps ==
  ASSUME PageIInv, ReadRow
  PROVE  PageIInv'
<1> USE DEF ReadRow
<1>1. PageTyped /\ unread \in Nat
  BY DEF PageIInv, PageTyped
<1>2. load \in Loadings(Len(log)) /\ load' = [load EXCEPT !.row = unread]
  BY <1>1 DEF PageTyped
<1>3. load' \in Loadings(Len(log)) /\ load'.list = load.list
  BY <1>1, <1>2 DEF Loadings
<1>4. OnlyOpen' /\ Loads' /\ SeenIsShown' /\ ListSuffices'
  BY <1>3 DEF PageIInv, OnlyOpen, Loads, SeenIsShown, ListSuffices
<1>5. /\ wire' \in Seq(Envelopes(Len(log))) /\ unread' \in Nat
      /\ visit' = Away \/ visit' \in PageVisits(Len(log))
      /\ sending' \in Sendings(Len(log))
  BY <1>1 DEF PageTyped
<1> QED
  BY <1>3, <1>4, <1>5, SameLog DEF pageBounds

(* The list that replaces what is shown holds all that was seen.           *)
LEMMA EndLoadKeeps ==
  ASSUME PageIInv, EndLoad
  PROVE  PageIInv'
<1> DEFINE n == Len(log)
<1> USE DEF EndLoad
<1>1. PageTyped /\ n \in Nat /\ visit # Away
  BY Length DEF PageIInv, Loads
<1>2. visit \in PageVisits(n) /\ load \in Loadings(n) /\ sending \in Sendings(n)
  BY <1>1 DEF PageTyped
<1>3. load.list \in 0 .. n /\ load.row \in Int
  BY <1>2 DEF Loadings
<1>4. /\ visit.seen \subseteq 1 .. load.list
      /\ sending.at = "load" => sending.message \in 1 .. load.list
  BY DEF PageIInv, ListSuffices
<1> DEFINE seen == IF sending.at = "load" THEN visit.seen \cup {sending.message} ELSE visit.seen
<1>5. seen \subseteq 1 .. load.list
  BY <1>4
<1>6. visit' = [visit EXCEPT !.loading = FALSE, !.found = TRUE, !.shown = 1 .. load.list,
                             !.badge = load.row, !.changed = TRUE, !.newRow = TRUE,
                             !.seen = seen]
  OBVIOUS
<1>7. 1 .. load.list \subseteq 1 .. n
  BY <1>1, <1>3
<1>8. seen \in SUBSET (1 .. n) /\ 1 .. load.list \in SUBSET (1 .. n)
  BY <1>5, <1>7
<1> HIDE DEF n, seen, EndLoad
<1>9. visit' \in PageVisits(n)
  BY <1>2, <1>3, <1>6, <1>8 DEF PageVisits
<1> USE DEF EndLoad
<1>10. visit'.seen = seen /\ visit'.shown = 1 .. load.list
  BY <1>2, <1>6 DEF PageVisits
<1>11. load' = NoLoad /\ sending' = NoSend
  OBVIOUS
<1>12. visit' # Away
  BY <1>1, <1>9, NeverAway DEF n
<1>13. OnlyOpen' /\ Loads' /\ SeenIsShown' /\ ListSuffices'
  BY <1>5, <1>9, <1>10, <1>11, <1>12 DEF OnlyOpen, Loads, SeenIsShown, ListSuffices
<1>14. sending' \in Sendings(n)
  BY <1>11 DEF Sendings
<1>15. wire' \in Seq(Envelopes(Len(log))) /\ unread' \in Nat
  BY <1>1 DEF PageTyped
<1> QED
  BY <1>9, <1>11, <1>13, <1>14, <1>15, SameLog DEF pageBounds, n

(* After a failed load the page shows what it showed.                      *)
LEMMA FailLoadKeeps ==
  ASSUME PageIInv, FailLoad
  PROVE  PageIInv'
<1> DEFINE n == Len(log)
<1> USE DEF FailLoad
<1>1. PageTyped /\ visit # Away
  BY DEF PageIInv, Loads
<1>2. visit \in PageVisits(n)
  BY <1>1 DEF PageTyped
<1>3. visit' \in PageVisits(n) /\ visit'.seen = visit.seen /\ visit'.shown = visit.shown
  BY <1>2 DEF PageVisits
<1>4. load' = NoLoad /\ sending' = NoSend
  OBVIOUS
<1>5. visit' # Away
  BY <1>1, <1>3, NeverAway, Length
<1>6. OnlyOpen' /\ Loads' /\ SeenIsShown' /\ ListSuffices'
  BY <1>1, <1>3, <1>4, <1>5 DEF PageIInv, OnlyOpen, Loads, SeenIsShown, ListSuffices
<1>7. sending' \in Sendings(n)
  BY <1>4 DEF Sendings
<1>8. wire' \in Seq(Envelopes(Len(log))) /\ unread' \in Nat
  BY <1>1 DEF PageTyped
<1> QED
  BY <1>3, <1>4, <1>6, <1>7, <1>8, SameLog

(* An envelope is only on its way to a page that is open.                  *)
LEMMA ReceiveCreatedKeeps ==
  ASSUME PageIInv, ReceiveCreated
  PROVE  PageIInv'
<1>1. visit # Away
  BY DEF PageIInv, OnlyOpen, ReceiveCreated
<1> DEFINE n == Len(log)
           e == Head(wire)
<1> USE DEF ReceiveCreated
<1>2. PageTyped /\ n \in Nat
  BY Length DEF PageIInv
<1>3. visit \in PageVisits(n)
  BY <1>1, <1>2 DEF PageTyped
<1>4. e \in Envelopes(n) /\ wire' \in Seq(Envelopes(Len(log)))
  BY <1>2, FirstEnvelope
<1>5. e.message \in 1 .. n
  BY <1>4 DEF Envelopes
<1> DEFINE shown == visit.shown \cup {e.message}
           badge == Counted(visit.badge, log[e.message])
           newRow == visit.newRow \/ Counts(visit.badge, log[e.message])
<1>6. visit' = [visit EXCEPT !.shown = shown, !.badge = badge, !.changed = TRUE,
                             !.newRow = newRow]
  BY DEF Upserted
<1>7. shown \subseteq 1 .. n
  BY <1>3, <1>5 DEF PageVisits
<1>8. badge \in Int
  BY <1>3 DEF PageVisits, Counted
<1>9. newRow \in BOOLEAN
  BY <1>3 DEF PageVisits, Counts
<1>10. visit.shown \subseteq shown
  OBVIOUS
<1> HIDE DEF n, shown, badge, newRow
<1>11. visit' \in PageVisits(n)
  BY <1>3, <1>6, <1>7, <1>8, <1>9 DEF PageVisits
<1>12. visit'.loading = visit.loading /\ visit'.seen = visit.seen /\ visit'.shown = shown
  BY <1>3, <1>6 DEF PageVisits
<1> QED
  BY <1>1, <1>4, <1>10, <1>11, <1>12, PageOnly DEF pageBounds, n

(* Reading elsewhere clears the badge.                                     *)
LEMMA ReceiveReadKeeps ==
  ASSUME PageIInv, ReceiveRead
  PROVE  PageIInv'
<1>1. visit # Away
  BY DEF PageIInv, OnlyOpen, ReceiveRead
<1> USE DEF ReceiveRead
<1>2. visit \in PageVisits(Len(log)) /\ wire' \in Seq(Envelopes(Len(log)))
  BY <1>1, FirstEnvelope DEF PageIInv, PageTyped
<1> DEFINE badge == IF visit.badge = NoRow THEN NoRow ELSE 0
<1>3. badge \in Int /\ visit' = [visit EXCEPT !.badge = badge, !.changed = TRUE, !.newRow = TRUE]
  BY DEF NoRow
<1> HIDE DEF badge
<1>4. visit' \in PageVisits(Len(log))
  BY <1>2, <1>3 DEF PageVisits
<1>5. /\ visit'.loading = visit.loading /\ visit'.seen = visit.seen
      /\ visit'.shown = visit.shown
  BY <1>2 DEF PageVisits
<1> QED
  BY <1>1, <1>2, <1>4, <1>5, PageOnly DEF pageBounds

(* What is rendered is seen, but while the page loads nothing is.          *)
LEMMA RenderKeeps ==
  ASSUME PageIInv, Render
  PROVE  PageIInv'
<1> DEFINE n == Len(log)
           seen == IF visit.loading \/ ~visit.found THEN visit.seen
                   ELSE visit.seen \cup visit.shown
<1> USE DEF Render
<1>1. PageTyped /\ visit # Away /\ n \in Nat
  BY Length DEF PageIInv
<1>2. visit \in PageVisits(n)
  BY <1>1 DEF PageTyped
<1>3. visit' = [visit EXCEPT !.changed = FALSE, !.newRow = FALSE, !.seen = seen]
  OBVIOUS
<1>4. seen \subseteq 1 .. n
  BY <1>2 DEF PageVisits
<1>5. seen \subseteq visit.shown
  BY <1>1 DEF PageIInv, SeenIsShown
<1>6. visit.loading => seen = visit.seen
  OBVIOUS
<1> HIDE DEF n, seen
<1>7. visit' \in PageVisits(n)
  BY <1>2, <1>3, <1>4 DEF PageVisits
<1>8. visit'.seen = seen /\ visit'.shown = visit.shown /\ visit'.loading = visit.loading
  BY <1>2, <1>3 DEF PageVisits
<1>9. visit' # Away
  BY <1>1, <1>7, NeverAway DEF n
<1>10. OnlyOpen' /\ Loads' /\ SeenIsShown' /\ ListSuffices'
  BY <1>5, <1>6, <1>8, <1>9 DEF PageIInv, OnlyOpen, Loads, SeenIsShown, ListSuffices
<1>11. /\ wire' \in Seq(Envelopes(Len(log))) /\ unread' \in Nat
       /\ load' = NoLoad \/ load' \in Loadings(Len(log))
       /\ sending' \in Sendings(Len(log))
  BY <1>1 DEF PageTyped
<1> QED
  BY <1>7, <1>10, <1>11, SameLog DEF pageBounds, n

(* The answer to a mark clears the badge.                                  *)
LEMMA AnswerReadKeeps ==
  ASSUME PageIInv, AnswerRead
  PROVE  PageIInv'
<1>1. visit # Away
  BY DEF PageIInv, OnlyOpen, AnswerRead, NoMarks
<1> USE DEF AnswerRead
<1>2. visit \in PageVisits(Len(log)) /\ wire' \in Seq(Envelopes(Len(log)))
  BY <1>1 DEF PageIInv, PageTyped
<1>3. Zeroed(visit.badge) \in Int
  BY DEF Zeroed, NoRow
<1> HIDE DEF Zeroed
<1>4. visit' \in PageVisits(Len(log))
  BY <1>2, <1>3 DEF PageVisits
<1>5. /\ visit'.loading = visit.loading /\ visit'.seen = visit.seen
      /\ visit'.shown = visit.shown
  BY <1>2 DEF PageVisits
<1> QED
  BY <1>1, <1>2, <1>4, <1>5, PageOnly DEF pageBounds

(* A mark that fails is only remembered.                                   *)
LEMMA FailReadKeeps ==
  ASSUME PageIInv, FailRead
  PROVE  PageIInv'
<1>1. visit # Away
  BY DEF PageIInv, OnlyOpen, FailRead, NoMarks
<1> USE DEF FailRead
<1>2. visit \in PageVisits(Len(log)) /\ wire' \in Seq(Envelopes(Len(log)))
  BY <1>1 DEF PageIInv, PageTyped
<1>3. visit' \in PageVisits(Len(log))
  BY <1>2 DEF PageVisits
<1>4. /\ visit'.loading = visit.loading /\ visit'.seen = visit.seen
      /\ visit'.shown = visit.shown
  BY <1>2 DEF PageVisits
<1> QED
  BY <1>1, <1>2, <1>3, <1>4, PageOnly

-----------------------------------------------------------------------------
(* Sending                                                                 *)

(* Until it is loaded, a message that is sent changes nothing shown.       *)
LEMMA SendKeeps ==
  ASSUME PageIInv, Send \/ AnswerPost \/ FailSend
  PROVE  PageIInv'
<1>1. sending \in Sendings(Len(log))
  BY DEF PageIInv, PageTyped
<1>2. sending' \in Sendings(Len(log)) /\ sending'.at # "load"
  <2>1. CASE Send
    BY <2>1 DEF Send, Sendings
  <2>2. CASE AnswerPost
    BY <1>1, <2>2 DEF AnswerPost, Sendings, NoSend
  <2>3. CASE FailSend
    BY <2>3 DEF FailSend, Sendings, NoSend
  <2> QED
    BY <2>1, <2>2, <2>3
<1>3. /\ log' = log /\ pageScenario' = pageScenario
      /\ UNCHANGED <<unsent, unread, wire, visit, load>>
  BY DEF Send, AnswerPost, FailSend, pageBounds
<1>4. visit # Away
  BY DEF PageIInv, OnlyOpen, Send, AnswerPost, FailSend, NoSend
<1> QED
  BY <1>2, <1>3, <1>4, SendingOnly

(* The load that follows has yet to read its list.                         *)
LEMMA SaveReadBySenderKeeps ==
  ASSUME PageIInv, SaveReadBySender
  PROVE  PageIInv'
<1>1. visit # Away
  BY DEF PageIInv, OnlyOpen, SaveReadBySender, NoSend
<1> DEFINE n == Len(log)
<1> USE DEF SaveReadBySender
<1>2. PageTyped /\ n \in Nat
  BY Length DEF PageIInv
<1>3. visit \in PageVisits(n) /\ sending \in Sendings(n)
  BY <1>1, <1>2 DEF PageTyped
<1>4. visit' \in PageVisits(n)
  BY <1>3 DEF PageVisits
<1>5. visit'.loading /\ visit'.seen = visit.seen /\ visit'.shown = visit.shown
  BY <1>3 DEF PageVisits
<1>6. sending' \in Sendings(n)
  BY <1>3 DEF Sendings, NoSend
<1>7. load' \in Loadings(n) /\ load'.list = NotYet
  BY DEF Loadings, Reload, NotYet
<1>8. visit' # Away
  BY <1>2, <1>4, NeverAway
<1>9. visit.seen \subseteq visit.shown
  BY <1>1 DEF PageIInv, SeenIsShown
<1>10. OnlyOpen' /\ Loads' /\ SeenIsShown' /\ ListSuffices'
  BY <1>5, <1>7, <1>8, <1>9 DEF OnlyOpen, Loads, SeenIsShown, ListSuffices
<1>11. wire' \in Seq(Envelopes(n))
  BY <1>2, ReadEnvelope, Delivering
<1> QED
  BY <1>4, <1>6, <1>7, <1>10, <1>11, SameLog DEF pageBounds

-----------------------------------------------------------------------------
(* At first there is no page.                                              *)
LEMMA InitHolds ==
  ASSUME PageInit
  PROVE  PageIInv
<1> USE DEF PageInit
<1>1. Len(log) = 0 /\ log \in Seq(Author)
  OBVIOUS
<1>2. pageScenario \in PageScenarios /\ pageScenario.log \in Nat
  BY PageAssumption
<1>3. PageTyped
  BY <1>1, <1>2 DEF PageTyped, Sendings
<1>4. OnlyOpen /\ Loads /\ SeenIsShown /\ ListSuffices
  BY DEF OnlyOpen, Loads, SeenIsShown, ListSuffices
<1> QED
  BY <1>3, <1>4 DEF PageIInv

(* Every step preserves the invariant.                                     *)
LEMMA NextKeeps ==
  ASSUME \A s \in PageScenarios : s.log <= PageTake, PageIInv, [PageNext]_pageVars
  PROVE  PageIInv'
<1>1. CASE PostElsewhere \/ ReadElsewhere \/ \E i \in unsent : EmitCreated(i)
  BY <1>1, PostElsewhereKeeps, ReadElsewhereKeeps, EmitCreatedKeeps
<1>2. CASE OpenPage \/ ClosePage
  BY <1>2, OpenPageKeeps, ClosePageKeeps
<1>3. CASE ReadList
  BY <1>3, ReadListKeeps
<1>4. CASE ReadRow \/ EndLoad \/ FailLoad
  BY <1>4, ReadRowKeeps, EndLoadKeeps, FailLoadKeeps
<1>5. CASE Connect \/ HandleConnection \/ SubscribeCase \/ JoinRoom \/ DropConnection
  BY <1>5, LinkKeeps
<1>6. CASE ReceiveCreated \/ ReceiveRead \/ Render
  BY <1>6, ReceiveCreatedKeeps, ReceiveReadKeeps, RenderKeeps
<1>7. CASE SaveRead \/ AnswerRead \/ FailRead
  BY <1>7, SaveReadKeeps, AnswerReadKeeps, FailReadKeeps
<1>8. CASE Send \/ AnswerPost \/ FailSend
  BY <1>8, SendKeeps
<1>9. CASE PostByViewer \/ SaveReadBySender
  BY <1>9, PostByViewerKeeps, SaveReadBySenderKeeps
<1>10. CASE UNCHANGED pageVars
  <2>1. PageTyped'
    BY <1>10 DEF PageIInv, PageTyped, pageVars, pageBounds
  <2>2. OnlyOpen' /\ Loads' /\ SeenIsShown' /\ ListSuffices'
    BY <1>10 DEF PageIInv, OnlyOpen, Loads, SeenIsShown, ListSuffices, pageVars
  <2> QED
    BY <2>1, <2>2 DEF PageIInv
<1> QED
  BY <1>1, <1>2, <1>3, <1>4, <1>5, <1>6, <1>7, <1>8, <1>9, <1>10 DEF PageNext

(* While a case has no more messages than one answer holds, PageIInv is an     *)
(* invariant: a list read by loadAll is never older than what the user has *)
(* seen, because nothing more is seen until it is shown.                   *)
THEOREM PageInvariant ==
  ASSUME \A s \in PageScenarios : s.log <= PageTake
  PROVE  PageSpec => []PageIInv
<1>1. PageInit => PageIInv
  BY InitHolds
<1>2. PageIInv /\ [PageNext]_pageVars => PageIInv'
  BY NextKeeps
<1> QED
  BY <1>1, <1>2, PTL DEF PageSpec

(* In a case of no more messages than listMessages returns, the page shows *)
(* messages there are, and never loses one that was seen or sent, however  *)
(* loads and envelopes interleave (CaseDetail's setMessages).              *)
THEOREM SeenStay ==
  ASSUME \A s \in PageScenarios : s.log <= PageTake
  PROVE  PageSpec => []SeenMessagesStay
<1>1. PageIInv => SeenMessagesStay
  <2> SUFFICES ASSUME PageIInv, visit # Away
               PROVE  visit.shown \subseteq DOMAIN log /\ visit.seen \subseteq visit.shown
    BY DEF SeenMessagesStay
  <2>1. visit \in PageVisits(Len(log)) /\ log \in Seq(Author)
    BY DEF PageIInv, PageTyped
  <2>2. visit.shown \subseteq 1 .. Len(log) /\ DOMAIN log = 1 .. Len(log)
    BY <2>1 DEF PageVisits
  <2> QED
    BY <2>2 DEF PageIInv, SeenIsShown
<1> QED
  BY <1>1, PageInvariant, PTL

=============================================================================
