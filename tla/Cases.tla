-------------------------------- MODULE Cases --------------------------------
(***************************************************************************)
(* The relocation cases of one client, at most one for each profile        *)
(* (apps/api/src/cases/cases.service.ts).  A request reads the case and    *)
(* checks what it may do with it, and only later writes, in a transaction  *)
(* of its own, what it worked out from the row it has read; the            *)
(* notifications follow one by one after the commit.  Any number of        *)
(* requests of the owner, the specialists and an admin overlap.            *)
(***************************************************************************)
EXTENDS Integers, Sequences, FiniteSets

CONSTANTS
  Case,         \* the client's profiles, each with the case it may have
  Owner,        \* the client whose cases these are
  Admin,        \* a user whose role is ADMIN
  Specialist,   \* the users whose role is SPECIALIST
  Reader,       \* the users who mark what they have read
  Slot,         \* requests in flight at once
  MaxMessages   \* bound: no more messages are written to a case than this

User == {Owner, Admin} \cup Specialist
Nobody == "nobody"

ASSUME CasesAssumption ==
  /\ Owner # Admin /\ {Owner, Admin} \cap Specialist = {}
  /\ Nobody \notin User /\ Reader \subseteq User
  /\ MaxMessages \in Nat

VARIABLES
  case,         \* the RelocationCase rows
  messages,     \* the CaseMessage rows of each case, oldest first
  readState,    \* the CaseReadState rows: the last message read, unreadCount
  notices,      \* the notifications created: <<case, message, user>>
  request       \* what each request has read, and how far it has come

vars == <<case, messages, readState, notices, request>>

-----------------------------------------------------------------------------

Closed == {"ARCHIVED", "CANCELED", "COMPLETED"}
Pool == {"SUBMITTED", "IN_PROGRESS", "NEEDS_USER_INPUT"}

NoCase ==
  [status |-> "NONE", specialist |-> Nobody,
   submitted |-> FALSE, archived |-> FALSE, canceled |-> FALSE]

(* Seeded fault: a status that is not in the enum. *)
NewCaseUnlisted == [NoCase EXCEPT !.status = "OPEN"]

NewCase == [NoCase EXCEPT !.status = "DRAFT"]

Exists(k) == case[k].status # "NONE"

(* collectParticipantIds *)
Participants(row) == {Owner, row.specialist} \ {Nobody}

Op == {"create", "submit", "archive", "cancel", "assign", "reassign", "post", "read"}
StatusOp == {"submit", "archive", "cancel"}
AssignOp == {"assign", "reassign"}

Free == [op |-> "none"]

(* A request that keeps row of what it has read of case k; at is the step  *)
(* it takes next.                                                          *)
Serving(op, k, actor, target, at, row) ==
  [op |-> op, case |-> k, actor |-> actor, target |-> target, at |-> at,
   row |-> row, message |-> 0, tell |-> {}]

(* The parts of a row that decide who takes part, and who may be assigned. *)
WhoIn(row) == [NoCase EXCEPT !.specialist = row.specialist]
Assigning(row) == [NoCase EXCEPT !.specialist = row.specialist, !.status = row.status]

Init ==
  /\ case = [k \in Case |-> NoCase]
  /\ messages = [k \in Case |-> <<>>]
  /\ readState = [k \in Case |-> [u \in User |-> [last |-> 0, unread |-> 0]]]
  /\ notices = {}
  /\ request = [s \in Slot |-> Free]

-----------------------------------------------------------------------------
(* A request arrives, reads the case and passes the checks                 *)

(* createCase finds no active case for the profile. *)
AskCreate(s, k) ==
  /\ request[s] = Free
  /\ Exists(k) => case[k].status \in Closed
  /\ request' = [request EXCEPT ![s] = Serving("create", k, Owner, Nobody, "write", NoCase)]
  /\ UNCHANGED <<case, messages, readState, notices>>

(* submitCase, archiveCase and cancelCase, which only the owner may ask for. *)
MayChange(op, row) ==
  CASE op = "submit" -> row.status \in {"DRAFT", "NEEDS_USER_INPUT"}
    [] op = "archive" -> row.status # "ARCHIVED"
    [] op = "cancel" -> row.status \notin {"ARCHIVED", "COMPLETED"}

AskChange(s, op, k) ==
  /\ request[s] = Free
  /\ Exists(k) /\ MayChange(op, case[k])
  /\ request' = [request EXCEPT ![s] = Serving(op, k, Owner, Nobody, "reread", NoCase)]
  /\ UNCHANGED <<case, messages, readState, notices>>

(* assignToSelf and assignSpecialist: nobody is assigned yet. *)
AskAssign(s, k, actor, specialist) ==
  /\ request[s] = Free
  /\ Exists(k) /\ case[k].status \notin Closed
  /\ actor \in {Admin, specialist} /\ case[k].specialist = Nobody
  /\ request' = [request EXCEPT ![s] =
                   Serving("assign", k, actor, specialist, "write", Assigning(case[k]))]
  /\ UNCHANGED <<case, messages, readState, notices>>

(* reassignSpecialist: somebody else is. *)
AskReassign(s, k, specialist) ==
  /\ request[s] = Free
  /\ Exists(k) /\ case[k].status \notin Closed
  /\ case[k].specialist \notin {Nobody, specialist}
  /\ request' = [request EXCEPT ![s] =
                   Serving("reassign", k, Admin, specialist, "write", Assigning(case[k]))]
  /\ UNCHANGED <<case, messages, readState, notices>>

(* postMessage, by the owner, the admin or the specialist who is assigned. *)
AskPost(s, k, actor) ==
  /\ request[s] = Free
  /\ Exists(k) /\ case[k].status \notin {"ARCHIVED", "CANCELED"}
  /\ actor \in {Owner, Admin, case[k].specialist}
  /\ request' = [request EXCEPT ![s] =
                   Serving("post", k, actor, Nobody, "write", WhoIn(case[k]))]
  /\ UNCHANGED <<case, messages, readState, notices>>

(* updateReadState, by whoever has access to the case. *)
AskRead(s, k, actor) ==
  /\ request[s] = Free
  /\ actor \in Reader
  /\ Exists(k)
  /\ \/ actor \in {Owner, Admin, case[k].specialist}
     \/ actor \in Specialist /\ case[k].status \in Pool
  /\ request' = [request EXCEPT ![s] = Serving("read", k, actor, Nobody, "find", NoCase)]
  /\ UNCHANGED <<case, messages, readState, notices>>

-----------------------------------------------------------------------------
(* What the transactions write                                             *)

(* Seeded fault: the author's own message is counted as well. *)
BumpedWithAuthor(k, to, author, n) ==
  [u \in User |->
     IF u = author THEN [last |-> n, unread |-> 1]
     ELSE IF u \in to THEN [readState[k][u] EXCEPT !.unread = @ + 1]
     ELSE readState[k][u]]

(* bumpUnreadForRecipients for the n-th message; a SYSTEM message has no   *)
(* author.                                                                 *)
Bumped(k, to, author, n) ==
  [u \in User |->
     IF u = author THEN [last |-> n, unread |-> 0]
     ELSE IF u \in to THEN [readState[k][u] EXCEPT !.unread = @ + 1]
     ELSE readState[k][u]]

Says(k, kind, author, to) ==
  /\ Len(messages[k]) < MaxMessages
  /\ messages' = [messages EXCEPT ![k] =
                    Append(@, [kind |-> kind, author |-> author, to |-> to])]

(* Seeded fault: setArchivedAt and setCanceledAt are not passed on. *)
ChangedUndated(op, row) ==
  CASE op = "submit" -> [row EXCEPT !.status = "SUBMITTED", !.submitted = TRUE]
    [] op = "archive" -> [row EXCEPT !.status = "ARCHIVED"]
    [] op = "cancel" -> [row EXCEPT !.status = "CANCELED"]

(* changeCaseStatus writes the status and all three dates, those it does   *)
(* not set as it has read them.                                            *)
Changed(op, row) ==
  CASE op = "submit" -> [row EXCEPT !.status = "SUBMITTED", !.submitted = TRUE]
    [] op = "archive" -> [row EXCEPT !.status = "ARCHIVED", !.archived = TRUE]
    [] op = "cancel" -> [row EXCEPT !.status = "CANCELED", !.canceled = TRUE]

(* Seeded fault: any case that is assigned counts as in progress. *)
AssignedStatusAlways(row) == "IN_PROGRESS"

AssignedStatus(row) == IF row.status = "SUBMITTED" THEN "IN_PROGRESS" ELSE row.status

-----------------------------------------------------------------------------
(* The transactions                                                        *)

At(s, step) == request[s] # Free /\ request[s].at = step

(* profileId is unique: the insert fails when the profile has a case, be it *)
(* a closed one or one that another request has created meanwhile.          *)
Create(s) ==
  /\ At(s, "write") /\ request[s].op = "create"
  /\ IF Exists(request[s].case) THEN UNCHANGED case
     ELSE case' = [case EXCEPT ![request[s].case] = NewCase]
  /\ request' = [request EXCEPT ![s] = Free]
  /\ UNCHANGED <<messages, readState, notices>>

(* changeCaseStatus reads the case again, but checks nothing. *)
Reread(s) ==
  /\ At(s, "reread")
  /\ request' = [request EXCEPT ![s].at = "write", ![s].row = case[request[s].case]]
  /\ UNCHANGED <<case, messages, readState, notices>>

(* Once the n-th message is committed, tell are to be notified. *)
Committed(s, n, tell) ==
  request' = [request EXCEPT
    ![s] = IF tell = {} THEN Free
           ELSE [@ EXCEPT !.at = "notify", !.row = NoCase,
                          !.message = n, !.tell = tell]]

ChangeStatus(s) ==
  LET r == request[s]
      k == r.case
      to == Participants(r.row)
      n == Len(messages[k]) + 1
  IN  /\ At(s, "write") /\ r.op \in StatusOp
      /\ case' = [case EXCEPT ![k] =
                    [Changed(r.op, r.row) EXCEPT !.specialist = case[k].specialist]]
      /\ Says(k, r.op, Nobody, to \ {r.actor})
      /\ readState' = [readState EXCEPT ![k] = Bumped(k, to, Nobody, n)]
      /\ Committed(s, n, to \ {r.actor})
      /\ UNCHANGED notices

Assign(s) ==
  LET r == request[s]
      k == r.case
      before == Participants(r.row)
      after == Participants([r.row EXCEPT !.specialist = r.target])
      n == Len(messages[k]) + 1
  IN  /\ At(s, "write") /\ r.op \in AssignOp
      /\ case' = [case EXCEPT ![k].specialist = r.target,
                              ![k].status = AssignedStatus(r.row)]
      /\ Says(k, r.op, Nobody, after \ {r.actor})
      /\ readState' = [readState EXCEPT ![k] = Bumped(k, after, Nobody, n)]
      /\ Committed(s, n, (before \cup after) \ {r.actor})
      /\ UNCHANGED notices

Post(s) ==
  LET r == request[s]
      k == r.case
      to == Participants(r.row) \ {r.actor}
      n == Len(messages[k]) + 1
  IN  /\ At(s, "write") /\ r.op = "post"
      /\ Says(k, "post", r.actor, to)
      /\ readState' = [readState EXCEPT ![k] = Bumped(k, to, r.actor, n)]
      /\ Committed(s, n, to)
      /\ UNCHANGED <<case, notices>>

(* The message the reader names, the newest one, or none. *)
FindMessage(s) ==
  /\ At(s, "find")
  /\ \E n \in 0 .. Len(messages[request[s].case]) :
       request' = [request EXCEPT ![s].at = "write", ![s].message = n]
  /\ UNCHANGED <<case, messages, readState, notices>>

MarkRead(s) ==
  LET r == request[s]
  IN  /\ At(s, "write") /\ r.op = "read"
      /\ readState' = [readState EXCEPT ![r.case][r.actor] =
                         [last |-> r.message, unread |-> 0]]
      /\ request' = [request EXCEPT ![s] = Free]
      /\ UNCHANGED <<case, messages, notices>>

(* Seeded fault: only one of the recipients is notified. *)
NotifyOne(s) ==
  LET r == request[s]
  IN  /\ At(s, "notify")
      /\ \E u \in r.tell : notices' = notices \cup {<<r.case, r.message, u>>}
      /\ request' = [request EXCEPT ![s] = Free]
      /\ UNCHANGED <<case, messages, readState>>

(* createNotifications inserts one notification after the other. *)
Notify(s) ==
  LET r == request[s]
  IN  /\ At(s, "notify")
      /\ \E u \in r.tell :
           /\ notices' = notices \cup {<<r.case, r.message, u>>}
           /\ Committed(s, r.message, r.tell \ {u})
      /\ UNCHANGED <<case, messages, readState>>

-----------------------------------------------------------------------------

Ask(s) ==
  \E k \in Case :
    \/ AskCreate(s, k)
    \/ \E op \in StatusOp : AskChange(s, op, k)
    \/ \E actor \in User :
         \/ AskPost(s, k, actor)
         \/ AskRead(s, k, actor)
         \/ \E specialist \in Specialist : AskAssign(s, k, actor, specialist)
    \/ \E specialist \in Specialist : AskReassign(s, k, specialist)

Proceed(s) ==
  \/ Create(s) \/ Reread(s) \/ ChangeStatus(s) \/ Assign(s) \/ Post(s)
  \/ FindMessage(s) \/ MarkRead(s) \/ Notify(s)

Next == \E s \in Slot : Ask(s) \/ Proceed(s)

Spec == Init /\ [][Next]_vars

(* A request that has arrived is carried on; nobody has to send one. *)
FairSpec == Spec /\ \A s \in Slot : WF_vars(Proceed(s))

-----------------------------------------------------------------------------
(* Properties                                                              *)

(* Every variable keeps its shape; what a request or a reader refers to    *)
(* exists.                                                                 *)
Row == [status : {"NONE", "DRAFT", "SUBMITTED", "IN_PROGRESS", "ARCHIVED", "CANCELED"},
        specialist : Specialist \cup {Nobody},
        submitted : BOOLEAN, archived : BOOLEAN, canceled : BOOLEAN]

TypeOK ==
  /\ case \in [Case -> Row]
  /\ \A k \in Case :
       /\ messages[k] \in Seq([kind : Op, author : User \cup {Nobody}, to : SUBSET User])
       /\ readState[k] \in [User -> [last : 0 .. Len(messages[k]), unread : Nat]]
  /\ \A s \in Slot : request[s] # Free =>
       request[s].row \in Row /\ request[s].message <= Len(messages[request[s].case])

Said(k, kinds) == \E n \in DOMAIN messages[k] : messages[k][n].kind \in kinds

(* The conversation explains the case: whatever requests overtook each     *)
(* other, a case is only submitted, in progress, archived, canceled or     *)
(* assigned after the message that says so (the message is written in the  *)
(* transaction of the change).                                             *)
HistoryExplainsStatus ==
  \A k \in Case :
    /\ case[k].status \in {"SUBMITTED", "IN_PROGRESS"} => Said(k, {"submit"})
    /\ case[k].status = "ARCHIVED" => Said(k, {"archive"})
    /\ case[k].status = "CANCELED" => Said(k, {"cancel"})
    /\ case[k].specialist # Nobody <=> Said(k, AssignOp)

(* A closed case carries the date it was closed at, although every change  *)
(* of status writes all the dates, mostly from a row read earlier.         *)
ClosedIsDated ==
  \A k \in Case :
    /\ case[k].status = "ARCHIVED" => case[k].archived
    /\ case[k].status = "CANCELED" => case[k].canceled

(* The status of every case is explained by what was recorded of it.       *)
StatusIsExplained == HistoryExplainsStatus /\ ClosedIsDated

(* No phantom messages: unreadCount never exceeds the messages of others   *)
(* that were written after the last one the user has read, although a      *)
(* reader looks the message up before it resets the counter.               *)
UnreadIsBounded ==
  \A k \in Case, u \in User :
    LET newer == {n \in DOMAIN messages[k] :
                    n > readState[k][u].last /\ messages[k][n].author # u}
    IN  readState[k][u].unread <= Cardinality(newer)

(* Whoever a message was counted as unread for is notified of it, unless   *)
(* they caused it.                                                         *)
RecipientsAreNotified ==
  \A k \in Case, n \in 1 .. MaxMessages, u \in User :
    (n \in DOMAIN messages[k] /\ u \in messages[k][n].to)
      ~> <<k, n, u>> \in notices

(* No specialist is assigned to a closed case. *)
ClosedIsNotAssigned ==
  [][\A k \in Case :
       case[k].status \in Closed => case'[k].specialist = case[k].specialist]_vars

=============================================================================
