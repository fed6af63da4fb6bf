------------------------------ MODULE CasePage ------------------------------
(***************************************************************************)
(* The open page of a case and the messages that reach it: the pages       *)
(* CaseDetail.tsx with the hook useRealtimeCase.ts, the socket of          *)
(* realtime.gateway.ts, and of cases.service.ts only that a message is     *)
(* emitted to those in the room after it was committed.  Three requests    *)
(* load the page, envelopes arrive meanwhile, connections drop, and the    *)
(* page marks the case as read whenever it shows an unread message.        *)
(***************************************************************************)
EXTENDS Integers, Sequences, FiniteSets, FiniteSetsExt

CONSTANTS
  PageTake,         \* 500 in the code: messages that listMessages returns
  PageScenarios     \* [authors, log, drops, failures, visits]: who writes elsewhere, and
                    \*   bounds on the messages of the case, on connections that drop,
                    \*   on requests that fail, and on how often the page is opened

Author == {"viewer", "other", "system"}

ASSUME PageAssumption ==
  /\ PageTake \in Nat
  /\ \A s \in PageScenarios : s.authors \subseteq Author /\ s.log \in Nat

Away == [open |-> FALSE]
NoLink == [at |-> "off"]
NoLoad == [at |-> "idle"]
NotYet == -1
NoRow == -2         \* the viewer has no CaseReadState row on the page

VARIABLES
  pageScenario,
  log,              \* CaseMessage rows: their authors
  unread,           \* unreadCount of the viewer's CaseReadState row
  unsent,           \* messages committed and not yet emitted
  visit,            \* the page: what it shows, and (history) what the user has seen and
                    \*   whether it failed to mark the case as read
  load,             \* loadAll under way: the list and the row, once they are read
  link,             \* the page's socket, as page and gateway see it
  wire,             \* envelopes on their way to the page
  marking,          \* markCaseRead requests by stage, of the page's effect
  sending,          \* the stage of handleSend
  failures, visits, drops   \* counters for the bounds

pageBounds == <<pageScenario, failures, visits, drops>>
pageVars == <<log, unread, unsent, visit, load, link, wire, marking, sending, pageBounds>>

NoMarks == [asked |-> 0, saved |-> 0]
NoSend == [at |-> "no"]

PageInit ==
  /\ pageScenario \in PageScenarios
  /\ log = <<>> /\ unread = 0 /\ unsent = {}
  /\ visit = Away /\ load = NoLoad /\ link = NoLink /\ wire = <<>>
  /\ marking = NoMarks /\ sending = NoSend
  /\ failures = 0 /\ visits = 0 /\ drops = 0

-----------------------------------------------------------------------------
(* The server.                                                             *)

Joined == link.at = "on" /\ link.room

Delivered(envelope) == IF Joined THEN Append(wire, envelope) ELSE wire

(* The transactions of postMessage and of the operations that add a system *)
(* message: the row, and the counter of everybody else.                    *)
Insert(author) ==
  /\ Len(log) < pageScenario.log
  /\ log' = Append(log, author)
  /\ unread' = IF author = "viewer" THEN unread ELSE unread + 1
  /\ unsent' = unsent \cup {Len(log) + 1}

(* By others, or by the viewer on another page.                            *)
PostElsewhere ==
  /\ \E a \in pageScenario.authors : Insert(a)
  /\ UNCHANGED <<visit, load, link, wire, marking, sending, pageBounds>>

(* emitToCase, when the handler goes on after its transaction.             *)
EmitCreated(i) ==
  /\ i \in unsent
  /\ unsent' = unsent \ {i}
  /\ wire' = Delivered([event |-> "created", message |-> i])
  /\ UNCHANGED <<log, unread, visit, load, link, marking, sending, pageBounds>>

-----------------------------------------------------------------------------
(* The page opens and closes.  React unmounts the component and forgets    *)
(* its state; answers to an old page are ignored.                          *)

Reload == [list |-> NotYet, row |-> NotYet, at |-> "asked"]

OpenPage ==
  /\ visit = Away /\ visits < pageScenario.visits
  /\ visits' = visits + 1
  /\ visit' = [open |-> TRUE, loading |-> TRUE, found |-> FALSE, shown |-> {}, badge |-> NoRow,
               changed |-> FALSE, newRow |-> FALSE, seen |-> {},
               markFailed |-> FALSE]
  /\ load' = Reload
  /\ UNCHANGED <<pageScenario, log, unread, unsent, link, wire, marking, sending, failures,
                 drops>>

ClosePage ==
  /\ visit # Away
  /\ visit' = Away /\ load' = NoLoad /\ link' = NoLink /\ wire' = <<>>
  /\ marking' = NoMarks /\ sending' = NoSend
  /\ UNCHANGED <<log, unread, unsent, pageBounds>>

(* loadAll: the list, the read states (and the case) in three requests.    *)
ReadList ==
  /\ load # NoLoad /\ load.list = NotYet
  /\ load' = [load EXCEPT !.list = Min({Len(log), PageTake})]
  /\ UNCHANGED <<log, unread, unsent, visit, link, wire, marking, sending, pageBounds>>

ReadRow ==
  /\ load # NoLoad /\ load.row = NotYet
  /\ load' = [load EXCEPT !.row = unread]
  /\ UNCHANGED <<log, unread, unsent, visit, link, wire, marking, sending, pageBounds>>

(* All three are answered and replace what the page has.                   *)
EndLoad ==
  /\ load # NoLoad /\ load.list # NotYet /\ load.row # NotYet
  /\ visit' = [visit EXCEPT !.loading = FALSE, !.found = TRUE, !.shown = 1 .. load.list,
                            !.badge = load.row, !.changed = TRUE, !.newRow = TRUE,
                            !.seen = IF sending.at = "load" THEN @ \cup {sending.message} ELSE @]
  /\ load' = NoLoad
  /\ sending' = NoSend
  /\ UNCHANGED <<log, unread, unsent, link, wire, marking, pageBounds>>

FailLoad ==
  /\ load # NoLoad /\ failures < pageScenario.failures
  /\ failures' = failures + 1
  /\ visit' = [visit EXCEPT !.loading = FALSE, !.changed = TRUE]
  /\ load' = NoLoad
  /\ sending' = NoSend
  /\ UNCHANGED <<pageScenario, log, unread, unsent, link, wire, marking, visits, drops>>

-----------------------------------------------------------------------------
(* The socket.  The page subscribes as soon as it is connected, while the  *)
(* gateway still authenticates it (handleConnection awaits the database):  *)
(* a subscription that comes too soon is refused, and not repeated.        *)

Connect ==
  /\ visit # Away /\ link = NoLink
  /\ link' = [at |-> "on", user |-> FALSE, subscribe |-> "sent", room |-> FALSE]
  /\ UNCHANGED <<log, unread, unsent, visit, load, wire, marking, sending, pageBounds>>

HandleConnection ==
  /\ link.at = "on" /\ ~link.user
  /\ link' = [link EXCEPT !.user = TRUE]
  /\ UNCHANGED <<log, unread, unsent, visit, load, wire, marking, sending, pageBounds>>

SubscribeCase ==
  /\ link.at = "on" /\ link.subscribe = "sent"
  /\ link' = [link EXCEPT !.subscribe = IF link.user THEN "checking" ELSE "refused"]
  /\ UNCHANGED <<log, unread, unsent, visit, load, wire, marking, sending, pageBounds>>

(* canAccessCase has answered.                                             *)
JoinRoom ==
  /\ link.at = "on" /\ link.subscribe = "checking"
  /\ link' = [link EXCEPT !.subscribe = "done", !.room = TRUE]
  /\ UNCHANGED <<log, unread, unsent, visit, load, wire, marking, sending, pageBounds>>

(* What is on its way is lost; socket.io connects again.                   *)
DropConnection ==
  /\ link.at = "on" /\ drops < pageScenario.drops
  /\ drops' = drops + 1
  /\ link' = NoLink /\ wire' = <<>>
  /\ UNCHANGED <<pageScenario, log, unread, unsent, visit, load, marking, sending, failures,
                 visits>>

-----------------------------------------------------------------------------
(* The page's handlers.  An update is seen by effects, and by the user,    *)
(* when React renders; several may be rendered together.                   *)

(* Seeded fault: the list is the one the handler saw when it was made.     *)
UpsertedAtMount(shown, i) == {i}

Upserted(shown, i) == shown \cup {i}

(* Only a message somebody else wrote counts; system messages come by a    *)
(* handler of their own that does not count.                               *)
Counts(badge, author) == author = "other" /\ badge # NoRow

Counted(badge, author) == IF Counts(badge, author) THEN badge + 1 ELSE badge

ReceiveCreated ==
  /\ wire # <<>> /\ Head(wire).event = "created"
  /\ visit' = [visit EXCEPT !.shown = Upserted(@, Head(wire).message),
                            !.badge = Counted(@, log[Head(wire).message]), !.changed = TRUE,
                            !.newRow = @ \/ Counts(visit.badge, log[Head(wire).message])]
  /\ wire' = Tail(wire)
  /\ UNCHANGED <<log, unread, unsent, load, link, marking, sending, pageBounds>>

(* Seeded fault: the answer is left to the envelope that comes with it.    *)
LeftAsItIs(badge) == badge

Zeroed(badge) == IF badge = NoRow THEN NoRow ELSE 0

ReceiveRead ==
  /\ wire # <<>> /\ Head(wire).event = "read"
  /\ visit' = [visit EXCEPT !.badge = IF @ = NoRow THEN NoRow ELSE 0, !.changed = TRUE,
                            !.newRow = TRUE]
  /\ wire' = Tail(wire)
  /\ UNCHANGED <<log, unread, unsent, load, link, marking, sending, pageBounds>>

(* The user sees the page, unless it is loading; an effect marks the case  *)
(* as read when the row has changed and counts something.                  *)
Render ==
  /\ visit # Away /\ visit.changed
  /\ visit' = [visit EXCEPT !.changed = FALSE, !.newRow = FALSE,
                 !.seen = IF visit.loading \/ ~visit.found THEN @ ELSE @ \cup visit.shown]
  /\ marking' = [marking EXCEPT !.asked = IF visit.newRow /\ visit.badge > 0 THEN @ + 1 ELSE @]
  /\ UNCHANGED <<log, unread, unsent, load, link, wire, sending, pageBounds>>

(* updateReadState, then its answer and its envelope.                      *)
SaveRead ==
  /\ marking.asked > 0
  /\ marking' = [asked |-> marking.asked - 1, saved |-> marking.saved + 1]
  /\ unread' = 0
  /\ wire' = Delivered([event |-> "read"])
  /\ UNCHANGED <<log, unsent, visit, load, link, sending, pageBounds>>

(* The viewer's other pages do the same.                                   *)
ReadElsewhere ==
  /\ unread > 0
  /\ unread' = 0
  /\ wire' = Delivered([event |-> "read"])
  /\ UNCHANGED <<log, unsent, visit, load, link, marking, sending, pageBounds>>

AnswerRead ==
  /\ marking.saved > 0
  /\ marking' = [marking EXCEPT !.saved = @ - 1]
  /\ visit' = [visit EXCEPT !.badge = Zeroed(@), !.changed = TRUE, !.newRow = TRUE]
  /\ UNCHANGED <<log, unread, unsent, load, link, wire, sending, pageBounds>>

(* The request fails, or only its answer is lost: the effect ignores it.   *)
FailRead ==
  /\ failures < pageScenario.failures
  /\ failures' = failures + 1
  /\ \/ marking.asked > 0 /\ marking' = [marking EXCEPT !.asked = @ - 1]
     \/ marking.saved > 0 /\ marking' = [marking EXCEPT !.saved = @ - 1]
  /\ visit' = [visit EXCEPT !.markFailed = TRUE]
  /\ UNCHANGED <<pageScenario, log, unread, unsent, load, link, wire, sending, visits, drops>>

-----------------------------------------------------------------------------
(* handleSend: the message is posted, then the case marked as read, then   *)
(* the page loaded.  Buttons are disabled meanwhile.                       *)

Send ==
  /\ visit # Away /\ visit.found /\ ~visit.loading /\ sending = NoSend
  /\ sending' = [at |-> "post"]
  /\ UNCHANGED <<log, unread, unsent, visit, load, link, wire, marking, pageBounds>>

PostByViewer ==
  /\ sending.at = "post"
  /\ Insert("viewer")
  /\ sending' = [at |-> "posted", message |-> Len(log) + 1]
  /\ UNCHANGED <<visit, load, link, wire, marking, pageBounds>>

(* The answer comes after the envelope was emitted.                        *)
AnswerPost ==
  /\ sending.at = "posted" /\ sending.message \notin unsent
  /\ sending' = [sending EXCEPT !.at = "mark"]
  /\ UNCHANGED <<log, unread, unsent, visit, load, link, wire, marking, pageBounds>>

SaveReadBySender ==
  /\ sending.at = "mark"
  /\ unread' = 0
  /\ wire' = Delivered([event |-> "read"])
  /\ sending' = [sending EXCEPT !.at = "load"]
  /\ load' = Reload
  /\ visit' = [visit EXCEPT !.loading = TRUE, !.changed = TRUE]
  /\ UNCHANGED <<log, unsent, link, marking, pageBounds>>

(* Nothing of what was done is undone; the text stays in its field unless  *)
(* the message was posted.                                                 *)
FailSend ==
  /\ sending.at \in {"post", "posted", "mark"} /\ failures < pageScenario.failures
  /\ failures' = failures + 1
  /\ sending' = NoSend
  /\ UNCHANGED <<pageScenario, log, unread, unsent, visit, load, link, wire, marking, visits,
                 drops>>

PageNext ==
  \/ PostElsewhere \/ ReadElsewhere \/ \E i \in unsent : EmitCreated(i)
  \/ OpenPage \/ ClosePage \/ ReadList \/ ReadRow \/ EndLoad \/ FailLoad
  \/ Connect \/ HandleConnection \/ SubscribeCase \/ JoinRoom \/ DropConnection
  \/ ReceiveCreated \/ ReceiveRead \/ Render \/ SaveRead \/ AnswerRead \/ FailRead
  \/ Send \/ PostByViewer \/ AnswerPost \/ SaveReadBySender \/ FailSend

(* Requests are answered and React renders.  Nobody has to open a page or  *)
(* write, and nothing makes a connection last.                             *)
PageFairness ==
  /\ WF_pageVars(ReadList) /\ WF_pageVars(ReadRow) /\ WF_pageVars(EndLoad)
  /\ WF_pageVars(Render) /\ WF_pageVars(SaveRead) /\ WF_pageVars(AnswerRead)

PageSpec == PageInit /\ [][PageNext]_pageVars /\ PageFairness

-----------------------------------------------------------------------------
(* A page shows messages there are, and what the user has seen on it, or   *)
(* sent from it and loaded, never goes away, although loadAll replaces the *)
(* list with one that was read while envelopes went on arriving            *)
(* (CaseDetail's setMessages).                                             *)
SeenMessagesStay ==
  visit # Away =>
    /\ visit.shown \subseteq DOMAIN log
    /\ visit.found /\ ~visit.loading => visit.seen \subseteq visit.shown

(* A page left open does not go on showing unread messages: each time the  *)
(* counter is more than 0 a request is made whose answer clears it, and    *)
(* whatever arrives in between is cleared in turn, unless a request fails  *)
(* (CaseDetail's effect on currentReadState).                              *)
BadgeClears ==
  (visit # Away /\ visit.badge > 0) ~> (visit = Away \/ visit.badge = 0 \/ visit.markFailed)

=============================================================================
