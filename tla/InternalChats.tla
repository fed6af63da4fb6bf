--------------------------- MODULE InternalChats ---------------------------
(***************************************************************************)
(* Direct chats between the staff and their clients: the threads and       *)
(* messages in the database (api/src/internal-chats), and one open page    *)
(* (internal/src/pages/Chats.tsx) that polls them, since nothing is pushed *)
(* for a direct chat.  Requests overlap, every answer is applied whenever  *)
(* it arrives, and each goes by the selection of the render it was sent    *)
(* from.  A thread is named by its client; all are of one specialist.      *)
(***************************************************************************)
EXTENDS Integers, Sequences, FiniteSets, SequencesExt

CONSTANTS
  ChatClient,     \* the clients the staff may talk to
  ChatTake,       \* the messages of one answer (500)
  ChatScenarios,  \* where a run begins and what may happen in it
  MaxAsk          \* requests of the page in flight at once

ASSUME ChatsAssumption ==
  /\ "nobody" \notin ChatClient
  /\ ChatTake \in Nat \ {0}
  /\ MaxAsk \in Nat /\ MaxAsk >= 4
  /\ ChatScenarios \subseteq
       [viewer : {"SPECIALIST", "ADMIN"}, threads : Seq(ChatClient),
        peer : Nat,      \* messages and threads of others
        clicks : Nat,    \* what the user does
        losses : Nat]    \* requests that are lost

VARIABLES
  limits,         \* the scenario, with what may still happen
  threads,        \* the threads, the one updated last first
  posts,          \* the number of messages in each thread
  chats,          \* the state of the page
  ask             \* the requests of the page, each with its answer

chatsVars == <<limits, threads, posts, chats, ask>>

Least(S) == CHOOSE x \in S : \A y \in S : x <= y

-----------------------------------------------------------------------------
(* Requests                                                                *)

NoAsk ==
  [op |-> "idle", from |-> "nobody", on |-> "nobody", after |-> "nothing",
   done |-> FALSE, rows |-> <<>>, upTo |-> 0]

(* loadThreadsAndClients as the render that had `from` selected made it. *)
ListRequest(from, after) == [NoAsk EXCEPT !.op = "list", !.from = from, !.after = after]
(* loadMessages *)
MessagesRequest(t, after) == [NoAsk EXCEPT !.op = "messages", !.on = t, !.after = after]

FreeAsks(table) == {a \in DOMAIN table : table[a].op = "idle"}
Place(table, r) == [table EXCEPT ![Least(FreeAsks(table))] = r]
Spare == Cardinality(FreeAsks(ask)) >= 3

(* Both effects of the page run when the selection has changed. *)
EffectsOf(table, t) ==
  Place(Place(table, ListRequest(t, "show")), MessagesRequest(t, "nothing"))

-----------------------------------------------------------------------------
(* The server                                                              *)

Spends(what) == limits[what] > 0 /\ limits' = [limits EXCEPT ![what] = @ - 1]

Pending(a, op) == ask[a].op = op /\ ~ ask[a].done
Answers(a) == ask' = [ask EXCEPT ![a].done = TRUE]

(* The thread becomes the one updated last; it is created when it is new. *)
Touched(t) == <<t>> \o SelectSeq(threads, LAMBDA u : u # t)

ListThreads(a) ==
  /\ Pending(a, "list")
  /\ ask' = [ask EXCEPT ![a].done = TRUE, ![a].rows = threads]
  /\ UNCHANGED <<limits, threads, posts, chats>>

(* The oldest messages, at most ChatTake of them. *)
Listed(t) == IF posts[t] < ChatTake THEN posts[t] ELSE ChatTake

ListMessages(a) ==
  /\ Pending(a, "messages")
  /\ ask' = [ask EXCEPT ![a].done = TRUE, ![a].upTo = Listed(ask[a].on)]
  /\ UNCHANGED <<limits, threads, posts, chats>>

(* An admin has to name a specialist, and the page never does: refused. *)
StartThread(a) ==
  /\ Pending(a, "start") /\ limits.viewer = "SPECIALIST"
  /\ Answers(a)
  /\ threads' = Touched(ask[a].on)
  /\ UNCHANGED <<limits, posts, chats>>

Write(t) == threads' = Touched(t) /\ posts' = [posts EXCEPT ![t] = @ + 1]

PostMessage(a) ==
  /\ Pending(a, "post")
  /\ Answers(a) /\ Write(ask[a].on)
  /\ UNCHANGED <<limits, chats>>

(* Another tab of the specialist, or an admin, writes or starts a thread. *)
PeerPosts(t) ==
  /\ t \in ToSet(threads)
  /\ Write(t)
  /\ Spends("peer") /\ UNCHANGED <<chats, ask>>

PeerStarts(t) ==
  /\ t \notin ToSet(threads)
  /\ threads' = Touched(t)
  /\ Spends("peer") /\ UNCHANGED <<posts, chats, ask>>

-----------------------------------------------------------------------------
(* The page                                                                *)

ChatsInit ==
  /\ limits \in ChatScenarios
  /\ threads = limits.threads
  /\ posts = [t \in ChatClient |-> 0]
  /\ chats = [rows |-> <<>>, selected |-> "nobody", shown |-> [of |-> "nobody", upTo |-> 0],
              loading |-> TRUE, sending |-> FALSE]
  /\ ask = Place([a \in 1 .. MaxAsk |-> NoAsk], ListRequest("nobody", "show"))

(* The request of a is over, the page goes on as `page` with the requests  *)
(* in `table`, and with those of the effects when the selection has moved. *)
Becomes(page, table) ==
  LET moved == page.selected # chats.selected
  IN  /\ moved => Cardinality(FreeAsks(table)) >= 2
      /\ chats' = [page EXCEPT !.loading = @ \/ moved]
      /\ ask' = IF moved THEN EffectsOf(table, page.selected) ELSE table

(* A click on a thread: the page shows its threads while it is not loading. *)
SelectThread(t) ==
  /\ ~ chats.loading /\ Spare
  /\ t \in ToSet(chats.rows) \ {chats.selected}
  /\ Becomes([chats EXCEPT !.selected = t], ask)
  /\ Spends("clicks") /\ UNCHANGED <<threads, posts>>

(* Seeded fault: the interval refreshes the list only. *)
PollThreads ==
  /\ Spare
  /\ ask' = Place(ask, ListRequest(chats.selected, "nothing"))
  /\ UNCHANGED <<limits, threads, posts, chats>>

(* The interval, every eight seconds. *)
Poll ==
  LET polled == Place(ask, ListRequest(chats.selected, "nothing"))
  IN  /\ Spare
      /\ ask' = IF chats.selected = "nobody" THEN polled
                ELSE Place(polled, MessagesRequest(chats.selected, "nothing"))
      /\ UNCHANGED <<limits, threads, posts, chats>>

HandleStartChat(c) ==
  /\ ~ chats.loading /\ Spare
  /\ ask' = Place(ask, [NoAsk EXCEPT !.op = "start", !.on = c, !.from = chats.selected])
  /\ Spends("clicks") /\ UNCHANGED <<threads, posts, chats>>

HandleSend ==
  /\ ~ chats.loading /\ ~ chats.sending /\ Spare
  /\ chats.selected # "nobody"
  /\ chats' = [chats EXCEPT !.sending = TRUE]
  /\ ask' = Place(ask, [NoAsk EXCEPT !.op = "post", !.on = chats.selected])
  /\ Spends("clicks") /\ UNCHANGED <<threads, posts>>

Without(a) == [ask EXCEPT ![a] = NoAsk]

(* The rest of loadThreadsAndClients, and of the handler that awaits it:   *)
(* handleStartChat goes to its thread, handleSend is over.  The first      *)
(* thread is taken when none was selected as the request was made.         *)
AfterList(r, page) ==
  LET taken == IF r.done /\ r.from = "nobody" /\ r.rows # <<>>
               THEN [page EXCEPT !.selected = Head(r.rows)] ELSE page
      ready == IF r.after = "nothing" THEN taken ELSE [taken EXCEPT !.loading = FALSE]
  IN  CASE r.after \in ChatClient -> [ready EXCEPT !.selected = r.after]
        [] r.after = "sent" -> [ready EXCEPT !.sending = FALSE]
        [] OTHER -> ready

GetList(a) ==
  /\ ask[a].op = "list" /\ ask[a].done
  /\ Becomes(AfterList(ask[a], [chats EXCEPT !.rows = ask[a].rows]), Without(a))
  /\ UNCHANGED <<limits, threads, posts>>

(* handleSend goes on to load the list, as the render it was called from. *)
AfterMessages(r, page, table) ==
  IF r.after = "send"
  THEN Becomes([page EXCEPT !.loading = TRUE], Place(table, ListRequest(r.on, "sent")))
  ELSE Becomes(page, table)

GetMessages(a) ==
  /\ ask[a].op = "messages" /\ ask[a].done
  /\ AfterMessages(ask[a],
       [chats EXCEPT !.shown = [of |-> ask[a].on, upTo |-> ask[a].upTo]], Without(a))
  /\ UNCHANGED <<limits, threads, posts>>

GetStarted(a) ==
  /\ ask[a].op = "start" /\ ask[a].done
  /\ chats' = [chats EXCEPT !.loading = TRUE]
  /\ ask' = Place(Without(a), ListRequest(ask[a].from, ask[a].on))
  /\ UNCHANGED <<limits, threads, posts>>

GetPosted(a) ==
  /\ ask[a].op = "post" /\ ask[a].done
  /\ ask' = Place(Without(a), MessagesRequest(ask[a].on, "send"))
  /\ UNCHANGED <<limits, threads, posts, chats>>

(* What each handler does when its request has failed: a list leaves the   *)
(* page as it is, messages are emptied, and a start or a post is given up. *)
Fails(a) ==
  LET r == ask[a]
  IN  CASE r.op = "list" -> Becomes(AfterList([r EXCEPT !.done = FALSE], chats), Without(a))
        [] r.op = "messages" ->
             AfterMessages(r, [chats EXCEPT !.shown = [of |-> r.on, upTo |-> 0]], Without(a))
        [] r.op = "start" -> chats' = chats /\ ask' = Without(a)
        [] r.op = "post" -> chats' = [chats EXCEPT !.sending = FALSE] /\ ask' = Without(a)

RefuseStart(a) ==
  /\ Pending(a, "start") /\ limits.viewer = "ADMIN"
  /\ Fails(a)
  /\ UNCHANGED <<limits, threads, posts>>

(* A request, or the answer to it, is lost. *)
LoseRequest(a) ==
  /\ ask[a].op # "idle"
  /\ Fails(a)
  /\ Spends("losses") /\ UNCHANGED <<threads, posts>>

Served(a) ==
  ListThreads(a) \/ ListMessages(a) \/ StartThread(a) \/ PostMessage(a) \/ RefuseStart(a)
Received(a) == GetList(a) \/ GetMessages(a) \/ GetStarted(a) \/ GetPosted(a)

ChatsNext ==
  \/ Poll \/ HandleSend
  \/ \E t \in ChatClient :
       SelectThread(t) \/ HandleStartChat(t) \/ PeerPosts(t) \/ PeerStarts(t)
  \/ \E a \in 1 .. MaxAsk : Served(a) \/ Received(a) \/ LoseRequest(a)

(* The interval ticks, requests are served, answers arrive. *)
ChatsFairness ==
  /\ WF_chatsVars(Poll)
  /\ \A a \in 1 .. MaxAsk : WF_chatsVars(Served(a) \/ Received(a))

ChatsSpec == ChatsInit /\ [][ChatsNext]_chatsVars /\ ChatsFairness

-----------------------------------------------------------------------------

(* The page catches up with the thread it has selected: whatever answers   *)
(* of other threads or of earlier moments arrive late, and whoever writes, *)
(* it comes to show all that the server lists of it, or leaves it         *)
(* (Chats.tsx loadMessages and its interval, listMessages).                *)
ChatCatchesUp ==
  \A t \in ChatClient :
    chats.selected = t ~>
      \/ chats.selected # t
      \/ chats.shown = [of |-> t, upTo |-> Listed(t)]

=============================================================================
