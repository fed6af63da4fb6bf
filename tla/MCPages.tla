------------------------------ MODULE MCPages -------------------------------
(* A behaviour is of the case in the database, of a page that shows it, of *)
(* the direct chats, or of the page that waits for a payment, which share  *)
(* no state: `topic` says of which, and the others stay as they begin.     *)
EXTENDS Cases, CasePage, InternalChats, CheckoutReturn

VARIABLE topic

PagesVars == <<topic, vars, pageVars, chatsVars, returnAllVars>>

PagesInit ==
  /\ topic \in {"case", "page", "chats", "return"}
  /\ Init /\ PageInit /\ ChatsInit /\ ReturnInit
  /\ topic # "page" => pageScenario = CHOOSE s \in PageScenarios : TRUE
  /\ topic # "chats" => limits = CHOOSE s \in ChatScenarios : TRUE
  /\ topic # "return" => returns = CHOOSE s \in ReturnScenarios : TRUE

PagesNext ==
  \/ topic = "case" /\ Next /\ UNCHANGED <<topic, pageVars, chatsVars, returnAllVars>>
  \/ topic = "page" /\ PageNext /\ UNCHANGED <<topic, vars, chatsVars, returnAllVars>>
  \/ topic = "chats" /\ ChatsNext /\ UNCHANGED <<topic, vars, pageVars, returnAllVars>>
  \/ topic = "return" /\ ReturnNext /\ UNCHANGED <<topic, vars, pageVars, chatsVars>>

(* The fairness of each part, for its own topic.                           *)
PagesSpec ==
  /\ PagesInit /\ [][PagesNext]_PagesVars
  /\ \A s \in Slot : WF_vars(topic = "case" /\ Proceed(s))
  /\ WF_pageVars(topic = "page" /\ ReadList) /\ WF_pageVars(topic = "page" /\ ReadRow)
  /\ WF_pageVars(topic = "page" /\ EndLoad) /\ WF_pageVars(topic = "page" /\ Render)
  /\ WF_pageVars(topic = "page" /\ SaveRead) /\ WF_pageVars(topic = "page" /\ AnswerRead)
  /\ WF_chatsVars(topic = "chats" /\ Poll)
  /\ \A a \in 1 .. MaxAsk :
       WF_chatsVars(topic = "chats" /\ (Served(a) \/ Received(a)))
  /\ WF_returnAllVars(topic = "return" /\ ReturnProceeds)

-----------------------------------------------------------------------------
MCPageScenarios ==
  {[authors |-> {"other"}, log |-> 2, drops |-> 0, failures |-> 0, visits |-> 1],
   [authors |-> Author, log |-> 1, drops |-> 1, failures |-> 1, visits |-> 2]}

MCChatScenarios ==
  {[viewer |-> "SPECIALIST", threads |-> <<"u1", "u2">>,
    peer |-> 0, clicks |-> 1, losses |-> 0],
   [viewer |-> "SPECIALIST", threads |-> <<"u1">>, peer |-> 1, clicks |-> 0, losses |-> 0],
   [viewer |-> "SPECIALIST", threads |-> <<>>, peer |-> 0, clicks |-> 2, losses |-> 0],
   [viewer |-> "ADMIN", threads |-> <<"u1">>, peer |-> 0, clicks |-> 1, losses |-> 1]}

MCReturnScenarios ==
  {[mode |-> "live", reloads |-> 0, failures |-> 1],
   [mode |-> "simulated", reloads |-> 1, failures |-> 0]}

=============================================================================
