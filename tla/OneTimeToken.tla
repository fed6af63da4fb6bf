---------------------------- MODULE OneTimeToken ----------------------------
(***************************************************************************)
(* What the random strings of a sign-in promise (the OAuth state, the code *)
(* a page exchanges for its session, the ticket for a missing e-mail):     *)
(* each is accepted at most once and never after its deadline.  It may be  *)
(* lost earlier (a restart), and nothing says that it is ever used.        *)
(***************************************************************************)
EXTENDS Integers

CONSTANTS
  Token,            \* the strings that may be drawn
  Lives             \* how long a token may live, in ticks (naturals)

VARIABLES
  phase,            \* of each token: "unissued", "live", "spent" or "lost"
  deadline,         \* the last tick at which it is accepted
  clock

tokenVars == <<phase, deadline, clock>>

Init ==
  /\ phase = [t \in Token |-> "unissued"]
  /\ deadline = [t \in Token |-> 0]
  /\ clock = 0

Issue(t) ==
  /\ phase[t] = "unissued" /\ phase'[t] = "live"
  /\ \E life \in Lives : deadline'[t] = clock + life

Redeem(t) ==
  /\ phase[t] = "live" /\ phase'[t] = "spent"
  /\ clock <= deadline[t]
  /\ deadline'[t] = deadline[t]

Lose(t) ==
  /\ phase[t] = "live" /\ phase'[t] = "lost"
  /\ deadline'[t] = deadline[t]

Rest(t) == phase'[t] = phase[t] /\ deadline'[t] = deadline[t]

(* One step of the server may do this to several tokens, and time passes.  *)
Next ==
  /\ \A t \in Token : Issue(t) \/ Redeem(t) \/ Lose(t) \/ Rest(t)
  /\ phase' = [t \in Token |-> phase'[t]]
  /\ deadline' = [t \in Token |-> deadline'[t]]
  /\ clock' >= clock

Spec == Init /\ [][Next]_tokenVars

=============================================================================
