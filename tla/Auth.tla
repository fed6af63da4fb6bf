-------------------------------- MODULE Auth --------------------------------
(***************************************************************************)
(* Signing in through GitHub or Google, verifying an e-mail address, and   *)
(* what an administrator does to accounts (apps/api/src/auth/              *)
(* auth.service.ts), with the page of the client that exchanges a code for *)
(* a session (OAuthGithubCallback.tsx).  Requests run concurrently: each   *)
(* is at one database statement, and one action is a statement together    *)
(* with the code up to the next.  The states, codes and tickets of the     *)
(* sign-in are in the memory of the API and gone after a restart.          *)
(***************************************************************************)
EXTENDS Integers, Sequences, FiniteSets

CONSTANTS
  Call,         \* requests in flight at once
  Profile,      \* what the providers may say of who signs in (external)
  Address,      \* e-mail addresses
  MaxRow,       \* User rows ever inserted
  MaxToken,     \* random strings ever drawn
  MaxMail,      \* verification mails ever sent
  StateLife,    \* OAUTH_STATE_TTL_MS, in ticks
  CodeLife,     \* OAUTH_EXCHANGE_TTL_MS
  TicketLife,   \* OAUTH_EMAIL_TICKET_TTL_MS
  MailLife,     \* EMAIL_VERIFICATION_TTL_MS
  LastTick,     \* the clock stops here
  MaxMount,     \* how often a callback page mounts its effect
  Scenarios     \* the User rows at first, with the events that may happen then

Provider == {"github", "google"}
Nobody == "none"

EventKind == {"register", "resend", "link", "unlink", "block", "unblock", "delete", "restart"}

Row == 1 .. MaxRow
Token == 1 .. MaxToken
Mail == 1 .. MaxMail

Identity(p) == <<p.provider, p.id>>
Identities == {Identity(p) : p \in Profile}
NoIds == [v \in Provider |-> Nobody]

(* What is stored of a user; a row that is deleted is gone.                *)
Id == {i[2] : i \in Identities} \cup {Nobody}
UserRow ==
  [email : Address, ids : [Provider -> Id], verified : BOOLEAN, blocked : BOOLEAN,
   hash : {0} \cup Mail, gone : BOOLEAN]

(* At first, no address is verified and no mail is on its way.             *)
ASSUME AuthAssumption ==
  /\ \A s \in Scenarios :
       /\ s.events \subseteq EventKind
       /\ s.users \in Seq(UserRow) /\ Len(s.users) <= MaxRow
       /\ \A u \in DOMAIN s.users : ~ s.users[u].verified /\ s.users[u].hash = 0
  /\ Nobody \notin Address
  /\ \A p \in Profile :
       /\ p.provider \in Provider /\ p.id # Nobody
       /\ p.email \in Address \cup {Nobody} /\ p.verified \in BOOLEAN
       /\ p.verified => p.email # Nobody
  /\ {MaxRow, MaxToken, MaxMail, MaxMount, LastTick} \subseteq Nat
  /\ {StateLife, CodeLife, TicketLife, MailLife} \subseteq Nat

VARIABLES
  users,        \* User rows in the order of insertion
  tokens,       \* the random strings drawn, with the record each stands for
  store,        \* oauthStates, oauthExchanges and oauthEmailTickets
  accepted,     \* how often each token was accepted
  mails,        \* verification mails: the row each was sent for, and its deadline
  call,         \* the request each Call serves
  page,         \* the callback page of each code
  vouched,      \* identities that came with a verified address
  opened,       \* verification mails opened in time
  linkedOnce,   \* <<row, identity>> pairs that have been linked
  events,       \* the events that happen in this behaviour
  now

vars == <<users, tokens, store, accepted, mails, call, page, vouched, opened,
          linkedOnce, events, now>>

(* The pairs that are linked in the rows R, for the history.               *)
Links(R) ==
  {l \in (DOMAIN R) \X Identities :
     LET u == l[1]
         i == l[2]
     IN  ~ R[u].gone /\ R[u].ids[i[1]] = i[2]}

NewRow(e, ids, verified) ==
  [email |-> e, ids |-> ids, verified |-> verified, blocked |-> FALSE, hash |-> 0,
   gone |-> FALSE]

NoProfile == [provider |-> "github", id |-> Nobody, email |-> Nobody, verified |-> FALSE]

NoCall ==
  [at |-> "idle", prof |-> NoProfile, ticket |-> FALSE, row |-> 0,
   saw |-> FALSE, token |-> 0]

NoPage == [mounts |-> 0, shows |-> "closed", exchanged |-> FALSE]

Init ==
  /\ \E s \in Scenarios : users = s.users /\ events = s.events
  /\ tokens = <<>> /\ mails = <<>>
  /\ store = {}
  /\ accepted = [t \in Token |-> 0]
  /\ call = [c \in Call |-> NoCall]
  /\ page = [t \in Token |-> NoPage]
  /\ vouched = {} /\ opened = {} /\ linkedOnce = Links(users)
  /\ now = 0

-----------------------------------------------------------------------------
(* Rows and the statements on them                                         *)

Rows == {u \in DOMAIN users : ~ users[u].gone}
ByEmail(e) == {u \in Rows : users[u].email = e}
ByIdentity(i) == {u \in Rows : users[u].ids[i[1]] = i[2]}

(* The requests of a signed-in account pass JwtStrategy.validate. *)
MayAct(u) == u \in Rows /\ ~ users[u].blocked

(* user.create; the unique indexes refuse an address or identity in use.   *)
Only(i) == [v \in Provider |-> IF v = i[1] THEN i[2] ELSE Nobody]

Insertable(e, ids) ==
  /\ Len(users) < MaxRow /\ ByEmail(e) = {}
  /\ \A v \in Provider : ids[v] # Nobody => ByIdentity(<<v, ids[v]>>) = {}

Inserted(e, ids, verified) == Append(users, NewRow(e, ids, verified))

(* user.update of one column. *)
With(u, field, value) == [users EXCEPT ![u] = [@ EXCEPT ![field] = value]]

-----------------------------------------------------------------------------
(* The in-memory stores                                                    *)

(* cleanupOAuthStores, at the start of every operation on a store; what it *)
(* leaves passes the expiry check that follows it in the same step.        *)
Fresh == {t \in store : tokens[t].until >= now}

(* Seeded fault: a token is deleted only after the rows have been read. *)
DeletedLater(t) == Fresh

(* get and delete, in one synchronous step. *)
Deleted(t) == Fresh \ {t}

Accept(t) ==
  /\ store' = Deleted(t)
  /\ accepted' = [accepted EXCEPT ![t] = @ + IF t \in Fresh THEN 1 ELSE 0]

(* Draws a random string into one of the stores. *)
Draw(kept, kind, u, i, life) ==
  /\ Len(tokens) < MaxToken
  /\ tokens' = Append(tokens, [kind |-> kind, row |-> u, who |-> i, until |-> now + life])
  /\ store' = kept \cup {Len(tokens) + 1}

(* createOAuthExchangeCode, of the account u for the identity i *)
DrawCode(u, i) == Draw(store, "code", u, i, CodeLife)

Drawn(kind) == {t \in DOMAIN tokens : tokens[t].kind = kind}

-----------------------------------------------------------------------------
(* Requests: how one starts, moves on and is answered                      *)

Free(c) == call[c].at = "idle"
Goes(c, at) == call' = [call EXCEPT ![c].at = at]
Starts(c, rec) == call' = [call EXCEPT ![c] = rec]
Ends(c) == call' = [call EXCEPT ![c] = NoCall]

(* GET /auth/github, /auth/google: a state for signing in; the /link       *)
(* variants: a state that remembers the account.                           *)
CreateState(u) ==
  /\ u = 0 \/ ("link" \in events /\ MayAct(u))
  /\ Draw(Fresh, "state", u, <<"github", Nobody>>, StateLife)
  /\ UNCHANGED <<users, accepted, mails, call, page, vouched, opened, now>>

(* resolveGithubCallback, resolveGoogleCallback: the provider sends the    *)
(* browser back with a state and says who it is.  Google has to give an    *)
(* address.                                                                *)
ResolveCallback(c, t, p) ==
  /\ Free(c) /\ t \in Drawn("state")
  /\ Accept(t)
  /\ LET ok == t \in Fresh /\ (p.provider = "google" => p.email # Nobody)
     IN /\ vouched' = IF ok /\ p.verified THEN vouched \cup {Identity(p)} ELSE vouched
        /\ IF ok
             THEN Starts(c, [NoCall EXCEPT !.prof = p, !.row = tokens[t].row,
                    !.at = IF tokens[t].row = 0 THEN "byIdentity" ELSE "self"])
             ELSE UNCHANGED call
  /\ UNCHANGED <<users, tokens, mails, page, opened, now>>

(* completeGithubEmail: the address somebody typed, for the GitHub         *)
(* identity of the ticket.                                                 *)
CompleteGithubEmail(c, t, e) ==
  /\ Free(c) /\ t \in Drawn("ticket")
  /\ Accept(t)
  /\ IF t \in Fresh
       THEN Starts(c, [NoCall EXCEPT !.at = "byIdentity", !.ticket = TRUE,
              !.prof = [NoProfile EXCEPT !.id = tokens[t].who[2], !.email = e]])
       ELSE UNCHANGED call
  /\ UNCHANGED <<users, tokens, mails, page, vouched, opened, now>>

(* Seeded fault: the provider's verified flag is not looked at. *)
AnyAddressProves(c, u) == ~ users[u].verified

(* The provider vouches for the address and the row does not know yet. *)
Proves(c, u) == call[c].prof.verified /\ ~ users[u].verified

(* findUnique by githubId or googleId: an account that is linked signs in, *)
(* without an address a ticket is drawn.                                   *)
FindByIdentity(c) ==
  LET p == call[c].prof
      found == ByIdentity(Identity(p))
  IN /\ call[c].at = "byIdentity"
     /\ \/ \E u \in found :
             \/ /\ Proves(c, u)
                /\ Starts(c, [call[c] EXCEPT !.at = "touch", !.row = u])
                /\ UNCHANGED <<tokens, store>>
             \/ ~ Proves(c, u) /\ DrawCode(u, Identity(p)) /\ Ends(c)
        \/ /\ found = {} /\ p.email = Nobody
           /\ Draw(store, "ticket", 0, Identity(p), TicketLife) /\ Ends(c)
        \/ /\ found = {} /\ p.email # Nobody
           /\ Goes(c, "byEmail") /\ UNCHANGED <<tokens, store>>
     /\ UNCHANGED <<users, accepted, mails, page, vouched, opened, now>>

(* update emailVerifiedAt of the account the identity is linked with. *)
Touch(c) ==
  LET u == call[c].row
  IN /\ call[c].at = "touch" /\ Ends(c)
     /\ IF u \in Rows
          THEN users' = With(u, "verified", TRUE) /\ DrawCode(u, Identity(call[c].prof))
          ELSE UNCHANGED <<users, tokens, store>>
     /\ UNCHANGED <<accepted, mails, page, vouched, opened, now>>

(* findUnique by e-mail: an account with another identity is a conflict.   *)
FindByEmail(c) ==
  LET i == Identity(call[c].prof)
      found == ByEmail(call[c].prof.email)
      Taken(u) == users[u].ids[i[1]] \notin {Nobody, i[2]}
  IN /\ call[c].at = "byEmail"
     /\ \/ found = {} /\ Goes(c, "create")
        \/ \E u \in found : Taken(u) /\ Ends(c)
        \/ \E u \in found :
             ~ Taken(u) /\ Starts(c, [call[c] EXCEPT !.at = "link", !.row = u,
                                        !.saw = users[u].verified])
     /\ UNCHANGED <<users, tokens, store, accepted, mails, page, vouched, opened, now>>

(* Seeded fault: completing an e-mail signs in without linking. *)
OnlySignsIn(c, u) ==
  IF call[c].ticket THEN users[u].ids
  ELSE [users[u].ids EXCEPT ![call[c].prof.provider] = call[c].prof.id]

(* The identities of the row after the update. *)
LinkedIds(c, u) == [users[u].ids EXCEPT ![call[c].prof.provider] = call[c].prof.id]

(* update by the id found by e-mail: emailVerifiedAt is written as it was  *)
(* read, unless the provider vouches for the address; completing a GitHub  *)
(* e-mail does not write it.                                               *)
Link(c) ==
  LET p == call[c].prof
      u == call[c].row
  IN /\ call[c].at = "link" /\ Ends(c)
     /\ IF u \in Rows /\ ByIdentity(Identity(p)) \subseteq {u}
          THEN /\ users' = [users EXCEPT
                    ![u].ids = LinkedIds(c, u),
                    ![u].verified = IF call[c].ticket THEN @ ELSE p.verified \/ call[c].saw]
               /\ DrawCode(u, Identity(p))
          ELSE UNCHANGED <<users, tokens, store>>
     /\ UNCHANGED <<accepted, mails, page, vouched, opened, now>>

(* create for the identity. *)
CreateLinked(c) ==
  LET p == call[c].prof
  IN /\ call[c].at = "create" /\ Ends(c)
     /\ IF Insertable(p.email, Only(Identity(p)))
          THEN /\ users' = Inserted(p.email, Only(Identity(p)), p.verified)
               /\ DrawCode(Len(users) + 1, Identity(p))
          ELSE UNCHANGED <<users, tokens, store>>
     /\ UNCHANGED <<accepted, mails, page, vouched, opened, now>>

(* resolveGithubLinkCallback, resolveGoogleLinkCallback: the account that  *)
(* asked is read, then the one that holds the identity.  What the first    *)
(* read makes a conflict or a mismatch is refused after the second.        *)
FindSelf(c) ==
  LET p == call[c].prof
      u == call[c].row
  IN /\ call[c].at = "self"
     /\ \/ u \notin Rows /\ Ends(c)
        \/ /\ u \in Rows
           /\ Starts(c, [call[c] EXCEPT !.at = "holder",
                !.saw = /\ users[u].ids[p.provider] \in {Nobody, p.id}
                        /\ p.provider = "google" => users[u].email = p.email])
     /\ UNCHANGED <<users, tokens, store, accepted, mails, page, vouched, opened, now>>

FindHolder(c) ==
  /\ call[c].at = "holder"
  /\ IF call[c].saw /\ ByIdentity(Identity(call[c].prof)) \subseteq {call[c].row}
       THEN Goes(c, "linkSelf") ELSE Ends(c)
  /\ UNCHANGED <<users, tokens, store, accepted, mails, page, vouched, opened, now>>

LinkSelf(c) ==
  LET i == Identity(call[c].prof)
      u == call[c].row
  IN /\ call[c].at = "linkSelf" /\ Ends(c)
     /\ users' = IF u \in Rows /\ ByIdentity(i) \subseteq {u}
                    THEN With(u, "ids", LinkedIds(c, u)) ELSE users
     /\ UNCHANGED <<tokens, store, accepted, mails, page, vouched, opened, now>>

(* unlinkGithub, unlinkGoogle *)
Unlink(u, v) ==
  /\ "unlink" \in events
  /\ MayAct(u) /\ users[u].ids[v] # Nobody
  /\ users' = With(u, "ids", [users[u].ids EXCEPT ![v] = Nobody])
  /\ UNCHANGED <<tokens, store, accepted, mails, call, page, vouched, opened, now>>

-----------------------------------------------------------------------------
(* The callback page and exchangeOAuthCode                                 *)

(* A request with the code is on its way. *)
Asked(t) == \E c \in Call : call[c].at = "signer" /\ call[c].token = t

(* Seeded fault: an exchange in flight is not joined. *)
NeverInFlight(t) == FALSE

(* exchangeInFlight.has(code) *)
InFlight(t) == Asked(t)

Shows(t, what) == page' = [page EXCEPT ![t].shows = what]

(* The effect of the page runs: at the first rendering, and again after    *)
(* its cleanup.  A code exchanged before signs in at once, one in flight   *)
(* is waited for, any other is sent to the API, which accepts it or not.   *)
Mount(c, t) ==
  LET opens(what) == page' = [page EXCEPT ![t].shows = what, ![t].mounts = @ + 1]
  IN /\ t \in Drawn("code") /\ page[t].shows = "closed" /\ page[t].mounts < MaxMount
     /\ \/ /\ page[t].exchanged /\ opens("home")
           /\ UNCHANGED <<store, accepted, call>>
        \/ /\ ~ page[t].exchanged /\ InFlight(t) /\ opens("loader")
           /\ UNCHANGED <<store, accepted, call>>
        \/ /\ ~ page[t].exchanged /\ ~ InFlight(t)
           /\ Free(c) /\ Accept(t)
           /\ IF t \in Fresh
                THEN /\ Starts(c, [NoCall EXCEPT !.at = "signer", !.token = t,
                                      !.row = tokens[t].row])
                     /\ opens("loader")
                ELSE UNCHANGED call /\ opens("error")
     /\ UNCHANGED <<users, tokens, mails, vouched, opened, now>>

(* Its cleanup: the running effect is cancelled. *)
Unmount(t) ==
  /\ page[t].shows = "loader" /\ page[t].mounts < MaxMount
  /\ Shows(t, "closed")
  /\ UNCHANGED <<users, tokens, store, accepted, mails, call, vouched, opened, now>>

(* What the mounted effect shows once its request is answered. *)
Answered(P, ok) ==
  [t \in Token |->
    IF t \notin P THEN page[t]
    ELSE [page[t] EXCEPT !.exchanged = ok,
           !.shows = IF @ = "loader" THEN (IF ok THEN "home" ELSE "error") ELSE @]]

(* findUnique of the account: it signs in unless it is gone or blocked. *)
FindSigner(c) ==
  /\ call[c].at = "signer" /\ Ends(c)
  /\ page' = Answered({call[c].token}, MayAct(call[c].row))
  /\ UNCHANGED <<users, tokens, store, accepted, mails, vouched, opened, now>>

-----------------------------------------------------------------------------
(* Registration and verification of the address                            *)

(* register: the address was free when it was looked up, before the        *)
(* password was hashed.                                                    *)
Register(c, e) ==
  /\ "register" \in events /\ Free(c) /\ ByEmail(e) = {}
  /\ Starts(c, [NoCall EXCEPT !.at = "register", !.prof = [NoProfile EXCEPT !.email = e]])
  /\ UNCHANGED <<users, tokens, store, accepted, mails, page, vouched, opened, now>>

InsertRegistered(c) ==
  /\ call[c].at = "register"
  /\ IF Insertable(call[c].prof.email, NoIds)
       THEN /\ users' = Inserted(call[c].prof.email, NoIds, FALSE)
            /\ Starts(c, [call[c] EXCEPT !.at = "mail", !.row = Len(users) + 1])
       ELSE UNCHANGED users /\ Ends(c)
  /\ UNCHANGED <<tokens, store, accepted, mails, page, vouched, opened, now>>

(* resendVerificationEmail *)
ResendVerification(c, u) ==
  /\ "resend" \in events /\ Free(c) /\ MayAct(u) /\ ~ users[u].verified
  /\ Starts(c, [NoCall EXCEPT !.at = "mail", !.row = u])
  /\ UNCHANGED <<users, tokens, store, accepted, mails, page, vouched, opened, now>>

(* issueEmailVerification: the hash of a new link replaces the old one.    *)
IssueEmailVerification(c) ==
  LET u == call[c].row
  IN /\ call[c].at = "mail" /\ Len(mails) < MaxMail /\ Ends(c)
     /\ IF u \in Rows
          THEN /\ users' = With(u, "hash", Len(mails) + 1)
               /\ mails' = Append(mails, [row |-> u, until |-> now + MailLife])
          ELSE UNCHANGED <<users, mails>>
     /\ UNCHANGED <<tokens, store, accepted, page, vouched, opened, now>>

(* verifyEmailToken: somebody opens the link of mail k.                    *)
OpenLink(c, k) ==
  LET found == {u \in Rows : users[u].hash = k}
      intime == mails[k].until >= now
  IN /\ Free(c) /\ found # {}
     /\ opened' = IF intime THEN opened \cup {k} ELSE opened
     /\ \E u \in found :
          Starts(c, [NoCall EXCEPT !.at = "verify", !.row = u, !.saw = intime])
     /\ UNCHANGED <<users, tokens, store, accepted, mails, page, vouched, now>>

(* The link in time verifies the row; either way the row's hash goes.      *)
VerifyEmail(c) ==
  LET u == call[c].row
  IN /\ call[c].at = "verify" /\ Ends(c)
     /\ users' = IF u \notin Rows THEN users
                  ELSE [users EXCEPT ![u].hash = 0,
                                     ![u].verified = @ \/ call[c].saw]
     /\ UNCHANGED <<tokens, store, accepted, mails, page, vouched, opened, now>>

-----------------------------------------------------------------------------
(* Administration, time, restart                                           *)

SetUserBlocked(u, b) ==
  /\ (IF b THEN "block" ELSE "unblock") \in events
  /\ u \in Rows /\ users[u].blocked # b
  /\ users' = With(u, "blocked", b)
  /\ UNCHANGED <<tokens, store, accepted, mails, call, page, vouched, opened, now>>

DeleteUser(u) ==
  /\ "delete" \in events /\ u \in Rows
  /\ users' = With(u, "gone", TRUE)
  /\ UNCHANGED <<tokens, store, accepted, mails, call, page, vouched, opened, now>>

(* The API restarts: the stores are empty, requests fail. *)
Restart ==
  /\ "restart" \in events
  /\ store # {} \/ \E c \in Call : ~ Free(c)
  /\ store' = {} /\ call' = [c \in Call |-> NoCall]
  /\ page' = Answered({t \in Token : Asked(t)}, FALSE)
  /\ UNCHANGED <<users, tokens, accepted, mails, vouched, opened, now>>

Tick ==
  /\ now < LastTick /\ now' = now + 1
  /\ UNCHANGED <<users, tokens, store, accepted, mails, call, page, vouched, opened>>

(* The statements a request in flight can be at. *)
Statement(c) ==
  \/ FindByIdentity(c) \/ Touch(c) \/ FindByEmail(c) \/ Link(c) \/ CreateLinked(c)
  \/ FindSelf(c) \/ FindHolder(c) \/ LinkSelf(c) \/ FindSigner(c)
  \/ InsertRegistered(c) \/ IssueEmailVerification(c) \/ VerifyEmail(c)

Arrival(c) ==
  \/ \E t \in Token, p \in Profile : ResolveCallback(c, t, p)
  \/ \E t \in Token, e \in Address : CompleteGithubEmail(c, t, e)
  \/ \E t \in Token : Mount(c, t)
  \/ \E e \in Address : Register(c, e)
  \/ \E u \in DOMAIN users : ResendVerification(c, u)
  \/ \E k \in DOMAIN mails : OpenLink(c, k)

Step ==
  \/ \E c \in Call : Statement(c) \/ Arrival(c)
  \/ \E u \in {0} \cup DOMAIN users : CreateState(u)
  \/ \E u \in DOMAIN users :
       \/ \E v \in Provider : Unlink(u, v)
       \/ \E b \in BOOLEAN : SetUserBlocked(u, b)
       \/ DeleteUser(u)
  \/ \E t \in Token : Unmount(t)
  \/ Restart \/ Tick

(* Every step adds to the history of links. *)
Next ==
  /\ Step
  /\ linkedOnce' = linkedOnce \cup Links(users')
  /\ UNCHANGED events

Spec == Init /\ [][Next]_vars

-----------------------------------------------------------------------------
(* Properties                                                              *)

(* The shape of the variables; a token is either stored or accepted, and a *)
(* row's hash is that of a mail sent for that row.                         *)
TypeOK ==
  /\ users \in Seq(UserRow)
  /\ Len(users) <= MaxRow
  /\ tokens \in Seq([kind : {"state", "code", "ticket"}, row : {0} \cup Row,
                      who : Provider \X Id, until : Nat])
  /\ Len(tokens) <= MaxToken
  /\ store \subseteq {t \in DOMAIN tokens : accepted[t] = 0}
  /\ accepted \in [Token -> Nat]
  /\ mails \in Seq([row : Row, until : Nat]) /\ Len(mails) <= MaxMail
  /\ \A u \in Rows : users[u].hash # 0 => mails[users[u].hash].row = u
  /\ \A c \in Call : call[c].row \in {0} \cup Row /\ call[c].token \in {0} \cup Token
  /\ page \in [Token -> [mounts : 0 .. MaxMount, exchanged : BOOLEAN,
                          shows : {"closed", "loader", "home", "error"}]]
  /\ vouched \subseteq Identities /\ opened \subseteq Mail
  /\ linkedOnce \subseteq Row \X Identities
  /\ events \subseteq EventKind /\ now \in 0 .. LastTick

(* An account counts as verified only after somebody opened a mail sent    *)
(* for it in time, or a provider vouched for the address of somebody whose *)
(* identity has been linked with it: typing an address in the form for     *)
(* GitHub accounts without one proves nothing (completeGithubEmail), and   *)
(* neither does a stale read written back.                                 *)
VerifiedByProof ==
  \A u \in Rows : users[u].verified =>
    \/ \E k \in opened : mails[k].row = u
    \/ \E i \in vouched : <<u, i>> \in linkedOnce

(* A code signs in to an account only the holder of an identity that the   *)
(* account has been linked with, whichever way the account was found and   *)
(* whatever other requests did between the reads (resolveGithubCallback,   *)
(* completeGithubEmail).                                                   *)
CodeIsForItsHolder ==
  \A t \in Drawn("code") : <<tokens[t].row, tokens[t].who>> \in linkedOnce

(* The callback page tells the truth although its effect runs more than    *)
(* once: it shows the failure only of a code that signed nobody in, and it *)
(* shows the loader only while the answer is still to come (exchangeOnce). *)
PageFollowsCode ==
  \A t \in Token :
    /\ page[t].shows = "error" => ~ page[t].exchanged
    /\ page[t].shows = "loader" => Asked(t)

(* States, codes and tickets are accepted once and in time, also when two  *)
(* requests bring the same one and when the API restarts.                  *)
Phase(t) ==
  IF t > Len(tokens) THEN "unissued"
  ELSE IF accepted[t] = 1 THEN "spent"
  ELSE IF accepted[t] > 1 THEN "spent twice"
  ELSE IF t \in store THEN "live" ELSE "lost"

OneTime ==
  INSTANCE OneTimeToken WITH
    Lives <- {StateLife, CodeLife, TicketLife},
    phase <- [t \in Token |-> Phase(t)],
    deadline <- [t \in Token |-> IF t \in DOMAIN tokens THEN tokens[t].until ELSE 0],
    clock <- now

TokensAreOneTime == OneTime!Spec

=============================================================================
